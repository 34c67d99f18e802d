------------------------- MODULE RequestReaderProofs -------------------------
(***************************************************************************)
(* The proofs about HttpParser and RequestReader.                          *)
(***************************************************************************)
EXTENDS RequestReader, SharedLemmas, SequenceTheorems

----------------------------------------------------------------------------
(* What the recursive definitions compute.                                 *)

\* The actions of an edge are done from the first to the last.
LEMMA PerformSteps ==
  ASSUME NEW q, NEW does, NEW b, NEW p, Len(does) \in Nat
  PROVE  \E f : /\ f[0] = q
                /\ \A i \in 1 .. Len(does) : f[i] = Act(f[i - 1], does[i], b, p)
                /\ Perform(q, does, b, p) = f[Len(does)]
<1> DEFINE Steps(f, n) == [i \in 0 .. n |-> IF i = 0 THEN q ELSE Act(f[i - 1], does[i], b, p)]
           S == {n \in Nat : \E f : f = Steps(f, n)}
<1>1. 0 \in S
  <2>1. [i \in 0 .. 0 |-> q] = Steps([i \in 0 .. 0 |-> q], 0)
    OBVIOUS
  <2> QED BY <2>1
<1>2. ASSUME NEW n \in 0 .. Len(does) - 1, n \in S PROVE n + 1 \in S
  <2>1. PICK f : f = Steps(f, n)
    BY <1>2
  <2> DEFINE g == [i \in 0 .. n + 1 |-> IF i = n + 1 THEN Act(f[n], does[n + 1], b, p) ELSE f[i]]
  <2>2. g = Steps(g, n + 1)
    <3>1. ASSUME NEW i \in 0 .. n + 1
          PROVE  g[i] = IF i = 0 THEN q ELSE Act(g[i - 1], does[i], b, p)
      <4>1. CASE i = 0
        BY <4>1, <2>1
      <4>2. CASE i \in 1 .. n
        BY <4>2, <2>1
      <4>3. CASE i = n + 1
        BY <4>3
      <4> QED BY <4>1, <4>2, <4>3
    <3> QED BY <3>1
  <2>3. n + 1 \in Nat
    BY <1>2
  <2> QED BY <2>2, <2>3
<1>3. Len(does) \in S
  <2> HIDE DEF S
  <2>1. 0 .. Len(does) \subseteq S
    BY <1>1, <1>2, Upward, 0 \in Nat
  <2> QED BY <2>1
<1>4. PICK f : f = Steps(f, Len(does)) /\ Perform(q, does, b, p) = f[Len(does)]
  <2>1. \E f : f = Steps(f, Len(does))
    BY <1>3
  <2> QED BY <2>1 DEF Perform
<1> QED
  BY <1>4

LEMMA PerformIs ==
  ASSUME NEW q, NEW does, NEW b, NEW p, Len(does) \in 0 .. 3
  PROVE  LET q1 == Act(q, does[1], b, p)
             q2 == Act(q1, does[2], b, p)
             q3 == Act(q2, does[3], b, p)
         IN Perform(q, does, b, p) = IF Len(does) = 0 THEN q ELSE IF Len(does) = 1 THEN q1
                                     ELSE IF Len(does) = 2 THEN q2 ELSE q3
<1>1. PICK f : /\ f[0] = q
               /\ \A i \in 1 .. Len(does) : f[i] = Act(f[i - 1], does[i], b, p)
               /\ Perform(q, does, b, p) = f[Len(does)]
  BY PerformSteps
<1>2. Len(does) > 0 => f[1] = Act(q, does[1], b, p)
  BY <1>1
<1>3. Len(does) > 1 => f[2] = Act(f[1], does[2], b, p)
  BY <1>1
<1>4. Len(does) > 2 => f[3] = Act(f[2], does[3], b, p)
  BY <1>1
<1> QED
  BY <1>1, <1>2, <1>3, <1>4

\* The parser goes through its buffer character by character.
LEMMA RunSteps ==
  ASSUME NEW q, NEW b, q.nread \in Nat, Len(b) \in Nat, q.nread <= Len(b)
  PROVE  \E at : /\ at[q.nread] = q
                 /\ \A i \in q.nread + 1 .. Len(b) : at[i] = Advance(at[i - 1], b[i], b)
                 /\ Run(q, b) = at[Len(b)]
<1> DEFINE r == q.nread
           Steps(f, n) == [i \in r .. n |-> IF i = r THEN q ELSE Advance(f[i - 1], b[i], b)]
           S == {n \in Nat : \E f : f = Steps(f, n)}
<1> r \in Nat
  OBVIOUS
<1> HIDE DEF r
<1>1. r \in S
  <2>1. [i \in r .. r |-> q] = Steps([i \in r .. r |-> q], r)
    OBVIOUS
  <2> QED BY <2>1
<1>2. ASSUME NEW n \in r .. Len(b) - 1, n \in S PROVE n + 1 \in S
  <2>1. PICK f : f = Steps(f, n)
    BY <1>2
  <2> DEFINE g == [i \in r .. n + 1 |-> IF i = n + 1 THEN Advance(f[n], b[n + 1], b) ELSE f[i]]
  <2>2. g = Steps(g, n + 1)
    <3>1. ASSUME NEW i \in r .. n + 1
          PROVE  g[i] = IF i = r THEN q ELSE Advance(g[i - 1], b[i], b)
      <4>1. CASE i = r
        BY <4>1, <2>1
      <4>2. CASE i \in r + 1 .. n
        BY <4>2, <2>1
      <4>3. CASE i = n + 1
        BY <4>3
      <4> QED BY <4>1, <4>2, <4>3
    <3> QED BY <3>1
  <2>3. n + 1 \in Nat
    BY <1>2
  <2> QED BY <2>2, <2>3
<1>3. Len(b) \in S
  <2> HIDE DEF S
  <2>1. r .. Len(b) \subseteq S
    BY <1>1, <1>2, Upward
  <2> QED BY <2>1 DEF r
<1>4. PICK f : f = Steps(f, Len(b)) /\ Run(q, b) = f[Len(b)]
  <2>1. \E f : f = Steps(f, Len(b))
    BY <1>3
  <2> QED BY <2>1 DEF Run, r
<1>5. f[r] = q /\ \A i \in r + 1 .. Len(b) : f[i] = Advance(f[i - 1], b[i], b)
  BY <1>4 DEF r
<1> QED
  BY <1>4, <1>5 DEF r

\* There is one way to go through it.
LEMMA RunIs ==
  ASSUME NEW q, NEW b, q.nread \in Nat, Len(b) \in Nat, q.nread <= Len(b), NEW f,
         f[q.nread] = q,
         \A i \in q.nread + 1 .. Len(b) : f[i] = Advance(f[i - 1], b[i], b)
  PROVE  Run(q, b) = f[Len(b)]
<1>1. PICK at : /\ at[q.nread] = q
                /\ \A i \in q.nread + 1 .. Len(b) : at[i] = Advance(at[i - 1], b[i], b)
                /\ Run(q, b) = at[Len(b)]
  BY RunSteps
<1> DEFINE S == {i \in Int : at[i] = f[i]}
<1>2. ASSUME NEW n \in q.nread .. Len(b) - 1, n \in S PROVE n + 1 \in S
  <2>1. n + 1 \in q.nread + 1 .. Len(b) /\ (n + 1) - 1 = n /\ at[n] = f[n]
    BY <1>2
  <2> QED BY <2>1, <1>1
<1>3. q.nread \in S
  BY <1>1
<1>4. q.nread .. Len(b) \subseteq S
  <2> HIDE DEF S
  <2> QED BY <1>2, <1>3, Upward
<1> QED
  BY <1>1, <1>4

----------------------------------------------------------------------------
(* The machine.                                                            *)

Stores == {<<"write_value">>, <<"start_value", "write_value">>}

NamesUri == {<<"request_uri">>, <<"request_path", "request_uri">>,
             <<"query_string", "request_uri">>, <<"start_query", "query_string", "request_uri">>}

\* What an edge does.
Doings ==
  {<<>>, <<"mark">>, <<"request_method">>, <<"request_path">>, <<"start_query">>,
   <<"mark", "fragment">>, <<"fragment">>, <<"http_version">>, <<"start_field">>,
   <<"write_field">>, <<"start_value">>, <<"done">>} \cup NamesUri \cup Stores

InValue == {At("value0"), At("value")}

\* The states behind the URI.
Late(s) ==
  s[1] \in {"fragment0", "fragment", "version", "major0", "major", "minor0", "minor", "eol",
            "header", "name", "value0", "value", "last", "finished"}

Parts == {"opaque", "path", "params", "query", "fragment"}

Plain == Parts \cup
  {"uri", "star", "scheme", "query0", "fragment0", "version", "major0", "major", "minor0",
   "minor", "eol", "header", "name", "value0", "value", "last", "finished"}

\* The states edges lead to.
Goals == {At(name) : name \in Plain} \cup {<<part, n>> : part \in Parts, n \in 1 .. 2}
         \cup {<<"method", n>> : n \in 1 .. MaxMethod}

\* A value is stored in the states that follow its name, whose length is known
\* there; the URI is stored before anything behind it; and the header block is
\* done where the machine finishes.
EdgeShape(from, to, does) ==
  /\ does \in Doings /\ to \in Goals
  /\ to # Error /\ from \notin {Error, Finished}
  /\ does \in Stores => from \in InValue
  /\ to \in InValue => \/ does = <<"write_field">>
                       \/ from \in InValue /\ does \in {<<>>, <<"start_value">>}
  /\ to = Finished <=> does = <<"done">>
  /\ Late(to) => Late(from) \/ does \in NamesUri

EdgeOK(e) == EdgeShape(e.from, e.to, e.does)

LEMMA EdgeIs == \A from, on, to, does : EdgeOK(Edge(from, on, to, does)) <=> EdgeShape(from, to, does)
BY DEF EdgeOK, Edge

LEMMA EdgesOK == \A e \in Edges : EdgeOK(e)
<1> USE DEF EdgeShape, At, Stores, NamesUri, Doings, InValue, Late, Error, Finished, Goals, Plain, Parts
<1>1. ASSUME NEW e \in MethodEdges PROVE EdgeOK(e)
  <2>1. /\ EdgeShape(At("start"), <<"method", 1>>, <<"mark">>)
        /\ \A n \in 1 .. MaxMethod - 1 : EdgeShape(<<"method", n>>, <<"method", n + 1>>, <<>>)
        /\ \A n \in 1 .. MaxMethod : EdgeShape(<<"method", n>>, At("uri"), <<"request_method">>)
    <3>1. /\ 1 \in 1 .. MaxMethod
          /\ \A n \in 1 .. MaxMethod - 1 : n + 1 \in 1 .. MaxMethod
      BY ParserAssumption
    <3> QED BY <3>1
  <2> HIDE DEF EdgeShape, At
  <2>3. \/ e = Edge(At("start"), MethodChars, <<"method", 1>>, <<"mark">>)
        \/ \E n \in 1 .. MaxMethod - 1 : e = Edge(<<"method", n>>, MethodChars, <<"method", n + 1>>, <<>>)
        \/ \E n \in 1 .. MaxMethod : e = Edge(<<"method", n>>, {"SP"}, At("uri"), <<"request_method">>)
    BY <1>1, Zenon DEF MethodEdges
  <2> QED BY <2>1, <2>3, EdgeIs, Zenon
<1>2. ASSUME NEW e \in UriEdges PROVE EdgeOK(e)
  <2>1. ASSUME NEW part \in DOMAIN UriEnds
        PROVE  /\ part \in {"star", "opaque", "params", "path", "query", "query0"}
               /\ UriEnds[part] \in NamesUri
    BY <2>1 DEF UriEnds
  <2>2. ASSUME NEW part \in {"star", "opaque", "params", "path", "query", "query0"},
               NEW does \in NamesUri, NEW to \in {"version", "fragment0"}
        PROVE  EdgeShape(At(part), At(to), does)
    <3>1. does \in Doings /\ does \notin Stores /\ does # <<"done">>
      BY <2>2
    <3>2. At(to) \in Goals /\ At(to) \notin InValue \cup {Error, Finished}
      BY <2>2
    <3>3. At(part) \notin {Error, Finished}
      BY <2>2
    <3> HIDE DEF NamesUri, Doings, Stores, Goals, InValue, Error, Finished, Late, At
    <3> QED BY <3>1, <3>2, <3>3
  <2>3. /\ EdgeShape(At("uri"), At("star"), <<"mark">>)
        /\ EdgeShape(At("uri"), At("path"), <<"mark">>)
        /\ EdgeShape(At("uri"), At("opaque"), <<"mark">>)
        /\ EdgeShape(At("uri"), At("scheme"), <<"mark">>)
        /\ EdgeShape(At("scheme"), At("scheme"), <<>>)
        /\ EdgeShape(At("scheme"), At("opaque"), <<>>)
        /\ EdgeShape(At("opaque"), At("opaque"), <<>>)
        /\ EdgeShape(At("path"), At("path"), <<>>)
        /\ EdgeShape(At("path"), At("params"), <<"request_path">>)
        /\ EdgeShape(At("path"), At("query0"), <<"request_path">>)
        /\ EdgeShape(At("params"), At("params"), <<>>)
        /\ EdgeShape(At("params"), At("query0"), <<>>)
        /\ EdgeShape(At("query0"), At("query"), <<"start_query">>)
        /\ EdgeShape(At("query0"), <<"query", 2>>, <<"start_query">>)
        /\ EdgeShape(At("query"), At("query"), <<>>)
    OBVIOUS
  <2> HIDE DEF EdgeShape, At, NamesUri
  <2>4. ASSUME NEW part \in DOMAIN UriEnds, NEW on, NEW to \in {"version", "fragment0"},
               e = Edge(At(part), on, At(to), UriEnds[part])
        PROVE  EdgeOK(e)
    <3>1. EdgeShape(At(part), At(to), UriEnds[part])
      BY <2>1, <2>2
    <3> QED BY <2>4, <3>1, EdgeIs
  <2>5. CASE e \in {Edge(At(part), {"SP"}, At("version"), UriEnds[part]) : part \in DOMAIN UriEnds}
    BY <2>4, <2>5
  <2>6. CASE e \in {Edge(At(part), {"#"}, At("fragment0"), UriEnds[part]) : part \in DOMAIN UriEnds}
    BY <2>4, <2>6
  <2>7. \/ e \in {Edge(At(part), {"SP"}, At("version"), UriEnds[part]) : part \in DOMAIN UriEnds}
        \/ e \in {Edge(At(part), {"#"}, At("fragment0"), UriEnds[part]) : part \in DOMAIN UriEnds}
        \/ \E on : \/ e = Edge(At("uri"), on, At("star"), <<"mark">>)
                   \/ e = Edge(At("uri"), on, At("path"), <<"mark">>)
                   \/ e = Edge(At("uri"), on, At("opaque"), <<"mark">>)
                   \/ e = Edge(At("uri"), on, At("scheme"), <<"mark">>)
                   \/ e = Edge(At("scheme"), on, At("scheme"), <<>>)
                   \/ e = Edge(At("scheme"), on, At("opaque"), <<>>)
                   \/ e = Edge(At("opaque"), on, At("opaque"), <<>>)
                   \/ e = Edge(At("path"), on, At("path"), <<>>)
                   \/ e = Edge(At("path"), on, At("params"), <<"request_path">>)
                   \/ e = Edge(At("path"), on, At("query0"), <<"request_path">>)
                   \/ e = Edge(At("params"), on, At("params"), <<>>)
                   \/ e = Edge(At("params"), on, At("query0"), <<>>)
                   \/ e = Edge(At("query0"), on, At("query"), <<"start_query">>)
                   \/ e = Edge(At("query0"), on, <<"query", 2>>, <<"start_query">>)
                   \/ e = Edge(At("query"), on, At("query"), <<>>)
    <3> HIDE DEF Edge
    <3> QED BY <1>2, Zenon DEF UriEdges
  <2> QED BY <2>3, <2>5, <2>6, <2>7, EdgeIs
<1>3. ASSUME NEW e \in FragmentEdges PROVE EdgeOK(e)
  <2>1. /\ EdgeShape(At("fragment0"), At("version"), <<"mark", "fragment">>)
        /\ EdgeShape(At("fragment0"), <<"fragment", 2>>, <<"mark">>)
        /\ EdgeShape(At("fragment0"), At("fragment"), <<"mark">>)
        /\ EdgeShape(At("fragment"), At("fragment"), <<>>)
        /\ EdgeShape(At("fragment"), At("version"), <<"fragment">>)
    OBVIOUS
  <2> HIDE DEF EdgeShape, At
  <2> QED BY <1>3, <2>1, EdgeIs DEF FragmentEdges
<1>4. ASSUME NEW e \in EscapeEdges PROVE EdgeOK(e)
  <2>1. ASSUME NEW part \in Parts, NEW n, NEW m \in 0 .. 2
        PROVE  EdgeShape(<<part, n>>, <<part, m>>, <<>>)
    <3>1. <<part, m>> \in Goals
      BY <2>1
    <3> HIDE DEF Goals
    <3> QED BY <3>1, <2>1
  <2>2. \/ \E part \in Parts : e = Edge(At(part), {"%"}, <<part, 2>>, <<>>)
        \/ \E part \in Parts, n \in {1, 2} : e = Edge(<<part, n>>, HexDigits, <<part, n - 1>>, <<>>)
    <3> HIDE DEF Edge, EdgeShape
    <3> QED BY <1>4 DEF EscapeEdges
  <2>3. \A n \in {1, 2} : n - 1 \in 0 .. 2
    OBVIOUS
  <2> HIDE DEF EdgeShape, Parts
  <2> QED BY <2>1, <2>2, <2>3, EdgeIs, 2 \in 0 .. 2
<1>5. ASSUME NEW e \in VersionEdges PROVE EdgeOK(e)
  <2>1. /\ EdgeShape(At("version"), At("major0"), <<"mark">>)
        /\ EdgeShape(At("major0"), At("major"), <<>>)
        /\ EdgeShape(At("major"), At("major"), <<>>)
        /\ EdgeShape(At("major"), At("minor0"), <<>>)
        /\ EdgeShape(At("minor0"), At("minor"), <<>>)
        /\ EdgeShape(At("minor"), At("minor"), <<>>)
        /\ EdgeShape(At("minor"), At("eol"), <<"http_version">>)
    OBVIOUS
  <2> HIDE DEF EdgeShape, At
  <2> QED BY <1>5, <2>1, EdgeIs DEF VersionEdges
<1>6. ASSUME NEW e \in FieldEdges PROVE EdgeOK(e)
  <2>1. /\ EdgeShape(At("eol"), At("header"), <<>>)
        /\ EdgeShape(At("header"), At("last"), <<>>)
        /\ EdgeShape(At("header"), At("name"), <<"start_field">>)
        /\ EdgeShape(At("name"), At("name"), <<>>)
        /\ EdgeShape(At("name"), At("value0"), <<"write_field">>)
        /\ EdgeShape(At("value0"), At("value0"), <<"start_value">>)
        /\ EdgeShape(At("value0"), At("eol"), <<"start_value", "write_value">>)
        /\ EdgeShape(At("value0"), At("value"), <<"start_value">>)
        /\ EdgeShape(At("value"), At("value"), <<>>)
        /\ EdgeShape(At("value"), At("eol"), <<"write_value">>)
        /\ EdgeShape(At("last"), At("finished"), <<"done">>)
    OBVIOUS
  <2> HIDE DEF EdgeShape, At
  <2> QED BY <1>6, <2>1, EdgeIs DEF FieldEdges
<1> QED
  BY <1>1, <1>2, <1>3, <1>4, <1>5, <1>6 DEF Edges

\* A field's name ends at a colon.
LEMMA NamesEndAtColons == \A e \in Edges : e.does = <<"write_field">> => e.on = {":"}
<1> DEFINE Colon(e) == e.does = <<"write_field">> => e.on = {":"}
<1>1. ASSUME NEW from, NEW on, NEW to, NEW does, does # <<"write_field">> \/ on = {":"}
      PROVE  Colon(Edge(from, on, to, does))
  BY <1>1 DEF Edge
<1> HIDE DEF Colon
<1>2. \A part \in DOMAIN UriEnds : UriEnds[part] # <<"write_field">>
  BY DEF UriEnds
<1>3. \A e \in MethodEdges : Colon(e)
  BY <1>1 DEF MethodEdges
<1>4. ASSUME NEW e \in UriEdges PROVE Colon(e)
  <2>1. \/ \E part \in DOMAIN UriEnds : \E on, to : e = Edge(At(part), on, to, UriEnds[part])
        \/ \E from, on, to : \/ e = Edge(from, on, to, <<"mark">>)
                             \/ e = Edge(from, on, to, <<>>)
                             \/ e = Edge(from, on, to, <<"request_path">>)
                             \/ e = Edge(from, on, to, <<"start_query">>)
    BY Zenon DEF UriEdges
  <2>2. \A does \in {<<"mark">>, <<>>, <<"request_path">>, <<"start_query">>} : does # <<"write_field">>
    OBVIOUS
  <2> QED BY <1>1, <1>2, <2>1, <2>2, Zenon
<1>5. \A e \in FragmentEdges : Colon(e)
  BY <1>1 DEF FragmentEdges
<1>6. ASSUME NEW e \in EscapeEdges PROVE Colon(e)
  <2>1. \E from, on, to : e = Edge(from, on, to, <<>>)
    BY DEF EscapeEdges
  <2> QED BY <1>1, <2>1
<1>7. \A e \in VersionEdges : Colon(e)
  BY <1>1 DEF VersionEdges
<1>8. \A e \in FieldEdges : Colon(e)
  BY <1>1 DEF FieldEdges
<1>9. \A e \in Edges : Colon(e)
  BY <1>3, <1>4, <1>5, <1>6, <1>7, <1>8 DEF Edges
<1> QED
  BY <1>9 DEF Colon

\* Edges lead to states edges leave.
LEMMA StartIsState == At("start") \in States
<1>1. Edge(At("start"), MethodChars, <<"method", 1>>, <<"mark">>) \in Edges
  BY DEF Edges, MethodEdges
<1> QED BY <1>1 DEF Edge, States

LEMMA GoalsAreStates == Goals \subseteq States
<1>1. ASSUME NEW from, NEW on, NEW to, NEW does, Edge(from, on, to, does) \in Edges
      PROVE  from \in States
  BY <1>1 DEF Edge, States
<1>2. ASSUME NEW n \in 1 .. MaxMethod PROVE <<"method", n>> \in States
  <2>1. Edge(<<"method", n>>, {"SP"}, At("uri"), <<"request_method">>) \in Edges
    BY Zenon DEF Edges, MethodEdges
  <2> QED BY <1>1, <2>1
<1>3. ASSUME NEW part \in Parts PROVE At(part) \in States /\ \A n \in 1 .. 2 : <<part, n>> \in States
  <2>1. Edge(At(part), {"%"}, <<part, 2>>, <<>>) \in Edges
    BY DEF Edges, EscapeEdges, Parts
  <2>2. ASSUME NEW n \in {1, 2} PROVE Edge(<<part, n>>, HexDigits, <<part, n - 1>>, <<>>) \in Edges
    BY DEF Edges, EscapeEdges, Parts
  <2>3. \A n \in 1 .. 2 : n \in {1, 2}
    OBVIOUS
  <2> QED BY <1>1, <2>1, <2>2, <2>3
<1>4. /\ Edge(At("uri"), {"*"}, At("star"), <<"mark">>) \in Edges
      /\ Edge(At("scheme"), {":"}, At("opaque"), <<>>) \in Edges
      /\ Edge(At("query0"), UriChars, At("query"), <<"start_query">>) \in Edges
  BY Zenon DEF Edges, UriEdges
<1>5. Edge(At("star"), {"SP"}, At("version"), UriEnds["star"]) \in Edges
  BY "star" \in DOMAIN UriEnds, Zenon DEF Edges, UriEdges, UriEnds
<1>6. Edge(At("fragment0"), {"SP"}, At("version"), <<"mark", "fragment">>) \in Edges
  BY Zenon DEF Edges, FragmentEdges
<1>7. /\ Edge(At("version"), {"HTTP/"}, At("major0"), <<"mark">>) \in Edges
      /\ Edge(At("major0"), Digits, At("major"), <<>>) \in Edges
      /\ Edge(At("major"), {"."}, At("minor0"), <<>>) \in Edges
      /\ Edge(At("minor0"), Digits, At("minor"), <<>>) \in Edges
      /\ Edge(At("minor"), {"CR"}, At("eol"), <<"http_version">>) \in Edges
  BY Zenon DEF Edges, VersionEdges
<1>8. /\ Edge(At("eol"), {"LF"}, At("header"), <<>>) \in Edges
      /\ Edge(At("header"), {"CR"}, At("last"), <<>>) \in Edges
      /\ Edge(At("name"), {":"}, At("value0"), <<"write_field">>) \in Edges
      /\ Edge(At("value0"), {"SP"}, At("value0"), <<"start_value">>) \in Edges
      /\ Edge(At("value"), {"CR"}, At("eol"), <<"write_value">>) \in Edges
      /\ Edge(At("last"), {"LF"}, At("finished"), <<"done">>) \in Edges
  BY Zenon DEF Edges, FieldEdges
<1>9. At("finished") \in States
  BY DEF States, Finished
<1>10. \A name \in Plain \ Parts : At(name) \in States
  <2> HIDE DEF Edges, States, At, Edge
  <2> QED BY <1>1, <1>4, <1>5, <1>6, <1>7, <1>8, <1>9 DEF Plain
<1>11. ASSUME NEW g \in Goals PROVE g \in States
  <2>1. \/ \E name \in Plain : g = At(name)
        \/ \E part \in Parts, n \in 1 .. 2 : g = <<part, n>>
        \/ \E n \in 1 .. MaxMethod : g = <<"method", n>>
    BY DEF Goals
  <2> HIDE DEF At
  <2> QED BY <2>1, <1>2, <1>3, <1>10
<1> QED
  BY <1>11

\* Where the machine goes, and what it does on the way, an edge says; or it is
\* in error.
LEMMA TransitionIs ==
  ASSUME NEW s \in States, NEW c \in Symbols
  PROVE  \/ Transition[s][c].to = Error /\ Transition[s][c].does = <<>>
         \/ /\ EdgeShape(s, Transition[s][c].to, Transition[s][c].does)
            /\ Transition[s][c].does = <<"write_field">> => c = ":"
            /\ Transition[s][c].to \in States
<1> DEFINE ways == {e \in Edges : e.from = s /\ c \in e.on}
           way == CHOOSE e \in ways : TRUE
<1>1. Transition[s][c] = IF ways = {} THEN [to |-> Error, does |-> <<>>]
                         ELSE [to |-> way.to, does |-> way.does]
  BY DEF Transition
<1>2. CASE ways = {}
  BY <1>1, <1>2
<1>3. CASE ways # {}
  <2>1. way \in ways
    BY <1>3
  <2> HIDE DEF way
  <2>2. EdgeShape(s, way.to, way.does)
    BY <2>1, EdgesOK DEF EdgeOK
  <2>3. way.to \in States
    BY <2>2, GoalsAreStates DEF EdgeShape
  <2>4. way.does = <<"write_field">> => c = ":"
    BY <2>1, NamesEndAtColons
  <2> QED BY <1>1, <1>3, <2>2, <2>3, <2>4
<1> QED
  BY <1>2, <1>3

----------------------------------------------------------------------------
(* What a parser is, after the first i characters of its buffer b.         *)

IsParams(params) ==
  /\ params = [k \in DOMAIN params |-> params[k]]
  /\ \A k \in DOMAIN params : params[k] \in Seq(Symbols)

IsParser(q) ==
  /\ q = [cs |-> q.cs, nread |-> q.nread, mark |-> q.mark, field_start |-> q.field_start,
          field_len |-> q.field_len, query_start |-> q.query_start,
          body_start |-> q.body_start, params |-> q.params]
  /\ q.cs \in States /\ q.nread \in Nat /\ q.mark \in Nat /\ q.field_start \in Nat
  /\ q.field_len \in Nat /\ q.query_start \in Nat /\ q.body_start \in Nat
  /\ IsParams(q.params)

\* Between two actions at offset p.
Mid(q, p) ==
  /\ IsParser(q)
  /\ q.nread = p /\ q.body_start = 0
  /\ q.mark <= p /\ q.field_start <= p /\ q.query_start <= p /\ q.field_len <= p

\* The name of a field has ended: at a colon.
FieldKnown(q, b, p) ==
  q.field_start + q.field_len < p /\ b[q.field_start + q.field_len + 1] = ":"

\* No field among the first p characters is named Body.
NoBody(b, p) == \A j \in 1 .. p - 1 : b[j] = "Body" => b[j + 1] # ":"

\* What actions leave as it was.
Kept(q, r, b, p) ==
  /\ r.cs = q.cs
  /\ DOMAIN q.params \subseteq DOMAIN r.params
  /\ NoBody(b, p) /\ Body \notin DOMAIN q.params => Body \notin DOMAIN r.params

LEMMA TextIn ==
  ASSUME NEW b \in Seq(Symbols), NEW from \in Nat, NEW len \in Nat, from + len <= Len(b)
  PROVE  /\ Text(b, from, len) \in Seq(Symbols)
         /\ Len(Text(b, from, len)) = len
         /\ \A i \in 1 .. len : Text(b, from, len)[i] = b[from + i]
BY DEF Text

\* Two buffers that begin with the same n characters.
Agree(b1, b2, n) == n <= Len(b1) /\ n <= Len(b2) /\ \A j \in 1 .. n : b1[j] = b2[j]

LEMMA TextSame ==
  ASSUME NEW b1 \in Seq(Symbols), NEW b2 \in Seq(Symbols), NEW n \in Nat, Agree(b1, b2, n),
         NEW from \in Nat, NEW len \in Nat, from + len <= n
  PROVE  Text(b1, from, len) = Text(b2, from, len)
BY SMTT(20) DEF Text, Agree

LEMMA PutIs ==
  ASSUME NEW params, IsParams(params), NEW key, NEW value \in Seq(Symbols)
  PROVE  /\ IsParams(Put(params, key, value))
         /\ DOMAIN Put(params, key, value) = DOMAIN params \cup {key}
         /\ key \notin DOMAIN params => Put(params, key, value)[key] = value
BY DEF Put, IsParams

Actions == {"mark", "start_field", "write_field", "start_value", "write_value", "start_query"}
           \cup DOMAIN Names

\* What a parser stores under a key, before it is done.
Store(q, key, value) == [q EXCEPT !.params = Put(@, key, value)]

LEMMA StoreOK ==
  ASSUME NEW b \in Seq(Symbols), NEW p \in 0 .. Len(b), NEW q, Mid(q, p), NEW key,
         NEW value \in Seq(Symbols), NoBody(b, p) => key # Body
  PROVE  /\ Mid(Store(q, key, value), p) /\ Kept(q, Store(q, key, value), b, p)
         /\ key \in DOMAIN Store(q, key, value).params
         /\ Store(q, key, value).field_start = q.field_start
         /\ Store(q, key, value).field_len = q.field_len
<1> DEFINE r == Store(q, key, value)
<1>1. IsParams(q.params)
  BY DEF Mid, IsParser
<1>2. /\ IsParams(r.params)
      /\ DOMAIN r.params = DOMAIN q.params \cup {key}
  <2>1. r.params = Put(q.params, key, value)
    BY DEF Mid, IsParser, Store
  <2>2. /\ IsParams(Put(q.params, key, value))
        /\ DOMAIN Put(q.params, key, value) = DOMAIN q.params \cup {key}
    BY <1>1, PutIs, Zenon
  <2> QED BY <2>1, <2>2, Zenon
<1>3. IsParser(r)
  BY <1>2 DEF Mid, IsParser, Store
<1> QED
  BY <1>2, <1>3 DEF Mid, IsParser, Kept, Store

LEMMA ActOK ==
  ASSUME NEW b \in Seq(Symbols), NEW p \in Nat, p < Len(b), NEW q, Mid(q, p),
         NEW a \in Actions, a = "write_value" => FieldKnown(q, b, p), NEW r, r = Act(q, a, b, p)
  PROVE  /\ Mid(r, p) /\ Kept(q, r, b, p)
         /\ a = "write_field" => r.field_start + r.field_len = p
         /\ a \notin {"start_field", "write_field"} =>
              r.field_start = q.field_start /\ r.field_len = q.field_len
         /\ a = "request_uri" => Names.request_uri \in DOMAIN r.params
<1>0. p \in 0 .. Len(b)
  OBVIOUS
<1>1. CASE a \in {"mark", "start_value", "start_field", "start_query"}
  <2>1. \/ r = [q EXCEPT !.mark = p]
        \/ r = [q EXCEPT !.field_start = p] /\ a = "start_field"
        \/ r = [q EXCEPT !.query_start = p]
    BY <1>1 DEF Act, Names
  <2>2. IsParser(r)
    BY <2>1 DEF Mid, IsParser
  <2>3. Mid(r, p) /\ r.params = q.params /\ r.cs = q.cs
    BY <2>1, <2>2 DEF Mid, IsParser
  <2>4. a # "start_field" => r.field_start = q.field_start /\ r.field_len = q.field_len
    BY <2>1 DEF Mid, IsParser
  <2> QED BY <1>1, <2>3, <2>4 DEF Kept
<1>2. CASE a = "write_field"
  <2>1. r = [q EXCEPT !.field_len = p - q.field_start]
    BY <1>2 DEF Act, Names
  <2>2. IsParser(r)
    BY <2>1 DEF Mid, IsParser
  <2>3. Mid(r, p) /\ r.params = q.params /\ r.cs = q.cs
    BY <2>1, <2>2 DEF Mid, IsParser
  <2>4. r.field_start + r.field_len = p
    BY <2>1 DEF Mid, IsParser
  <2> QED BY <1>2, <2>3, <2>4 DEF Kept
<1>3. CASE a = "write_value"
  <2> DEFINE key == Text(b, q.field_start, q.field_len)
             value == Text(b, q.mark, p - q.mark)
  <2>1. r = Store(q, key, value)
    BY <1>3 DEF Act, Names, Store
  <2>2. /\ q.field_start \in Nat /\ q.field_len \in Nat /\ q.field_start + q.field_len <= p
        /\ q.field_start + q.field_len <= Len(b)
        /\ q.mark \in Nat /\ p - q.mark \in Nat /\ q.mark + (p - q.mark) <= Len(b)
    BY <1>3 DEF Mid, IsParser, FieldKnown
  <2>3. value \in Seq(Symbols)
    BY <2>2, TextIn, Zenon
  <2>4. NoBody(b, p) => key # Body
    <3>1. /\ Len(key) = q.field_len
          /\ \A i \in 1 .. q.field_len : key[i] = b[q.field_start + i]
      BY <2>2, TextIn, Zenon
    <3>2. Len(Body) = 1 /\ Body[1] = "Body"
      BY DEF Body
    <3>3. q.field_len = 1 =>
            /\ 1 \in 1 .. q.field_len /\ q.field_start + 1 \in 1 .. p - 1
            /\ b[(q.field_start + 1) + 1] = ":"
      BY <1>3, <2>2 DEF FieldKnown
    <3> QED BY <3>1, <3>2, <3>3, Zenon DEF NoBody
  <2>5. PICK k, v : k = key /\ v = value
    OBVIOUS
  <2> DEFINE s == Store(q, k, v)
  <2> HIDE DEF value, key
  <2>6. /\ Mid(s, p) /\ Kept(q, s, b, p)
        /\ s.field_start = q.field_start /\ s.field_len = q.field_len
    BY <1>0, <2>3, <2>4, <2>5, StoreOK
  <2> QED BY <1>3, <2>1, <2>5, <2>6, Zenon
<1>4. CASE a \in DOMAIN Names
  <2> DEFINE from == IF a = "query_string" THEN q.query_start ELSE q.mark
             value == Text(b, from, p - from)
             key == Names[a]
  <2>1. r = Store(q, key, value)
    BY <1>4 DEF Act, Names, Store
  <2>2. from \in Nat /\ p - from \in Nat /\ from + (p - from) <= Len(b)
    BY DEF Mid, IsParser
  <2>3. value \in Seq(Symbols)
    <3> HIDE DEF from
    <3> QED BY <2>2, TextIn, Zenon
  <2>4. key # Body
    BY <1>4 DEF Names, Body
  <2>5. a \notin {"start_field", "write_field"} /\ (a = "request_uri" => key = Names.request_uri)
    BY <1>4 DEF Names
  <2>6. PICK k, v : k = key /\ v = value
    OBVIOUS
  <2> DEFINE s == Store(q, k, v)
  <2> HIDE DEF value, key
  <2>7. /\ Mid(s, p) /\ Kept(q, s, b, p) /\ k \in DOMAIN s.params
        /\ s.field_start = q.field_start /\ s.field_len = q.field_len
    BY <1>0, <2>3, <2>4, <2>6, StoreOK
  <2> QED BY <1>4, <2>1, <2>5, <2>6, <2>7, Zenon
<1> QED
  BY <1>1, <1>2, <1>3, <1>4 DEF Actions

\* An action sees no more of the buffer than what comes before its offset.
LEMMA ActSame ==
  ASSUME NEW b1 \in Seq(Symbols), NEW b2 \in Seq(Symbols), NEW p \in Nat, Agree(b1, b2, p),
         NEW q, Mid(q, p), NEW a \in Actions, a = "write_value" => FieldKnown(q, b1, p)
  PROVE  Act(q, a, b1, p) = Act(q, a, b2, p)
<1>1. /\ q.field_start \in Nat /\ q.field_len \in Nat
      /\ q.mark \in Nat /\ p - q.mark \in Nat /\ q.mark + (p - q.mark) <= p
      /\ q.query_start \in Nat /\ p - q.query_start \in Nat
      /\ q.query_start + (p - q.query_start) <= p
  BY DEF Mid, IsParser
<1>2. /\ Text(b1, q.mark, p - q.mark) = Text(b2, q.mark, p - q.mark)
      /\ Text(b1, q.query_start, p - q.query_start) = Text(b2, q.query_start, p - q.query_start)
  BY <1>1, TextSame
<1>3. CASE a = "write_value"
  <2>1. Text(b1, q.field_start, q.field_len) = Text(b2, q.field_start, q.field_len)
    BY <1>1, <1>3, TextSame DEF FieldKnown
  <2> QED BY <1>2, <1>3, <2>1 DEF Act, Names
<1>4. CASE a = "query_string"
  BY <1>2, <1>4 DEF Act, Names
<1>5. CASE a \in DOMAIN Names \ {"query_string"}
  BY <1>2, <1>5 DEF Act, Names
<1>6. CASE a \in {"mark", "start_field", "write_field", "start_value", "start_query"}
  BY <1>6 DEF Act, Names
<1> QED
  BY <1>3, <1>4, <1>5, <1>6 DEF Actions

LEMMA PerformNone ==
  ASSUME NEW q, NEW b, NEW p
  PROVE  Perform(q, <<>>, b, p) = q
<1>1. Len(<<>>) \in 0 .. 3 /\ Len(<<>>) = 0
  OBVIOUS
<1> QED BY <1>1, PerformIs

LEMMA PerformOne ==
  ASSUME NEW q, NEW b, NEW p, NEW does, NEW a1, does = <<a1>>
  PROVE  Perform(q, does, b, p) = Act(q, a1, b, p)
<1>1. Len(does) = 1 /\ Len(does) \in 0 .. 3 /\ does[1] = a1
  OBVIOUS
<1> QED BY <1>1, PerformIs

LEMMA PerformTwo ==
  ASSUME NEW q, NEW b, NEW p, NEW does, Len(does) = 2
  PROVE  Perform(q, does, b, p) = Act(Act(q, does[1], b, p), does[2], b, p)
<1>1. Len(does) \in 0 .. 3 /\ Len(does) # 0 /\ Len(does) # 1
  OBVIOUS
<1> QED BY <1>1, PerformIs

LEMMA PerformThree ==
  ASSUME NEW q, NEW b, NEW p, NEW does, Len(does) = 3
  PROVE  Perform(q, does, b, p) = Act(Act(Act(q, does[1], b, p), does[2], b, p), does[3], b, p)
<1>1. Len(does) \in 0 .. 3 /\ Len(does) # 0 /\ Len(does) # 1 /\ Len(does) # 2
  OBVIOUS
<1> QED BY <1>1, PerformIs

\* The forms of what an edge does.
LEMMA DoingsAre ==
  ASSUME NEW does \in Doings
  PROVE  \/ does = <<>>
         \/ does = <<"done">>
         \/ \E a \in Actions : /\ does = <<a>> /\ (a = "write_value" => does \in Stores)
                               /\ (does \in NamesUri => a = "request_uri")
         \/ \E a1, a2 \in Actions \ {"start_field", "write_field"} :
              /\ does = <<a1, a2>> /\ a1 # "write_value"
              /\ (a2 = "write_value" => does \in Stores)
              /\ (does \in NamesUri => a2 = "request_uri")
         \/ does = <<"start_query", "query_string", "request_uri">>
<1> USE DEF Actions, Names, Stores, NamesUri
<1>1. CASE does \in {<<"mark">>, <<"request_method">>, <<"request_path">>, <<"start_query">>,
                     <<"fragment">>, <<"http_version">>, <<"start_field">>, <<"write_field">>,
                     <<"start_value">>, <<"request_uri">>, <<"write_value">>}
  BY <1>1
<1>2. CASE does \in {<<"mark", "fragment">>, <<"start_value", "write_value">>,
                     <<"request_path", "request_uri">>, <<"query_string", "request_uri">>}
  BY <1>2
<1> QED
  BY <1>1, <1>2 DEF Doings

LEMMA PerformOK ==
  ASSUME NEW b \in Seq(Symbols), NEW p \in Nat, p < Len(b), NEW q, Mid(q, p),
         NEW does \in Doings, does # <<"done">>, does \in Stores => FieldKnown(q, b, p),
         NEW r, r = Perform(q, does, b, p)
  PROVE  /\ Mid(r, p) /\ Kept(q, r, b, p)
         /\ does = <<"write_field">> => r.field_start + r.field_len = p
         /\ does \in {<<>>, <<"start_value">>} =>
              r.field_start = q.field_start /\ r.field_len = q.field_len
         /\ does \in NamesUri => Names.request_uri \in DOMAIN r.params
<1>1. CASE does = <<>>
  <2>1. r = q
    BY <1>1, PerformNone
  <2> QED BY <1>1, <2>1 DEF Kept, NamesUri
<1>2. ASSUME NEW a \in Actions, does = <<a>>, a = "write_value" => does \in Stores,
             does \in NamesUri => a = "request_uri"
      PROVE  /\ Mid(r, p) /\ Kept(q, r, b, p)
             /\ does = <<"write_field">> => r.field_start + r.field_len = p
             /\ does \in {<<>>, <<"start_value">>} =>
                  r.field_start = q.field_start /\ r.field_len = q.field_len
             /\ does \in NamesUri => Names.request_uri \in DOMAIN r.params
  <2>1. r = Act(q, a, b, p)
    BY <1>2, PerformOne, Zenon
  <2>2. /\ does = <<"write_field">> => a = "write_field"
        /\ does \in {<<>>, <<"start_value">>} => a = "start_value"
        /\ a = "start_value" => a \notin {"start_field", "write_field"}
    BY <1>2
  <2> QED BY <1>2, <2>1, <2>2, ActOK
<1>3. ASSUME NEW a1 \in Actions \ {"start_field", "write_field"},
             NEW a2 \in Actions \ {"start_field", "write_field"},
             does = <<a1, a2>>, a1 # "write_value", a2 = "write_value" => does \in Stores,
             does \in NamesUri => a2 = "request_uri"
      PROVE  /\ Mid(r, p) /\ Kept(q, r, b, p)
             /\ does \in NamesUri => Names.request_uri \in DOMAIN r.params
  <2>1. PICK s : s = Act(q, a1, b, p)
    OBVIOUS
  <2>2. r = Act(s, a2, b, p)
    <3>1. Len(does) = 2 /\ does[1] = a1 /\ does[2] = a2
      BY <1>3
    <3> QED BY <2>1, <3>1, PerformTwo, Zenon
  <2>3. /\ Mid(s, p) /\ Kept(q, s, b, p)
        /\ s.field_start = q.field_start /\ s.field_len = q.field_len
    BY <1>3, <2>1, ActOK
  <2>4. a2 = "write_value" => FieldKnown(s, b, p)
    BY <1>3, <2>3 DEF FieldKnown
  <2>5. /\ Mid(r, p) /\ Kept(s, r, b, p)
        /\ a2 = "request_uri" => Names.request_uri \in DOMAIN r.params
    BY <2>2, <2>3, <2>4, ActOK
  <2> QED BY <1>3, <2>3, <2>5 DEF Kept
<1>4. CASE does = <<"start_query", "query_string", "request_uri">>
  <2>1. PICK s : s = Act(q, "start_query", b, p)
    OBVIOUS
  <2>2. PICK t : t = Act(s, "query_string", b, p)
    OBVIOUS
  <2>3. r = Act(t, "request_uri", b, p)
    <3>1. /\ Len(does) = 3 /\ does[1] = "start_query" /\ does[2] = "query_string"
          /\ does[3] = "request_uri"
      BY <1>4
    <3> QED BY <2>1, <2>2, <3>1, PerformThree, Zenon
  <2>4. {"start_query", "query_string", "request_uri"} \subseteq Actions
    BY DEF Actions, Names
  <2>5. Mid(s, p) /\ Kept(q, s, b, p)
    BY <2>1, <2>4, ActOK
  <2>6. Mid(t, p) /\ Kept(s, t, b, p)
    BY <2>2, <2>4, <2>5, ActOK
  <2>7. Mid(r, p) /\ Kept(t, r, b, p) /\ Names.request_uri \in DOMAIN r.params
    BY <2>3, <2>4, <2>6, ActOK
  <2> QED BY <1>4, <2>5, <2>6, <2>7 DEF Kept
<1>5. \A a1, a2 : <<a1, a2>> \notin {<<"write_field">>, <<>>, <<"start_value">>}
  OBVIOUS
<1> QED
  BY <1>1, <1>2, <1>3, <1>4, <1>5, DoingsAre

LEMMA PerformSame ==
  ASSUME NEW b1 \in Seq(Symbols), NEW b2 \in Seq(Symbols), NEW p \in Nat, Agree(b1, b2, p),
         p < Len(b1), p < Len(b2), NEW q, Mid(q, p),
         NEW does \in Doings, does # <<"done">>, does \in Stores => FieldKnown(q, b1, p)
  PROVE  Perform(q, does, b1, p) = Perform(q, does, b2, p)
<1>1. CASE does = <<>>
  BY <1>1, PerformNone
<1>2. ASSUME NEW a \in Actions, does = <<a>>, a = "write_value" => does \in Stores
      PROVE  Perform(q, does, b1, p) = Perform(q, does, b2, p)
  <2>1. Act(q, a, b1, p) = Act(q, a, b2, p)
    BY <1>2, ActSame
  <2>2. Perform(q, does, b1, p) = Act(q, a, b1, p) /\ Perform(q, does, b2, p) = Act(q, a, b2, p)
    BY <1>2, PerformOne, Zenon
  <2> QED BY <1>2, <2>1, <2>2, Zenon
<1>3. ASSUME NEW a1 \in Actions \ {"start_field", "write_field"},
             NEW a2 \in Actions \ {"start_field", "write_field"},
             does = <<a1, a2>>, a1 # "write_value", a2 = "write_value" => does \in Stores
      PROVE  Perform(q, does, b1, p) = Perform(q, does, b2, p)
  <2>1. PICK s : s = Act(q, a1, b1, p)
    OBVIOUS
  <2>2. s = Act(q, a1, b2, p)
    BY <1>3, <2>1, ActSame
  <2>3. /\ Mid(s, p)
        /\ s.field_start = q.field_start /\ s.field_len = q.field_len
    BY <1>3, <2>1, ActOK
  <2>4. a2 = "write_value" => FieldKnown(s, b1, p)
    BY <1>3, <2>3 DEF FieldKnown
  <2>5. Act(s, a2, b1, p) = Act(s, a2, b2, p)
    BY <2>3, <2>4, ActSame
  <2>6. /\ Perform(q, does, b1, p) = Act(Act(q, a1, b1, p), a2, b1, p)
        /\ Perform(q, does, b2, p) = Act(Act(q, a1, b2, p), a2, b2, p)
    <3>1. Len(does) = 2 /\ does[1] = a1 /\ does[2] = a2
      BY <1>3
    <3> QED BY <3>1, PerformTwo, Zenon
  <2> QED BY <1>3, <2>1, <2>2, <2>5, <2>6, Zenon
<1>4. CASE does = <<"start_query", "query_string", "request_uri">>
  <2>1. {"start_query", "query_string", "request_uri"} \subseteq Actions
    BY DEF Actions, Names
  <2>2. PICK s : s = Act(q, "start_query", b1, p)
    OBVIOUS
  <2>3. s = Act(q, "start_query", b2, p) /\ Mid(s, p)
    <3>1. "start_query" \in Actions /\ "start_query" # "write_value"
      BY <2>1
    <3>2. Act(q, "start_query", b1, p) = Act(q, "start_query", b2, p)
      BY <3>1, ActSame
    <3>3. Mid(s, p)
      BY <2>2, <3>1, ActOK
    <3> QED BY <2>2, <3>2, <3>3
  <2>4. PICK t : t = Act(s, "query_string", b1, p)
    OBVIOUS
  <2>5. t = Act(s, "query_string", b2, p) /\ Mid(t, p)
    BY <2>1, <2>3, <2>4, ActSame, ActOK
  <2>6. Act(t, "request_uri", b1, p) = Act(t, "request_uri", b2, p)
    BY <2>1, <2>5, ActSame
  <2>7. \A b : Perform(q, does, b, p) =
          Act(Act(Act(q, "start_query", b, p), "query_string", b, p), "request_uri", b, p)
    <3>1. /\ Len(does) = 3 /\ does[1] = "start_query" /\ does[2] = "query_string"
          /\ does[3] = "request_uri"
      BY <1>4
    <3> QED BY <3>1, PerformThree, Zenon
  <2> QED BY <1>4, <2>2, <2>3, <2>4, <2>5, <2>6, <2>7, Zenon
<1> QED
  BY <1>1, <1>2, <1>3, <1>4, DoingsAre

\* What has come behind the header block, as far as the buffer goes.
HasBody(q, b) ==
  NoBody(b, q.body_start) =>
    IF Len(b) > q.body_start
    THEN Body \in DOMAIN q.params /\ q.params[Body] = SubSeq(b, q.body_start + 1, Len(b))
    ELSE Body \notin DOMAIN q.params

\* The parser after i characters of the buffer b.
After(q, b, i) ==
  /\ IsParser(q)
  /\ q.nread <= i /\ (q.cs \notin {Error, Finished} => q.nread = i)
  /\ q.mark < i \/ q.mark = 0
  /\ q.field_start < i \/ q.field_start = 0
  /\ q.query_start < i \/ q.query_start = 0
  /\ q.field_len <= i /\ q.body_start <= i
  /\ q.body_start # 0 <=> q.cs = Finished
  /\ q.cs \in InValue => FieldKnown(q, b, i)
  /\ Late(q.cs) => Names.request_uri \in DOMAIN q.params
  /\ IF q.cs = Finished THEN HasBody(q, b)
     ELSE NoBody(b, i) => Body \notin DOMAIN q.params

LEMMA FreshOK == ASSUME NEW b PROVE After(Fresh, b, 0)
<1>1. IsParams(<<>>)
  BY DEF IsParams
<1>2. Fresh.cs \notin {Error, Finished} \cup InValue /\ ~Late(Fresh.cs)
  BY DEF Fresh, At, Error, Finished, InValue, Late
<1>3. IsParser(Fresh)
  BY <1>1, StartIsState DEF IsParser, Fresh
<1> QED
  BY <1>2, <1>3 DEF After, Fresh, IsParser

Failed(q) == [q EXCEPT !.cs = Error]
Moved(q, to) == [q EXCEPT !.cs = to, !.nread = @ + 1]

\* What one character makes of a parser that is neither finished nor in error.
LEMMA AdvanceIs ==
  ASSUME NEW q, q.cs \in States, q.cs \notin {Error, Finished}, NEW c \in Symbols
  PROVE  \/ \A b : Advance(q, c, b) = Failed(q)
         \/ \E to \in States, does \in Doings :
              /\ EdgeShape(q.cs, to, does) /\ (does = <<"write_field">> => c = ":")
              /\ \A b : Advance(q, c, b) = Moved(Perform(q, does, b, q.nread), to)
<1> DEFINE way == Transition[q.cs][c]
<1>1. ASSUME NEW b
      PROVE  Advance(q, c, b) = [Perform(q, way.does, b, q.nread) EXCEPT
                                   !.cs = way.to, !.nread = IF way.to = Error THEN @ ELSE @ + 1]
  BY DEF Advance, has_error, is_finished
<1>2. CASE way.to = Error /\ way.does = <<>>
  <2>1. ASSUME NEW b PROVE Advance(q, c, b) = Failed(q)
    <3>1. Perform(q, way.does, b, q.nread) = q
      BY <1>2, PerformNone
    <3>2. Advance(q, c, b) = [q EXCEPT !.cs = Error, !.nread = @]
      <4> HIDE DEF way
      <4> QED BY <1>1, <1>2, <3>1
    <3> QED BY <3>2 DEF Failed
  <2> QED BY <2>1
<1>3. CASE /\ EdgeShape(q.cs, way.to, way.does) /\ way.to \in States
           /\ way.does = <<"write_field">> => c = ":"
  <2>1. way.to # Error /\ way.does \in Doings
    BY <1>3 DEF EdgeShape
  <2>2. ASSUME NEW b PROVE Advance(q, c, b) = Moved(Perform(q, way.does, b, q.nread), way.to)
    <3> HIDE DEF way
    <3> QED BY <1>1, <2>1 DEF Moved
  <2> HIDE DEF way
  <2> QED BY <1>3, <2>1, <2>2
<1> QED
  BY <1>2, <1>3, TransitionIs

\* The header block is done at offset p.
LEMMA DoneOK ==
  ASSUME NEW b \in Seq(Symbols), NEW p \in Nat, p < Len(b), NEW q, Mid(q, p), NEW r,
         r = Perform(q, <<"done">>, b, p)
  PROVE  /\ IsParser(r) /\ r.body_start = p + 1
         /\ r.nread = p /\ r.mark = q.mark /\ r.field_start = q.field_start
         /\ r.field_len = q.field_len /\ r.query_start = q.query_start
         /\ DOMAIN q.params \subseteq DOMAIN r.params
         /\ DOMAIN r.params \subseteq DOMAIN q.params \cup {Body}
         /\ \A k \in DOMAIN q.params : r.params[k] = q.params[k]
         /\ Body \notin DOMAIN q.params =>
              IF Len(b) > p + 1
              THEN Body \in DOMAIN r.params /\ r.params[Body] = SubSeq(b, p + 2, Len(b))
              ELSE Body \notin DOMAIN r.params
<1>1. r = header_done(q, b, p)
  <2>1. Act(q, "done", b, p) = header_done(q, b, p)
    BY DEF Act, Names
  <2> QED BY <2>1, PerformOne, Zenon
<1>2. CASE Len(b) > p + 1
  <2> DEFINE value == Text(b, p + 1, Len(b) - p - 1)
  <2>1. r = [q EXCEPT !.params = Put(@, Body, value), !.body_start = p + 1]
    BY <1>1, <1>2 DEF header_done
  <2>2. value \in Seq(Symbols)
    <3>1. p + 1 \in Nat /\ Len(b) - p - 1 \in Nat /\ (p + 1) + (Len(b) - p - 1) <= Len(b)
      BY <1>2
    <3> QED BY <3>1, TextIn, Zenon
  <2>3. value = SubSeq(b, p + 2, Len(b))
    <3>1. (p + 1) + 1 = p + 2 /\ (p + 1) + (Len(b) - p - 1) = Len(b)
      OBVIOUS
    <3> QED BY <3>1, Zenon DEF Text
  <2> HIDE DEF value
  <2>4. PICK v, params : v = value /\ params = Put(q.params, Body, v)
    OBVIOUS
  <2>5. IsParams(q.params) /\ v \in Seq(Symbols)
    BY <2>2, <2>4 DEF Mid, IsParser
  <2>6. /\ IsParams(params) /\ DOMAIN params = DOMAIN q.params \cup {Body}
        /\ Body \notin DOMAIN q.params => params[Body] = v
        /\ \A k \in DOMAIN q.params : params[k] = q.params[k]
    <3>1. PICK m, k0 : m = q.params /\ k0 = Body
      OBVIOUS
    <3>2. /\ IsParams(Put(m, k0, v)) /\ DOMAIN Put(m, k0, v) = DOMAIN m \cup {k0}
          /\ k0 \notin DOMAIN m => Put(m, k0, v)[k0] = v
      BY <2>5, <3>1, PutIs, Zenon
    <3>3. \A k \in DOMAIN m : Put(m, k0, v)[k] = m[k]
      BY DEF Put
    <3> QED BY <2>4, <3>1, <3>2, <3>3, Zenon
  <2>7. r = [q EXCEPT !.params = params, !.body_start = p + 1]
    BY <2>1, <2>4
  <2>8. /\ r.params = params /\ r.body_start = p + 1 /\ r.nread = q.nread /\ r.mark = q.mark
        /\ r.field_start = q.field_start /\ r.field_len = q.field_len
        /\ r.query_start = q.query_start /\ r.cs = q.cs
        /\ r = [cs |-> r.cs, nread |-> r.nread, mark |-> r.mark, field_start |-> r.field_start,
                field_len |-> r.field_len, query_start |-> r.query_start,
                body_start |-> r.body_start, params |-> r.params]
    BY <2>7 DEF Mid, IsParser
  <2>9. IsParser(r)
    BY <2>6, <2>8 DEF Mid, IsParser
  <2> QED BY <1>2, <2>3, <2>4, <2>6, <2>8, <2>9 DEF Mid
<1>3. CASE ~(Len(b) > p + 1)
  <2>1. r = [q EXCEPT !.body_start = p + 1]
    BY <1>1, <1>3 DEF header_done
  <2> QED BY <1>3, <2>1 DEF Mid, IsParser
<1> QED
  BY <1>2, <1>3

LEMMA MovedIs ==
  ASSUME NEW s, IsParser(s), NEW to \in States
  PROVE  LET r == Moved(s, to) IN
         /\ IsParser(r) /\ r.cs = to /\ r.nread = s.nread + 1 /\ r.mark = s.mark
         /\ r.field_start = s.field_start /\ r.field_len = s.field_len
         /\ r.query_start = s.query_start /\ r.body_start = s.body_start /\ r.params = s.params
<1> DEFINE r == Moved(s, to)
<1>1. /\ r.cs = to /\ r.nread = s.nread + 1 /\ r.mark = s.mark
      /\ r.field_start = s.field_start /\ r.field_len = s.field_len
      /\ r.query_start = s.query_start /\ r.body_start = s.body_start /\ r.params = s.params
      /\ r = [cs |-> r.cs, nread |-> r.nread, mark |-> r.mark, field_start |-> r.field_start,
              field_len |-> r.field_len, query_start |-> r.query_start,
              body_start |-> r.body_start, params |-> r.params]
  <2>1. PICK t : t = [s EXCEPT !.cs = to]
    OBVIOUS
  <2>2. /\ t.cs = to /\ t.nread = s.nread /\ t.mark = s.mark
        /\ t.field_start = s.field_start /\ t.field_len = s.field_len
        /\ t.query_start = s.query_start /\ t.body_start = s.body_start /\ t.params = s.params
        /\ t = [cs |-> t.cs, nread |-> t.nread, mark |-> t.mark, field_start |-> t.field_start,
                field_len |-> t.field_len, query_start |-> t.query_start,
                body_start |-> t.body_start, params |-> t.params]
    BY <2>1 DEF IsParser
  <2>3. r = [t EXCEPT !.nread = @ + 1]
    BY <2>1 DEF Moved
  <2> HIDE DEF r
  <2> QED BY <2>2, <2>3
<1>2. IsParser(r)
  BY <1>1 DEF IsParser
<1> QED
  BY <1>1, <1>2

LEMMA FailedIs ==
  ASSUME NEW s, IsParser(s)
  PROVE  LET r == Failed(s) IN
         /\ IsParser(r) /\ r.cs = Error /\ r.nread = s.nread /\ r.mark = s.mark
         /\ r.field_start = s.field_start /\ r.field_len = s.field_len
         /\ r.query_start = s.query_start /\ r.body_start = s.body_start /\ r.params = s.params
<1> DEFINE r == Failed(s)
<1>1. /\ r.cs = Error /\ r.nread = s.nread /\ r.mark = s.mark
      /\ r.field_start = s.field_start /\ r.field_len = s.field_len
      /\ r.query_start = s.query_start /\ r.body_start = s.body_start /\ r.params = s.params
      /\ r = [cs |-> r.cs, nread |-> r.nread, mark |-> r.mark, field_start |-> r.field_start,
              field_len |-> r.field_len, query_start |-> r.query_start,
              body_start |-> r.body_start, params |-> r.params]
  BY DEF IsParser, Failed
<1>2. IsParser(r)
  BY <1>1 DEF IsParser, States
<1> QED
  BY <1>1, <1>2

LEMMA AdvanceOK ==
  ASSUME NEW b \in Seq(Symbols), NEW i \in 0 .. Len(b) - 1, NEW q, After(q, b, i)
  PROVE  After(Advance(q, b[i + 1], b), b, i + 1)
<1> DEFINE r == Advance(q, b[i + 1], b)
<1>1. NoBody(b, i + 1) => NoBody(b, i)
  BY DEF NoBody
<1>2. CASE q.cs \in {Error, Finished}
  <2>1. r = q
    BY <1>2 DEF Advance, has_error, is_finished
  <2>2. q.cs \notin InValue
    BY <1>2 DEF InValue, Error, Finished, At
  <2> QED BY <1>1, <1>2, <2>1, <2>2 DEF After, IsParser
<1>3. CASE q.cs \notin {Error, Finished}
  <2>1. Mid(q, i)
    BY <1>3 DEF After, Mid, IsParser
  <2>2. i \in Nat /\ i < Len(b) /\ b[i + 1] \in Symbols
    OBVIOUS
  <2>3. ASSUME r = Failed(q) PROVE After(r, b, i + 1)
    <3>1. IsParser(r) /\ r.cs = Error
      BY <2>3, FailedIs DEF After
    <3>2. Error \notin InValue /\ ~Late(Error) /\ Error # Finished
      BY DEF InValue, Error, Finished, At, Late
    <3>3. /\ r.nread = q.nread /\ r.mark = q.mark /\ r.field_start = q.field_start
          /\ r.field_len = q.field_len /\ r.query_start = q.query_start
          /\ r.body_start = q.body_start /\ r.params = q.params
      BY <2>3, FailedIs DEF After
    <3> HIDE DEF r
    <3>4. q.body_start = 0 /\ q.nread = i /\ (NoBody(b, i + 1) => Body \notin DOMAIN q.params)
      BY <1>1, <1>3 DEF After
    <3>5. q.mark < i + 1 /\ q.field_start < i + 1 /\ q.query_start < i + 1 /\ q.field_len <= i + 1
      BY <2>1 DEF Mid, IsParser
    <3> QED BY <2>2, <3>1, <3>2, <3>3, <3>4, <3>5 DEF After
  <2>4. ASSUME NEW to \in States, NEW does \in Doings, EdgeShape(q.cs, to, does),
               does = <<"write_field">> => b[i + 1] = ":",
               r = Moved(Perform(q, does, b, q.nread), to)
        PROVE  After(r, b, i + 1)
    <3>1. PICK s : s = Perform(q, does, b, i)
      OBVIOUS
    <3>2. r = Moved(s, to)
      BY <2>1, <2>4, <3>1 DEF Mid
    <3>3. does \in Stores => FieldKnown(q, b, i)
      BY <2>4 DEF EdgeShape, After
    <3> HIDE DEF r
    <3>4. CASE does # <<"done">>
      <4>1. /\ Mid(s, i) /\ Kept(q, s, b, i)
            /\ does = <<"write_field">> => s.field_start + s.field_len = i
            /\ does \in {<<>>, <<"start_value">>} =>
                 s.field_start = q.field_start /\ s.field_len = q.field_len
            /\ does \in NamesUri => Names.request_uri \in DOMAIN s.params
        BY <2>1, <2>2, <3>1, <3>3, <3>4, PerformOK
      <4>2. /\ IsParser(r) /\ r.cs = to /\ r.nread = i + 1 /\ r.mark = s.mark
            /\ r.field_start = s.field_start /\ r.field_len = s.field_len
            /\ r.query_start = s.query_start /\ r.body_start = 0 /\ r.params = s.params
        BY <2>2, <3>2, <4>1, MovedIs DEF Mid
      <4>3. to # Finished /\ to # Error
        BY <2>4, <3>4 DEF EdgeShape
      <4>4. to \in InValue => FieldKnown(r, b, i + 1)
        <5>1. to \in InValue => \/ s.field_start + s.field_len = i /\ b[i + 1] = ":"
                               \/ FieldKnown(s, b, i)
          BY <2>4, <4>1 DEF EdgeShape, After, FieldKnown
        <5>2. s.field_start \in Nat /\ s.field_len \in Nat
          BY <4>1 DEF Mid, IsParser
        <5> QED BY <2>2, <5>1, <5>2, <4>2 DEF FieldKnown
      <4>5. Late(to) => Names.request_uri \in DOMAIN r.params
        BY <2>4, <4>1, <4>2 DEF EdgeShape, After, Kept
      <4>6. NoBody(b, i + 1) => Body \notin DOMAIN r.params
        BY <1>1, <1>3, <4>1, <4>2 DEF After, Kept
      <4>7. /\ r.mark < i + 1 /\ r.field_start < i + 1 /\ r.query_start < i + 1
            /\ r.field_len <= i + 1
        BY <4>1, <4>2 DEF Mid, IsParser
      <4> QED BY <4>2, <4>3, <4>4, <4>5, <4>6, <4>7 DEF After
    <3>5. CASE does = <<"done">>
      <4>1. /\ IsParser(s) /\ s.body_start = i + 1
            /\ s.nread = i /\ s.mark = q.mark /\ s.field_start = q.field_start
            /\ s.field_len = q.field_len /\ s.query_start = q.query_start
            /\ DOMAIN q.params \subseteq DOMAIN s.params
            /\ Body \notin DOMAIN q.params =>
                 IF Len(b) > i + 1
                 THEN Body \in DOMAIN s.params /\ s.params[Body] = SubSeq(b, i + 2, Len(b))
                 ELSE Body \notin DOMAIN s.params
        BY <2>1, <2>2, <3>1, <3>5, DoneOK
      <4>2. /\ IsParser(r) /\ r.cs = to /\ r.nread = i + 1 /\ r.mark = s.mark
            /\ r.field_start = s.field_start /\ r.field_len = s.field_len
            /\ r.query_start = s.query_start /\ r.body_start = i + 1 /\ r.params = s.params
        BY <2>2, <3>2, <4>1, MovedIs
      <4>3. to = Finished /\ <<"done">> \notin NamesUri
        BY <2>4, <3>5 DEF EdgeShape, NamesUri
      <4>4. Finished \notin InValue /\ Late(Finished)
        BY DEF InValue, Finished, At, Late
      <4>5. Names.request_uri \in DOMAIN r.params
        BY <2>4, <3>5, <4>1, <4>2, <4>3, <4>4 DEF EdgeShape, After
      <4>6. HasBody(r, b)
        <5>1. NoBody(b, i + 1) => Body \notin DOMAIN q.params
          BY <1>1, <1>3 DEF After
        <5>2. (i + 1) + 1 = i + 2
          OBVIOUS
        <5> QED BY <4>1, <4>2, <5>1, <5>2 DEF HasBody
      <4>7. /\ r.mark < i + 1 /\ r.field_start < i + 1 /\ r.query_start < i + 1
            /\ r.field_len <= i + 1
        BY <2>1, <4>1, <4>2 DEF Mid, IsParser
      <4> QED BY <2>2, <4>2, <4>3, <4>4, <4>5, <4>6, <4>7 DEF After
    <3> QED BY <3>4, <3>5
  <2>5. \/ r = Failed(q)
        \/ \E to \in States, does \in Doings :
             /\ EdgeShape(q.cs, to, does) /\ (does = <<"write_field">> => b[i + 1] = ":")
             /\ r = Moved(Perform(q, does, b, q.nread), to)
    <3>1. q.cs \in States
      BY DEF After, IsParser
    <3>2. PICK c \in Symbols : c = b[i + 1]
      BY <2>2
    <3>3. r = Advance(q, c, b)
      BY <3>2
    <3> HIDE DEF r
    <3>4. CASE \A d : Advance(q, c, d) = Failed(q)
      BY <3>3, <3>4
    <3>5. CASE \E to \in States, does \in Doings :
                 /\ EdgeShape(q.cs, to, does) /\ (does = <<"write_field">> => c = ":")
                 /\ \A d : Advance(q, c, d) = Moved(Perform(q, does, d, q.nread), to)
      BY <3>2, <3>3, <3>5, Zenon
    <3> QED BY <1>3, <3>1, <3>4, <3>5, AdvanceIs
  <2>6. After(r, b, i + 1)
    <3> HIDE DEF r
    <3> QED BY <2>3, <2>4, <2>5
  <2> QED BY <2>6
<1> QED
  BY <1>2, <1>3

----------------------------------------------------------------------------
(* Pieces.  Two buffers that begin alike leave the parser alike, but for   *)
(* the body that came with the header block.                               *)

Aside == {Body} \cup ServerParams

Alike(q1, q2) ==
  /\ q1.cs = q2.cs /\ q1.nread = q2.nread /\ q1.mark = q2.mark
  /\ q1.field_start = q2.field_start /\ q1.field_len = q2.field_len
  /\ q1.query_start = q2.query_start /\ q1.body_start = q2.body_start
  /\ DOMAIN q1.params \ Aside = DOMAIN q2.params \ Aside
  /\ \A k \in DOMAIN q1.params \ Aside : q1.params[k] = q2.params[k]

LEMMA AlikeKnown ==
  ASSUME NEW q1, NEW q2, IsParser(q1), IsParser(q2), Alike(q1, q2)
  PROVE  Known(q1) = Known(q2)
<1>1. ASSUME NEW q, IsParser(q)
      PROVE  Known(q) = [cs |-> q.cs, nread |-> q.nread, mark |-> q.mark,
                         field_start |-> q.field_start, field_len |-> q.field_len,
                         query_start |-> q.query_start, body_start |-> q.body_start,
                         params |-> [k \in DOMAIN q.params \ Aside |-> q.params[k]]]
  BY <1>1 DEF Known, IsParser, Aside
<1>2. [k \in DOMAIN q1.params \ Aside |-> q1.params[k]] =
      [k \in DOMAIN q2.params \ Aside |-> q2.params[k]]
  BY DEF Alike
<1> QED
  BY <1>1, <1>2 DEF Alike

Same(q1, q2) == IF q1.cs = Finished THEN Alike(q1, q2) ELSE q1 = q2

LEMMA AdvanceSame ==
  ASSUME NEW b1 \in Seq(Symbols), NEW b2 \in Seq(Symbols), NEW i \in Nat,
         i < Len(b1), i < Len(b2), Agree(b1, b2, i + 1), NEW q1, NEW q2,
         After(q1, b1, i), After(q2, b2, i), Same(q1, q2)
  PROVE  Same(Advance(q1, b1[i + 1], b1), Advance(q2, b2[i + 1], b2))
<1>1. CASE q1.cs \in {Error, Finished}
  <2>1. q2.cs = q1.cs
    BY DEF Same, Alike
  <2>2. Advance(q1, b1[i + 1], b1) = q1 /\ Advance(q2, b2[i + 1], b2) = q2
    BY <1>1, <2>1 DEF Advance, has_error, is_finished
  <2> QED BY <2>2
<1>2. CASE q1.cs \notin {Error, Finished}
  <2>1. q1 = q2 /\ q1.cs \in States /\ q1.nread = i /\ Mid(q1, i)
    BY <1>2 DEF Same, After, Mid, IsParser
  <2>2. PICK c \in Symbols : c = b1[i + 1] /\ c = b2[i + 1]
    <3>1. i + 1 \in 1 .. Len(b1) /\ i + 1 \in 1 .. i + 1
      OBVIOUS
    <3> QED BY <3>1, ElementOfSeq DEF Agree
  <2>3. PICK r1, r2 : r1 = Advance(q1, c, b1) /\ r2 = Advance(q1, c, b2)
    OBVIOUS
  <2>4. CASE \A b : Advance(q1, c, b) = Failed(q1)
    <3>1. r1 = r2 /\ r1.cs = Error
      BY <2>1, <2>3, <2>4, FailedIs DEF Mid
    <3> QED BY <2>1, <2>2, <2>3, <3>1 DEF Same, Error, Finished, At
  <2>5. ASSUME NEW to \in States, NEW does \in Doings, EdgeShape(q1.cs, to, does),
               \A b : Advance(q1, c, b) = Moved(Perform(q1, does, b, i), to)
        PROVE  Same(r1, r2)
    <3>1. PICK s1, s2 : s1 = Perform(q1, does, b1, i) /\ s2 = Perform(q1, does, b2, i)
      OBVIOUS
    <3>2. r1 = Moved(s1, to) /\ r2 = Moved(s2, to)
      BY <2>3, <2>5, <3>1
    <3>3. does \in Stores => FieldKnown(q1, b1, i)
      BY <1>2, <2>5 DEF EdgeShape, After
    <3>4. CASE does # <<"done">>
      <4>1. Agree(b1, b2, i)
        BY DEF Agree
      <4>2. s1 = s2 /\ IsParser(s1)
        BY <2>1, <3>1, <3>3, <3>4, <4>1, PerformSame, PerformOK DEF Mid
      <4>3. r1 = r2 /\ r1.cs = to
        BY <3>2, <4>2, MovedIs
      <4>4. to # Finished
        BY <2>5, <3>4 DEF EdgeShape
      <4> QED BY <4>3, <4>4 DEF Same
    <3>5. CASE does = <<"done">>
      <4>1. \A s \in {s1, s2} :
              /\ IsParser(s) /\ s.body_start = i + 1 /\ s.nread = i /\ s.mark = q1.mark
              /\ s.field_start = q1.field_start /\ s.field_len = q1.field_len
              /\ s.query_start = q1.query_start
              /\ DOMAIN q1.params \subseteq DOMAIN s.params
              /\ DOMAIN s.params \subseteq DOMAIN q1.params \cup {Body}
              /\ \A k \in DOMAIN q1.params : s.params[k] = q1.params[k]
        <5>1. s1 = Perform(q1, <<"done">>, b1, i) /\ s2 = Perform(q1, <<"done">>, b2, i)
          BY <3>1, <3>5
        <5> QED BY <2>1, <5>1, DoneOK
      <4>2. Alike(r1, r2)
        <5>1. /\ \A s \in {s1, s2} : IsParser(s)
              /\ \A r \in {r1, r2} : r.cs = to /\ r.nread = i + 1 /\ r.mark = q1.mark
                   /\ r.field_start = q1.field_start /\ r.field_len = q1.field_len
                   /\ r.query_start = q1.query_start /\ r.body_start = i + 1
              /\ r1.params = s1.params /\ r2.params = s2.params
          BY <3>2, <4>1, MovedIs
        <5>2. DOMAIN s1.params \ Aside = DOMAIN q1.params \ Aside
              /\ DOMAIN s2.params \ Aside = DOMAIN q1.params \ Aside
          BY <4>1 DEF Aside
        <5>3. \A k \in DOMAIN q1.params \ Aside : s1.params[k] = s2.params[k]
          BY <4>1
        <5> QED BY <5>1, <5>2, <5>3 DEF Alike
      <4>3. r1.cs = Finished
        <5>1. to = Finished
          BY <2>5, <3>5 DEF EdgeShape
        <5> QED BY <3>2, <4>1, <5>1, MovedIs
      <4> QED BY <4>2, <4>3 DEF Same
    <3> QED BY <3>4, <3>5
  <2>6. Same(r1, r2)
    <3>1. CASE \A b : Advance(q1, c, b) = Failed(q1)
      BY <2>1, <2>2, <2>3, <2>4, <3>1
    <3>2. CASE \E to \in States, does \in Doings :
                 /\ EdgeShape(q1.cs, to, does)
                 /\ \A b : Advance(q1, c, b) = Moved(Perform(q1, does, b, q1.nread), to)
      BY <2>1, <2>5, <3>2
    <3> QED BY <1>2, <2>1, <3>1, <3>2, AdvanceIs
  <2> QED BY <2>1, <2>2, <2>3, <2>6
<1> QED
  BY <1>1, <1>2

LEMMA AdvanceDone ==
  ASSUME NEW b \in Seq(Symbols), NEW i \in 0 .. Len(b) - 1, NEW q, After(q, b, i),
         q.cs # Finished, NEW r, r = Advance(q, b[i + 1], b), r.cs = Finished
  PROVE  r.body_start = i + 1
<1>1. q.cs # Error
  BY DEF Advance, has_error
<1>2. Mid(q, i) /\ q.cs \in States /\ i \in Nat /\ i < Len(b)
  BY <1>1 DEF After, Mid, IsParser
<1>3. PICK c \in Symbols : c = b[i + 1]
  OBVIOUS
<1>4. CASE \A d : Advance(q, c, d) = Failed(q)
  BY <1>2, <1>3, <1>4, FailedIs DEF Mid, Error, Finished, At
<1>5. ASSUME NEW to \in States, NEW does \in Doings, EdgeShape(q.cs, to, does),
             \A d : Advance(q, c, d) = Moved(Perform(q, does, d, i), to)
      PROVE  r.body_start = i + 1
  <2>1. PICK s : s = Perform(q, does, b, i)
    OBVIOUS
  <2>2. r = Moved(s, to)
    BY <1>3, <1>5, <2>1
  <2>3. CASE does # <<"done">>
    <3>1. does \in Stores => FieldKnown(q, b, i)
      BY <1>5 DEF EdgeShape, After
    <3>2. IsParser(s)
      BY <1>2, <2>1, <2>3, <3>1, PerformOK DEF Mid
    <3> QED BY <1>5, <2>2, <2>3, <3>2, MovedIs DEF EdgeShape
  <2>4. CASE does = <<"done">>
    <3>1. s = Perform(q, <<"done">>, b, i)
      BY <2>1, <2>4
    <3>2. IsParser(s) /\ s.body_start = i + 1
      BY <1>2, <3>1, DoneOK
    <3> QED BY <2>2, <3>2, MovedIs
  <2> QED BY <2>3, <2>4
<1>6. CASE \E to \in States, does \in Doings :
             /\ EdgeShape(q.cs, to, does)
             /\ \A d : Advance(q, c, d) = Moved(Perform(q, does, d, q.nread), to)
  BY <1>2, <1>5, <1>6 DEF Mid
<1> QED
  BY <1>1, <1>2, <1>4, <1>6, AdvanceIs

\* The parser, character by character.
Trace(f, b) ==
  /\ f[0] = Fresh
  /\ \A i \in 1 .. Len(b) : f[i] = Advance(f[i - 1], b[i], b)

LEMMA TraceExists ==
  ASSUME NEW b \in Seq(Symbols)
  PROVE  \E f : Trace(f, b) /\ Run(Fresh, b) = f[Len(b)]
<1>1. PICK q : q = Fresh
  OBVIOUS
<1>2. q.nread \in Nat /\ q.nread = 0 /\ Len(b) \in Nat /\ q.nread <= Len(b)
  BY <1>1 DEF Fresh
<1>3. PICK f : /\ f[q.nread] = q
               /\ \A i \in q.nread + 1 .. Len(b) : f[i] = Advance(f[i - 1], b[i], b)
               /\ Run(q, b) = f[Len(b)]
  BY <1>2, RunSteps
<1>4. 0 + 1 = 1
  OBVIOUS
<1> QED
  BY <1>1, <1>2, <1>3, <1>4 DEF Trace

LEMMA TraceOK ==
  ASSUME NEW b \in Seq(Symbols), NEW f, Trace(f, b)
  PROVE  \A i \in 0 .. Len(b) : After(f[i], b, i)
<1> DEFINE S == {n \in Nat : After(f[n], b, n)}
<1>1. 0 \in S
  BY FreshOK DEF Trace
<1>2. ASSUME NEW n \in 0 .. Len(b) - 1, n \in S PROVE n + 1 \in S
  <2>1. f[n + 1] = Advance(f[n], b[n + 1], b) /\ n + 1 \in Nat
    BY DEF Trace
  <2>2. After(Advance(f[n], b[n + 1], b), b, n + 1)
    BY <1>2, AdvanceOK
  <2> QED BY <2>1, <2>2
<1>3. 0 .. Len(b) \subseteq S
  <2> HIDE DEF S
  <2> QED BY <1>1, <1>2, Upward, 0 \in Nat
<1> QED
  BY <1>3

\* A parser that has finished or failed stays as it is.
LEMMA TraceStays ==
  ASSUME NEW b \in Seq(Symbols), NEW f, Trace(f, b), NEW k \in 0 .. Len(b),
         f[k].cs \in {Error, Finished}
  PROVE  \A i \in k .. Len(b) : f[i] = f[k]
<1> DEFINE S == {n \in Nat : f[n] = f[k]}
<1>1. k \in S
  OBVIOUS
<1>2. ASSUME NEW n \in k .. Len(b) - 1, n \in S PROVE n + 1 \in S
  <2>1. f[n + 1] = Advance(f[n], b[n + 1], b) /\ n + 1 \in Nat
    <3>1. n + 1 \in 1 .. Len(b) /\ (n + 1) - 1 = n /\ n + 1 \in Nat
      OBVIOUS
    <3> QED BY <3>1 DEF Trace
  <2>2. Advance(f[n], b[n + 1], b) = f[n]
    BY <1>2 DEF Advance, has_error, is_finished
  <2> QED BY <1>2, <2>1, <2>2
<1>3. k .. Len(b) \subseteq S
  <2>1. k \in Nat /\ Len(b) \in Nat
    OBVIOUS
  <2> HIDE DEF S
  <2> QED BY <1>1, <1>2, <2>1, Upward, Zenon
<1> QED
  BY <1>3

\* A header block that is not done yet ends behind what has been read.
LEMMA TraceDone ==
  ASSUME NEW b \in Seq(Symbols), NEW f, Trace(f, b), NEW k \in 0 .. Len(b), f[k].cs # Finished
  PROVE  \A i \in k .. Len(b) : f[i].cs = Finished => f[i].body_start > k
<1> DEFINE S == {n \in Nat : f[n].cs = Finished => f[n].body_start > k}
<1>1. k \in S
  OBVIOUS
<1>2. ASSUME NEW n \in k .. Len(b) - 1, n \in S PROVE n + 1 \in S
  <2>1. f[n + 1] = Advance(f[n], b[n + 1], b) /\ n + 1 \in Nat /\ n \in 0 .. Len(b) - 1
    <3>1. n + 1 \in 1 .. Len(b) /\ (n + 1) - 1 = n /\ n + 1 \in Nat /\ n \in 0 .. Len(b) - 1
      OBVIOUS
    <3> QED BY <3>1 DEF Trace
  <2>2. CASE f[n].cs = Finished
    <3>1. Advance(f[n], b[n + 1], b) = f[n]
      BY <2>2 DEF Advance, has_error, is_finished
    <3> QED BY <1>2, <2>1, <2>2, <3>1
  <2>3. CASE f[n].cs # Finished
    <3>1. After(f[n], b, n)
      BY <2>1, TraceOK
    <3>2. f[n + 1].cs = Finished => f[n + 1].body_start = n + 1
      BY <2>1, <2>3, <3>1, AdvanceDone
    <3> QED BY <2>1, <3>2
  <2> QED BY <2>2, <2>3
<1>3. k .. Len(b) \subseteq S
  <2>1. k \in Nat /\ Len(b) \in Nat
    OBVIOUS
  <2> HIDE DEF S
  <2> QED BY <1>1, <1>2, <2>1, Upward, Zenon
<1> QED
  BY <1>3

LEMMA TraceSame ==
  ASSUME NEW b1 \in Seq(Symbols), NEW b2 \in Seq(Symbols), Agree(b1, b2, Len(b1)),
         NEW f1, NEW f2, Trace(f1, b1), Trace(f2, b2)
  PROVE  \A i \in 0 .. Len(b1) : Same(f1[i], f2[i])
<1> DEFINE S == {n \in Nat : Same(f1[n], f2[n])}
<1>1. 0 \in S
  BY DEF Trace, Same, Alike
<1>2. ASSUME NEW n \in 0 .. Len(b1) - 1, n \in S PROVE n + 1 \in S
  <2>1. /\ n \in Nat /\ n < Len(b1) /\ n < Len(b2) /\ n + 1 \in Nat
        /\ n \in 0 .. Len(b1) /\ n \in 0 .. Len(b2)
        /\ n + 1 \in 1 .. Len(b1) /\ n + 1 \in 1 .. Len(b2) /\ (n + 1) - 1 = n
        /\ Agree(b1, b2, n + 1)
    BY DEF Agree
  <2>2. After(f1[n], b1, n) /\ After(f2[n], b2, n)
    BY <2>1, TraceOK
  <2>3. Same(Advance(f1[n], b1[n + 1], b1), Advance(f2[n], b2[n + 1], b2))
    BY <1>2, <2>1, <2>2, AdvanceSame
  <2>4. /\ f1[n + 1] = Advance(f1[n], b1[n + 1], b1)
        /\ f2[n + 1] = Advance(f2[n], b2[n + 1], b2)
    BY <2>1 DEF Trace
  <2> QED BY <2>1, <2>3, <2>4
<1>3. 0 .. Len(b1) \subseteq S
  <2>1. 0 \in Nat /\ Len(b1) \in Nat
    OBVIOUS
  <2> HIDE DEF S
  <2> QED BY <1>1, <1>2, <2>1, Upward, Zenon
<1> QED
  BY <1>3

----------------------------------------------------------------------------
(* Calls.                                                                  *)

\* What is true of a parser that has seen the buffer b.
Parsed(r, b) ==
  /\ IsParser(r)
  /\ r.nread <= Len(b) + (IF r.cs = Finished THEN 1 ELSE 0)
  /\ r.mark < Len(b) \/ r.mark = 0
  /\ r.field_start < Len(b) \/ r.field_start = 0
  /\ r.field_len <= Len(b) /\ r.body_start <= Len(b)
  /\ r.body_start # 0 <=> r.cs = Finished
  /\ r.cs = Finished => HasBody(r, b) /\ Names.request_uri \in DOMAIN r.params

LEMMA CountedIs ==
  ASSUME NEW q, IsParser(q)
  PROVE  LET r == Counted(q) IN
         /\ IsParser(r) /\ r.cs = q.cs /\ r.mark = q.mark
         /\ r.nread = q.nread + (IF q.body_start # 0 THEN 1 ELSE 0)
         /\ r.field_start = q.field_start /\ r.field_len = q.field_len
         /\ r.query_start = q.query_start /\ r.body_start = q.body_start /\ r.params = q.params
         /\ q.body_start = 0 => r = q
<1> DEFINE r == Counted(q)
<1>1. CASE q.body_start = 0
  BY <1>1 DEF Counted, IsParser
<1>2. CASE q.body_start # 0
  <2>1. r = [q EXCEPT !.nread = @ + 1]
    BY <1>2 DEF Counted
  <2>2. /\ r.cs = q.cs /\ r.nread = q.nread + 1 /\ r.mark = q.mark
        /\ r.field_start = q.field_start /\ r.field_len = q.field_len
        /\ r.query_start = q.query_start /\ r.body_start = q.body_start /\ r.params = q.params
        /\ r = [cs |-> r.cs, nread |-> r.nread, mark |-> r.mark, field_start |-> r.field_start,
                field_len |-> r.field_len, query_start |-> r.query_start,
                body_start |-> r.body_start, params |-> r.params]
    <3> HIDE DEF r
    <3> QED BY <2>1 DEF IsParser
  <2>3. IsParser(r)
    BY <2>2 DEF IsParser
  <2> QED BY <1>2, <2>2, <2>3
<1> QED
  BY <1>1, <1>2

LEMMA ExecuteOK == ASSUME NEW b \in Seq(Symbols) PROVE Parsed(Execute(Fresh, b), b)
<1>1. PICK f : Trace(f, b) /\ Run(Fresh, b) = f[Len(b)]
  BY TraceExists
<1>2. PICK q : q = f[Len(b)]
  OBVIOUS
<1>3. After(q, b, Len(b))
  BY <1>1, <1>2, TraceOK
<1>4. PICK r : r = Execute(Fresh, b) /\ r = Counted(q)
  BY <1>1, <1>2 DEF Execute
<1>5. /\ IsParser(r) /\ r.cs = q.cs /\ r.mark = q.mark
      /\ r.nread = q.nread + (IF q.body_start # 0 THEN 1 ELSE 0)
      /\ r.field_start = q.field_start /\ r.field_len = q.field_len
      /\ r.query_start = q.query_start /\ r.body_start = q.body_start /\ r.params = q.params
  BY <1>3, <1>4, CountedIs DEF After
<1>6. Late(Finished)
  BY DEF Late, Finished, At
<1>7. r.cs = Finished => HasBody(r, b) /\ Names.request_uri \in DOMAIN r.params
  BY <1>3, <1>5, <1>6 DEF After, HasBody
<1>8. Len(b) \in Nat
  OBVIOUS
<1>9. Parsed(r, b)
  BY <1>3, <1>5, <1>7, <1>8 DEF Parsed, After, IsParser
<1> QED
  BY <1>4, <1>9

\* The next call goes on where the last one stopped, as if it were the first.
LEMMA Goes ==
  ASSUME NEW b1 \in Seq(Symbols), NEW b2 \in Seq(Symbols), Agree(b1, b2, Len(b1)),
         Run(Fresh, b1).cs \notin {Error, Finished}
  PROVE  /\ Execute(Run(Fresh, b1), b2) = Execute(Fresh, b2)
         /\ Execute(Fresh, b2).cs = Finished => Execute(Fresh, b2).body_start > Len(b1)
         /\ Execute(Fresh, b2).cs # Finished => Execute(Fresh, b2) = Run(Fresh, b2)
<1>1. PICK f1 : Trace(f1, b1) /\ Run(Fresh, b1) = f1[Len(b1)]
  BY TraceExists
<1>2. PICK f2 : Trace(f2, b2) /\ Run(Fresh, b2) = f2[Len(b2)]
  BY TraceExists
<1>3. PICK n : n = Len(b1) /\ n \in 0 .. Len(b1) /\ n \in 0 .. Len(b2)
  BY DEF Agree
<1>4. PICK q : q = Run(Fresh, b1) /\ q = f1[n]
  BY <1>1, <1>3
<1>5. q = f2[n]
  BY <1>1, <1>2, <1>3, <1>4, TraceSame DEF Same
<1>6. q.nread = n
  BY <1>1, <1>3, <1>4, TraceOK DEF After
<1>7. Run(q, b2) = f2[Len(b2)]
  <2>1. q.nread \in Nat /\ Len(b2) \in Nat /\ q.nread <= Len(b2)
    BY <1>3, <1>6
  <2>2. f2[q.nread] = q
    BY <1>5, <1>6
  <2>3. \A i \in q.nread + 1 .. Len(b2) : f2[i] = Advance(f2[i - 1], b2[i], b2)
    BY <1>2, <2>1 DEF Trace
  <2> QED BY <2>1, <2>2, <2>3, RunIs
<1>8. PICK s : s = f2[Len(b2)]
  OBVIOUS
<1>9. Execute(q, b2) = Counted(s) /\ Execute(Fresh, b2) = Counted(s)
  BY <1>2, <1>7, <1>8 DEF Execute
<1>10. After(s, b2, Len(b2))
  BY <1>2, <1>8, TraceOK
<1>11. s.cs = Finished => s.body_start > n
  BY <1>2, <1>3, <1>4, <1>5, <1>8, TraceDone
<1>12. /\ Counted(s).cs = s.cs /\ Counted(s).body_start = s.body_start
       /\ s.body_start = 0 => Counted(s) = s
  BY <1>10, CountedIs DEF After
<1>13. s.cs # Finished => s.body_start = 0
  BY <1>10 DEF After
<1> QED
  BY <1>2, <1>3, <1>4, <1>8, <1>9, <1>11, <1>12, <1>13

\* A finished parser has all it will know.
LEMMA Stays ==
  ASSUME NEW b1 \in Seq(Symbols), NEW b2 \in Seq(Symbols), Agree(b1, b2, Len(b1)),
         Execute(Fresh, b1).cs = Finished
  PROVE  Alike(Execute(Fresh, b1), Execute(Fresh, b2))
<1>1. PICK f1 : Trace(f1, b1) /\ Run(Fresh, b1) = f1[Len(b1)]
  BY TraceExists
<1>2. PICK f2 : Trace(f2, b2) /\ Run(Fresh, b2) = f2[Len(b2)]
  BY TraceExists
<1>3. PICK n : n = Len(b1) /\ n \in 0 .. Len(b1) /\ n \in 0 .. Len(b2)
  BY DEF Agree
<1>4. PICK q1, q2 : q1 = f1[n] /\ q2 = f2[n]
  OBVIOUS
<1>5. IsParser(q1) /\ IsParser(q2) /\ Same(q1, q2)
  BY <1>1, <1>2, <1>3, <1>4, TraceOK, TraceSame DEF After
<1>6. Execute(Fresh, b1) = Counted(q1)
  BY <1>1, <1>3, <1>4 DEF Execute
<1>7. q1.cs = Finished
  BY <1>5, <1>6, CountedIs
<1>8. Alike(q1, q2) /\ q2.cs = Finished
  BY <1>5, <1>7 DEF Same, Alike
<1>9. f2[Len(b2)] = q2
  <2>1. Len(b2) \in n .. Len(b2)
    BY <1>3
  <2> QED BY <1>2, <1>3, <1>4, <1>8, <2>1, TraceStays
<1>10. Execute(Fresh, b2) = Counted(q2)
  BY <1>2, <1>9 DEF Execute
<1>11. Alike(Counted(q1), Counted(q2))
  BY <1>5, <1>8, CountedIs DEF Alike
<1> QED
  BY <1>6, <1>10, <1>11

----------------------------------------------------------------------------
(* The handler.                                                            *)

Prefix(n) == SubSeq(text, 1, n)

Types ==
  /\ asked \in Asked
  /\ text \in Seq(Symbols)
  /\ read \in 0 .. Len(text)
  /\ IsParser(parser)
  /\ request \in [made : BOOLEAN, length : Ints, remain : Ints, body : Seq(Symbols)]
  /\ open \in BOOLEAN
  /\ waits \in {"READ", "WRITE", "none"}
  /\ up \in BOOLEAN

Offsets ==
  /\ parser.mark < read \/ parser.mark = 0
  /\ parser.field_start < read \/ parser.field_start = 0
  /\ parser.field_len <= read /\ parser.body_start <= read
  /\ parser.nread <= read + (IF parser.cs = Finished THEN 1 ELSE 0)

\* A handler that waits for more of the header block has the parser one call
\* over all of the text would have left, and has not failed.
Going ==
  up /\ waits = "READ" /\ parser.cs # Finished =>
    parser = Run(Fresh, Prefix(read)) /\ parser.cs # Error

Told == up => Alike(parser, Execute(Fresh, Prefix(read)))

Made ==
  /\ request.made => parser.cs = Finished
  /\ up /\ parser.cs = Finished => request.made
  /\ waits = "WRITE" <=> request.made /\ isComplete(request)

\* What has come behind the header block is kept, and counted.
Plainly == request.made /\ NoBody(text, parser.body_start)
Rest == Plainly => request.body = SubSeq(text, parser.body_start + 1, read)
Left ==
  Plainly /\ request.length - ChunkSize \in Ints =>
    request.remain = request.length - Len(request.body)

RInv == Types /\ Offsets /\ Going /\ Told /\ Made /\ Rest /\ Left

LEMMA PrefixIs ==
  ASSUME text \in Seq(Symbols), NEW n \in 0 .. Len(text)
  PROVE  /\ Prefix(n) \in Seq(Symbols) /\ Len(Prefix(n)) = n
         /\ \A j \in 1 .. n : Prefix(n)[j] = text[j]
BY DEF Prefix

LEMMA PrefixesAgree ==
  ASSUME text \in Seq(Symbols), NEW n \in 0 .. Len(text), NEW m \in 0 .. n
  PROVE  Agree(Prefix(m), Prefix(n), Len(Prefix(m)))
<1>1. m \in 0 .. Len(text)
  OBVIOUS
<1>2. Len(Prefix(m)) = m /\ \A j \in 1 .. m : Prefix(m)[j] = text[j]
  BY <1>1, PrefixIs
<1>3. Len(Prefix(n)) = n /\ \A j \in 1 .. n : Prefix(n)[j] = text[j]
  BY PrefixIs
<1> QED
  BY <1>2, <1>3 DEF Agree

LEMMA PieceOfPrefix ==
  ASSUME NEW s \in Seq(Symbols), NEW n \in 0 .. Len(s), NEW m \in 1 .. n + 1
  PROVE  SubSeq(SubSeq(s, 1, n), m, n) = SubSeq(s, m, n)
<1> DEFINE b == SubSeq(s, 1, n)
<1>1. b \in Seq(Symbols) /\ Len(b) = n /\ \A j \in 1 .. n : b[j] = s[j]
  OBVIOUS
<1> HIDE DEF b
<1>2. SubSeq(b, m, n) \in Seq(Symbols) /\ SubSeq(s, m, n) \in Seq(Symbols)
  BY <1>1
<1>3. Len(SubSeq(b, m, n)) = n + 1 - m /\ Len(SubSeq(s, m, n)) = n + 1 - m
  BY <1>1
<1>4. \A i \in 1 .. n + 1 - m : SubSeq(b, m, n)[i] = SubSeq(s, m, n)[i]
  BY <1>1
<1>5. SubSeq(b, m, n) = SubSeq(s, m, n)
  BY <1>2, <1>3, <1>4, SeqEqual
<1> QED
  BY <1>5 DEF b

LEMMA PiecesJoin ==
  ASSUME NEW s \in Seq(Symbols), NEW n \in 0 .. Len(s), NEW r \in 0 .. n, NEW m \in 1 .. r + 1
  PROVE  SubSeq(s, m, r) \o SubSeq(s, r + 1, n) = SubSeq(s, m, n)
<1> DEFINE a == SubSeq(s, m, r)
           b == SubSeq(s, r + 1, n)
           c == SubSeq(s, m, n)
<1>1. a \in Seq(Symbols) /\ Len(a) = r + 1 - m /\ \A i \in 1 .. r + 1 - m : a[i] = s[m + i - 1]
  OBVIOUS
<1>2. b \in Seq(Symbols) /\ Len(b) = n - r /\ \A i \in 1 .. n - r : b[i] = s[r + i]
  OBVIOUS
<1>3. c \in Seq(Symbols) /\ Len(c) = n + 1 - m /\ \A i \in 1 .. n + 1 - m : c[i] = s[m + i - 1]
  OBVIOUS
<1> HIDE DEF a, b, c
<1>4. PICK d : d = a \o b
  OBVIOUS
<1>5. /\ d \in Seq(Symbols) /\ Len(d) = Len(a) + Len(b)
      /\ \A i \in 1 .. Len(a) + Len(b) : d[i] = IF i <= Len(a) THEN a[i] ELSE b[i - Len(a)]
  BY <1>1, <1>2, <1>4, ConcatProperties
<1>6. Len(d) = Len(c) /\ Len(a) \in Nat /\ Len(b) \in Nat /\ Len(c) \in Nat
  BY <1>1, <1>2, <1>3, <1>5
<1>7. ASSUME NEW i \in 1 .. Len(d) PROVE d[i] = c[i]
  <2>1. CASE i <= Len(a)
    <3>1. i \in 1 .. r + 1 - m /\ i \in 1 .. n + 1 - m /\ d[i] = a[i]
      BY <1>1, <1>2, <1>5, <2>1
    <3> QED BY <1>1, <1>3, <3>1
  <2>2. CASE ~(i <= Len(a))
    <3>1. i - Len(a) \in 1 .. n - r /\ d[i] = b[i - Len(a)] /\ i \in 1 .. n + 1 - m
      BY <1>1, <1>2, <1>5, <2>2
    <3>2. r + (i - Len(a)) = m + i - 1
      BY <1>1
    <3>3. b[i - Len(a)] = s[r + (i - Len(a))] /\ c[i] = s[m + i - 1]
      BY <1>2, <1>3, <3>1
    <3> QED BY <3>1, <3>2, <3>3
  <2> QED BY <2>1, <2>2
<1>8. d = c
  BY <1>3, <1>5, <1>6, <1>7, SeqEqual
<1> QED
  BY <1>4, <1>8 DEF a, b, c

LEMMA WrappedIs ==
  ASSUME NEW n \in Int
  PROVE  Wrapped(n) \in Ints /\ (n \in Ints => Wrapped(n) = n)
<1>1. PICK m \in Nat \ {0} : m = IntMax + 1
  BY ReaderAssumption
<1>2. 2 * m \in Nat \ {0} /\ n + m \in Int
  OBVIOUS
<1>3. (n + m) % (2 * m) \in 0 .. 2 * m - 1
  BY <1>2
<1>4. n \in -m .. m - 1 => (n + m) % (2 * m) = n + m
  BY <1>2
<1>5. Ints = -m .. m - 1
  BY <1>1, ReaderAssumption DEF Ints
<1>6. Wrapped(n) = ((n + m) % (2 * m)) - m
  BY <1>1, ReaderAssumption DEF Wrapped
<1> QED
  BY <1>3, <1>4, <1>5, <1>6

LEMMA setParamIs ==
  ASSUME NEW params, IsParams(params), NEW key, NEW value \in Seq(Symbols)
  PROVE  /\ IsParams(setParam(params, key, value))
         /\ DOMAIN setParam(params, key, value) = DOMAIN params \cup {key}
         /\ \A k \in DOMAIN params : k # key => setParam(params, key, value)[k] = params[k]
BY DEF setParam, IsParams

LEMMA WithServerParamsIs ==
  ASSUME NEW params, IsParams(params), Names.request_uri \in DOMAIN params,
         NEW address \in Seq(Symbols)
  PROVE  LET all == WithServerParams(params, address) IN
         /\ IsParams(all) /\ DOMAIN all = DOMAIN params \cup ServerParams
         /\ \A k \in DOMAIN params \ Aside : all[k] = params[k]
<1>1. PICK uri, remote : uri = Names.request_uri /\ remote = setParam(params, RemoteAddr, address)
  OBVIOUS
<1>2. /\ IsParams(remote) /\ DOMAIN remote = DOMAIN params \cup {RemoteAddr}
      /\ \A k \in DOMAIN params : k # RemoteAddr => remote[k] = params[k]
  BY <1>1, setParamIs
<1>3. PICK script : script = setParam(remote, ScriptName, Slash)
  OBVIOUS
<1>4. Slash \in Seq(Symbols)
  <2>1. "/" \in Symbols
    BY DEF Symbols
  <2> QED BY <2>1 DEF Slash
<1>5. /\ IsParams(script) /\ DOMAIN script = DOMAIN remote \cup {ScriptName}
      /\ \A k \in DOMAIN remote : k # ScriptName => script[k] = remote[k]
  BY <1>2, <1>3, <1>4, setParamIs
<1>6. script[uri] \in Seq(Symbols)
  BY <1>1, <1>2, <1>5 DEF IsParams
<1>7. PICK value \in Seq(Symbols) : value = script[uri]
  BY <1>6
<1>8. PICK all : all = setParam(script, PathInfo, value)
  OBVIOUS
<1>9. /\ IsParams(all) /\ DOMAIN all = DOMAIN script \cup {PathInfo}
      /\ \A k \in DOMAIN script : k # PathInfo => all[k] = script[k]
  BY <1>5, <1>8, setParamIs
<1>10. WithServerParams(params, address) = all
  BY <1>1, <1>3, <1>7, <1>8 DEF WithServerParams
<1>11. DOMAIN all = DOMAIN params \cup ServerParams
  BY <1>2, <1>5, <1>9 DEF ServerParams
<1>12. ASSUME NEW k \in DOMAIN params \ Aside PROVE all[k] = params[k]
  <2>1. k \notin {RemoteAddr, ScriptName, PathInfo}
    BY DEF Aside, ServerParams
  <2> QED BY <1>2, <1>5, <1>9, <2>1
<1> QED
  BY <1>9, <1>10, <1>11, <1>12

LEMMA InitInv == Init => RInv
<1> SUFFICES ASSUME Init PROVE RInv
  OBVIOUS
<1>1. text \in Seq(Symbols)
  <2>1. HeaderBlock(asked) \in Seq(Symbols) /\ asked.body \in Seq(Symbols)
    BY AskedAssumption DEF Init
  <2>2. PICK h, b : h = HeaderBlock(asked) /\ b = asked.body
    OBVIOUS
  <2>3. Render(asked) = h \o b
    BY <2>2 DEF Render
  <2>4. h \o b \in Seq(Symbols) /\ Len(h \o b) = Len(h) + Len(b)
    BY <2>1, <2>2, ConcatProperties
  <2>5. CASE text = Render(asked)
    BY <2>3, <2>4, <2>5
  <2>6. CASE \E i \in DOMAIN HeaderBlock(asked), c \in Damages : text = ReplaceAt(Render(asked), i, c)
    <3>1. PICK i \in DOMAIN h, c \in Damages : text = ReplaceAt(Render(asked), i, c)
      BY <2>2, <2>6
    <3>2. c \in Symbols /\ i \in 1 .. Len(h \o b)
      BY <2>1, <2>2, <2>4, ReaderAssumption
    <3>3. PICK s \in Seq(Symbols) : s = h \o b
      BY <2>4
    <3>4. [s EXCEPT ![i] = c] \in Seq(Symbols)
      BY <3>2, <3>3, ExceptSeq
    <3> QED BY <2>3, <3>1, <3>3, <3>4 DEF ReplaceAt
  <2> QED BY <2>5, <2>6 DEF Init
<1>2. 0 \in Nat /\ Len(text) \in Nat /\ 0 \in 0 .. Len(text)
  BY <1>1
<1>3. PICK b : b = Prefix(0) /\ b \in Seq(Symbols) /\ Len(b) = 0
  BY <1>1, <1>2, PrefixIs
<1>4. PICK q : q = Fresh
  OBVIOUS
<1>5. After(q, b, 0)
  BY <1>4, FreshOK
<1>6. IsParser(q) /\ q.nread = 0 /\ q.mark = 0 /\ q.field_start = 0 /\ q.field_len = 0
      /\ q.body_start = 0 /\ q.cs # Finished /\ q.cs # Error
  BY <1>4, <1>5 DEF After, Fresh, Error, At
<1>7. Run(q, b) = q
  <2>1. PICK f : Trace(f, b) /\ Run(Fresh, b) = f[Len(b)]
    BY <1>3, TraceExists
  <2> QED BY <1>3, <1>4, <2>1 DEF Trace
<1>8. Execute(q, b) = q
  BY <1>6, <1>7 DEF Execute, Counted
<1>9. request = [made |-> FALSE, length |-> 0, remain |-> 0, body |-> <<>>] /\ 0 \in Ints
  BY ReaderAssumption DEF Init, Ints
<1>10. parser = q /\ read = 0 /\ open = TRUE /\ waits = "READ" /\ up = TRUE /\ asked \in Asked
  BY <1>4 DEF Init
<1>11. Types
  BY <1>1, <1>2, <1>6, <1>9, <1>10 DEF Types
<1>12. Offsets
  BY <1>6, <1>10 DEF Offsets
<1>13. Going
  BY <1>3, <1>4, <1>6, <1>7, <1>10 DEF Going
<1>14. Told
  BY <1>3, <1>4, <1>8, <1>10 DEF Told, Alike
<1>15. Made /\ ~request.made
  BY <1>6, <1>9, <1>10 DEF Made
<1> QED
  BY <1>11, <1>12, <1>13, <1>14, <1>15 DEF RInv, Rest, Left, Plainly

LEMMA ReadsNothingInv == RInv /\ ReadsNothing => RInv'
<1> SUFFICES ASSUME RInv, ReadsNothing PROVE RInv'
  OBVIOUS
<1>1. /\ UNCHANGED <<asked, text, read, parser, request, up>> /\ open' = FALSE
      /\ waits' = IF request.made /\ isComplete(request) THEN "WRITE" ELSE "none"
  BY DEF ReadsNothing, Rearm
<1>2. Types' /\ Offsets' /\ Told' /\ Rest' /\ Left'
  BY <1>1 DEF RInv, Types, Offsets, Told, Rest, Left, Plainly, Prefix
<1>3. Going' /\ Made'
  BY <1>1 DEF RInv, Going, Made
<1> QED
  BY <1>2, <1>3 DEF RInv

\* What every call of handleRead that receives n bytes has in common.
Receives(n) ==
  /\ up /\ waits = "READ" /\ n \in 1 .. ChunkSize /\ read + n <= Len(text)
  /\ read' = read + n /\ UNCHANGED <<asked, text>>
  /\ Rearm

LEMMA ReceivesIs ==
  ASSUME RInv, NEW n, Receives(n)
  PROVE  /\ n \in Nat \ {0} /\ n <= ChunkSize /\ read \in Nat /\ read + n \in 0 .. Len(text)
         /\ read \in 0 .. read + n
         /\ Prefix(read) \in Seq(Symbols) /\ Len(Prefix(read)) = read
         /\ Prefix(read + n) \in Seq(Symbols) /\ Len(Prefix(read + n)) = read + n
         /\ \A j \in 1 .. read + n : Prefix(read + n)[j] = text[j]
         /\ Agree(Prefix(read), Prefix(read + n), Len(Prefix(read)))
         /\ Prefix(read)' = Prefix(read + n)
<1>1. /\ n \in Nat \ {0} /\ n <= ChunkSize /\ read \in Nat /\ read + n \in 0 .. Len(text)
      /\ read \in 0 .. read + n /\ read \in 0 .. Len(text) /\ text \in Seq(Symbols)
  BY ReaderAssumption DEF Receives, RInv, Types
<1>2. Prefix(read)' = Prefix(read + n)
  BY DEF Receives, Prefix
<1> QED
  BY <1>1, <1>2, PrefixIs, PrefixesAgree

\* More of the body.
LEMMA ReadBodyInv ==
  ASSUME RInv, NEW n, Receives(n), ReadBody(n)
  PROVE  RInv'
<1>1. /\ n \in Nat \ {0} /\ n <= ChunkSize /\ read \in Nat /\ read + n \in 0 .. Len(text)
      /\ Prefix(read) \in Seq(Symbols) /\ Prefix(read + n) \in Seq(Symbols)
      /\ Agree(Prefix(read), Prefix(read + n), Len(Prefix(read)))
      /\ Prefix(read)' = Prefix(read + n)
  BY ReceivesIs
<1>2. /\ parser.cs = Finished /\ UNCHANGED <<asked, text, parser, open, up>>
      /\ read' = read + n /\ up
      /\ request' = MoreBody(request, Piece(n))
  BY DEF ReadBody, Receives, is_finished
<1>3. /\ request.made /\ request.length \in Ints /\ request.remain \in Ints
      /\ request.body \in Seq(Symbols) /\ ~isComplete(request)
  BY <1>2 DEF RInv, Types, Made, Receives
<1>4. PICK piece : piece = Piece(n)
  OBVIOUS
<1>5. piece \in Seq(Symbols) /\ Len(piece) = n
  BY <1>1, <1>4 DEF Piece, RInv, Types
<1>6. PICK body : body = request.body \o piece
  OBVIOUS
<1>7. body \in Seq(Symbols) /\ Len(body) = Len(request.body) + n /\ Len(request.body) \in Nat
  BY <1>3, <1>5, <1>6, ConcatProperties, LenProperties
<1>8. request.remain - n \in Ints
  BY <1>1, <1>3, ReaderAssumption DEF Ints, isComplete
<1>9. Wrapped(request.remain - n) = request.remain - n
  <2>1. request.remain - n \in Int
    BY <1>1, <1>3 DEF Ints
  <2> QED BY <1>8, <2>1, WrappedIs
<1>10. /\ request'.made /\ request'.length = request.length
       /\ request'.remain = request.remain - n /\ request'.body = body
       /\ request' \in [made : BOOLEAN, length : Ints, remain : Ints, body : Seq(Symbols)]
  <2>1. request' = [request EXCEPT !.body = body, !.remain = request.remain - n]
    BY <1>2, <1>4, <1>5, <1>6, <1>9 DEF MoreBody
  <2>2. request \in [made : BOOLEAN, length : Ints, remain : Ints, body : Seq(Symbols)]
    BY DEF RInv, Types
  <2> QED BY <1>3, <1>7, <1>8, <2>1, <2>2
<1>11. /\ waits' \in {"READ", "WRITE", "none"}
       /\ waits' = "WRITE" <=> isComplete(request')
  BY <1>10 DEF Receives, Rearm
<1>12. Types'
  BY <1>1, <1>2, <1>10, <1>11 DEF RInv, Types
<1>13. Offsets'
  BY <1>1, <1>2 DEF RInv, Offsets, Types, IsParser
<1>14. Told'
  <2>1. PICK e1, e2 : e1 = Execute(Fresh, Prefix(read)) /\ e2 = Execute(Fresh, Prefix(read + n))
    OBVIOUS
  <2>2. Alike(parser, e1)
    BY <1>2, <2>1 DEF RInv, Told
  <2>3. e1.cs = Finished
    BY <1>2, <2>2 DEF Alike
  <2>4. Alike(e1, e2)
    BY <1>1, <2>1, <2>3, Stays
  <2>5. Alike(parser, e2)
    BY <2>2, <2>4 DEF Alike
  <2>6. Execute(Fresh, Prefix(read)') = e2
    BY <1>1, <2>1
  <2>7. Alike(parser', Execute(Fresh, Prefix(read)'))
    BY <1>2, <2>5, <2>6
  <2> QED BY <2>7 DEF Told
<1>15. Going' /\ Made'
  BY <1>2, <1>10, <1>11 DEF Going, Made
<1>16. Rest'
  <2>1. parser.body_start + 1 \in 1 .. read + 1
    BY <1>1 DEF RInv, Types, IsParser, Offsets
  <2>2. text \in Seq(Symbols) /\ read \in 0 .. read + n
    BY <1>1 DEF RInv, Types
  <2>3. SubSeq(text, parser.body_start + 1, read) \o SubSeq(text, read + 1, read + n) =
        SubSeq(text, parser.body_start + 1, read + n)
    BY <1>1, <2>1, <2>2, PiecesJoin
  <2> QED BY <1>2, <1>3, <1>4, <1>6, <1>10, <2>3 DEF RInv, Rest, Plainly, Piece
<1>17. Left'
  <2>1. Plainly' => Plainly
    BY <1>2, <1>3 DEF Plainly
  <2>2. request.length \in Int /\ request.remain \in Int
    BY <1>3 DEF Ints
  <2>3. Plainly' /\ request.length - ChunkSize \in Ints =>
          request.remain = request.length - Len(request.body)
    BY <2>1 DEF RInv, Left
  <2>4. /\ request'.length = request.length /\ request'.remain = request.remain - n
        /\ Len(request'.body) = Len(request.body) + n
    BY <1>7, <1>10
  <2>5. Plainly' /\ request'.length - ChunkSize \in Ints =>
          request'.remain = request'.length - Len(request'.body)
    <3> HIDE DEF Plainly
    <3> QED BY <1>1, <1>7, <2>2, <2>3, <2>4
  <2> QED BY <2>5 DEF Left
<1> QED
  BY <1>12, <1>13, <1>14, <1>15, <1>16, <1>17 DEF RInv

\* More of the header block, perhaps the last of it.
LEMMA ReadHeaderInv ==
  ASSUME RInv, NEW n, Receives(n), ReadHeader(n)
  PROVE  RInv'
<1>1. /\ n \in Nat \ {0} /\ n <= ChunkSize /\ read \in Nat /\ read + n \in 0 .. Len(text)
      /\ read \in 0 .. read + n
      /\ Prefix(read) \in Seq(Symbols) /\ Len(Prefix(read)) = read
      /\ Prefix(read + n) \in Seq(Symbols) /\ Len(Prefix(read + n)) = read + n
      /\ \A j \in 1 .. read + n : Prefix(read + n)[j] = text[j]
      /\ Agree(Prefix(read), Prefix(read + n), Len(Prefix(read)))
      /\ Prefix(read)' = Prefix(read + n)
  BY ReceivesIs
<1>2. /\ parser.cs # Finished /\ UNCHANGED <<asked, text>> /\ read' = read + n /\ up
      /\ waits = "READ" /\ text \in Seq(Symbols)
      /\ request \in [made : BOOLEAN, length : Ints, remain : Ints, body : Seq(Symbols)]
      /\ ~request.made /\ open \in BOOLEAN /\ asked \in Asked
  BY DEF ReadHeader, Receives, is_finished, RInv, Types, Made
<1>3. parser = Run(Fresh, Prefix(read)) /\ parser.cs # Error
  BY <1>2 DEF RInv, Going
<1>4. PICK b1, b2 : b1 = Prefix(read) /\ b2 = Prefix(read + n)
  OBVIOUS
<1>5. PICK e : e = Execute(Fresh, b2)
  OBVIOUS
<1>6. /\ Execute(parser, b2) = e
      /\ e.cs = Finished => e.body_start > read
      /\ e.cs # Finished => e = Run(Fresh, b2)
  BY <1>1, <1>2, <1>3, <1>4, <1>5, Goes
<1>7. Parsed(e, b2)
  BY <1>1, <1>4, <1>5, ExecuteOK
<1>8. Execute(parser, SubSeq(text, 1, read + n)) = e
  BY <1>4, <1>6 DEF Prefix
<1>9. Execute(Fresh, Prefix(read)') = e /\ Run(Fresh, Prefix(read)') = Run(Fresh, b2)
  BY <1>1, <1>4, <1>5
<1>10. Rearm
  BY DEF Receives
\* Where the parser is all that has changed.
<1>11. ASSUME parser' = e, UNCHANGED request, open' \in BOOLEAN, up' \in BOOLEAN,
              up' => e.cs # Finished, open' => e.cs # Error
       PROVE  RInv'
  <2>1. waits' = IF open' THEN "READ" ELSE "none"
    BY <1>2, <1>10, <1>11 DEF Rearm
  <2>2. Types' /\ Offsets'
    <3>1. Types'
      BY <1>1, <1>2, <1>7, <1>11, <2>1 DEF Types, Parsed
    <3>2. Offsets'
      BY <1>1, <1>2, <1>4, <1>7, <1>11 DEF Offsets, Parsed
    <3> QED BY <3>1, <3>2
  <2>3. Going'
    BY <1>6, <1>9, <1>11, <2>1 DEF Going
  <2>4. Told'
    BY <1>9, <1>11 DEF Told, Alike
  <2>5. Made' /\ Rest' /\ Left'
    BY <1>2, <1>11, <2>1 DEF Made, Rest, Left, Plainly
  <2> QED BY <2>2, <2>3, <2>4, <2>5 DEF RInv
<1>12. CASE TooLong(n) /\ up' = FALSE /\ parser' = e /\ UNCHANGED <<request, open>>
  <2>1. waits' \in {"READ", "none"} /\ ~request'.made /\ open' = open
    BY <1>2, <1>10, <1>12 DEF Rearm
  <2>2. Types'
    BY <1>1, <1>2, <1>7, <1>12, <2>1 DEF Types, Parsed
  <2>3. Offsets'
    BY <1>1, <1>2, <1>4, <1>7, <1>12 DEF Offsets, Parsed
  <2>4. Going' /\ Told' /\ Made' /\ Rest' /\ Left'
    BY <1>12, <2>1 DEF Going, Told, Made, Rest, Left, Plainly
  <2> QED BY <2>2, <2>3, <2>4 DEF RInv
<1>13. CASE e.cs = Finished /\ Build(e, n)
  <2>1. CASE BadLength(e.params)
    <3>1. up' = FALSE /\ parser' = e /\ UNCHANGED <<request, open>>
      BY <1>13, <2>1 DEF Build
    <3>2. waits' \in {"READ", "none"} /\ ~request'.made /\ open' = open
      BY <1>2, <1>10, <3>1 DEF Rearm
    <3>3. Types'
      BY <1>1, <1>2, <1>7, <3>1, <3>2 DEF Types, Parsed
    <3>4. Offsets'
      BY <1>1, <1>2, <1>4, <1>7, <3>1 DEF Offsets, Parsed
    <3>5. Going' /\ Told' /\ Made' /\ Rest' /\ Left'
      BY <3>1, <3>2 DEF Going, Told, Made, Rest, Left, Plainly
    <3> QED BY <3>3, <3>4, <3>5 DEF RInv
  <2>2. CASE ~BadLength(e.params)
    <3>1. PICK address \in {<<"2">>, <<"?">>} :
            parser' = [e EXCEPT !.params = WithServerParams(@, address)]
      BY <1>13, <2>2 DEF Build
    <3>2. /\ request' = NewRequest(e.params) /\ UNCHANGED up
          /\ open' = (Names.request_path \in DOMAIN e.params /\ ~TooLong(n))
      BY <1>13, <2>2 DEF Build
    <3>3. PICK params : params = WithServerParams(e.params, address)
      OBVIOUS
    <3>4. /\ IsParams(params) /\ DOMAIN params = DOMAIN e.params \cup ServerParams
          /\ \A k \in DOMAIN e.params \ Aside : params[k] = e.params[k]
      <4>1. address \in Seq(Symbols)
        <5>1. "2" \in Symbols /\ "?" \in Symbols
          BY DEF Symbols, Digits
        <5> QED BY <5>1
      <4>2. IsParams(e.params) /\ Names.request_uri \in DOMAIN e.params
        BY <1>7, <1>13 DEF Parsed, IsParser
      <4> QED BY <3>3, <4>1, <4>2, WithServerParamsIs
    <3>5. /\ IsParser(parser') /\ parser'.cs = Finished /\ parser'.nread = e.nread
          /\ parser'.mark = e.mark /\ parser'.field_start = e.field_start
          /\ parser'.field_len = e.field_len /\ parser'.query_start = e.query_start
          /\ parser'.body_start = e.body_start /\ parser'.params = params
      <4>1. PICK r : r = parser'
        OBVIOUS
      <4>2. r = [e EXCEPT !.params = params]
        BY <3>1, <3>3, <4>1
      <4>3. IsParser(e)
        BY <1>7 DEF Parsed
      <4>4. /\ r.cs = e.cs /\ r.nread = e.nread /\ r.mark = e.mark
            /\ r.field_start = e.field_start /\ r.field_len = e.field_len
            /\ r.query_start = e.query_start /\ r.body_start = e.body_start
            /\ r.params = params
            /\ r = [cs |-> r.cs, nread |-> r.nread, mark |-> r.mark,
                    field_start |-> r.field_start, field_len |-> r.field_len,
                    query_start |-> r.query_start, body_start |-> r.body_start,
                    params |-> r.params]
        BY <4>2, <4>3 DEF IsParser
      <4>5. IsParser(r)
        BY <3>4, <4>3, <4>4 DEF IsParser
      <4> QED BY <1>13, <4>1, <4>4, <4>5
    <3>6. Alike(parser', e)
      <4>1. DOMAIN params \ Aside = DOMAIN e.params \ Aside
        BY <3>4 DEF Aside
      <4> QED BY <1>13, <3>4, <3>5, <4>1 DEF Alike
    <3> DEFINE length == IF ContentLength \in DOMAIN e.params
                         THEN Number(e.params[ContentLength]) ELSE 0
    <3>7. PICK body : body = IF Body \in DOMAIN e.params THEN e.params[Body] ELSE <<>>
      OBVIOUS
    <3>8. length \in Ints /\ length \in Int
      BY <2>2, ReaderAssumption DEF BadLength, IsInt, Ints
    <3>9. body \in Seq(Symbols)
      BY <1>7, <3>7 DEF Parsed, IsParser, IsParams
    <3>10. /\ request'.made /\ request'.length = length /\ request'.body = body
           /\ request'.remain = Wrapped(length - Len(body))
           /\ request' \in [made : BOOLEAN, length : Ints, remain : Ints, body : Seq(Symbols)]
      <4>1. request' = [made |-> TRUE, length |-> length, remain |-> Wrapped(length - Len(body)),
                        body |-> body]
        BY <3>2, <3>7 DEF NewRequest
      <4>2. length - Len(body) \in Int
        BY <3>8, <3>9
      <4>3. Wrapped(length - Len(body)) \in Ints
        BY <4>2, WrappedIs
      <4> HIDE DEF length
      <4> QED BY <3>8, <3>9, <4>1, <4>3
    <3>11. /\ waits' \in {"READ", "WRITE", "none"}
           /\ waits' = "WRITE" <=> isComplete(request')
      BY <1>10, <3>10 DEF Rearm
    <3>12. Types'
      BY <1>1, <1>2, <3>2, <3>5, <3>10, <3>11 DEF Types
    <3>13. Offsets'
      BY <1>1, <1>2, <1>4, <1>7, <1>13, <3>5 DEF Offsets, Parsed
    <3>14. Going' /\ Told' /\ Made'
      BY <1>9, <3>2, <3>5, <3>6, <3>10, <3>11 DEF Going, Told, Made
    <3>15. Plainly' => body = SubSeq(text, e.body_start + 1, read + n)
      <4>1. e.body_start \in Nat /\ e.body_start <= read + n
        BY <1>1, <1>4, <1>7 DEF Parsed, IsParser
      <4>2. Plainly' => NoBody(b2, e.body_start)
        <5>1. \A j \in 1 .. e.body_start - 1 : b2[j] = text[j] /\ b2[j + 1] = text[j + 1]
          <6>1. \A j \in 1 .. e.body_start - 1 : j \in 1 .. read + n /\ j + 1 \in 1 .. read + n
            BY <1>1, <4>1
          <6> QED BY <1>1, <1>4, <6>1
        <5>2. Plainly' => \A j \in 1 .. e.body_start - 1 : text[j] = "Body" => text[j + 1] # ":"
          BY <1>2, <3>5 DEF Plainly, NoBody
        <5> QED BY <5>1, <5>2 DEF NoBody
      <4>3. CASE read + n > e.body_start
        <5>1. Plainly' => body = SubSeq(b2, e.body_start + 1, read + n)
          BY <1>1, <1>4, <1>7, <1>13, <3>7, <4>2, <4>3 DEF Parsed, HasBody
        <5>2. e.body_start + 1 \in 1 .. (read + n) + 1
          BY <1>1, <4>1
        <5>3. SubSeq(b2, e.body_start + 1, read + n) = SubSeq(text, e.body_start + 1, read + n)
          BY <1>1, <1>2, <1>4, <5>2, PieceOfPrefix DEF Prefix
        <5> QED BY <5>1, <5>3
      <4>4. CASE ~(read + n > e.body_start)
        <5>1. Plainly' => body = <<>>
          BY <1>1, <1>4, <1>7, <1>13, <3>7, <4>2, <4>4 DEF Parsed, HasBody
        <5>2. SubSeq(text, e.body_start + 1, read + n) = <<>>
          BY <1>1, <4>1, <4>4, SubSeqEmpty
        <5> QED BY <5>1, <5>2
      <4> QED BY <4>3, <4>4
    <3>16. Rest'
      BY <1>2, <3>5, <3>10, <3>15 DEF Rest
    <3>17. Left'
      <4>1. Plainly' => Len(body) < n
        <5>1. e.body_start \in Nat /\ e.body_start <= read + n /\ e.body_start > read
          BY <1>1, <1>4, <1>6, <1>7, <1>13 DEF Parsed, IsParser
        <5>2. Len(SubSeq(text, e.body_start + 1, read + n)) = read + n - e.body_start
          BY <1>1, <1>2, <5>1
        <5> QED BY <1>1, <3>15, <5>1, <5>2
      <4>2. Plainly' /\ length - ChunkSize \in Ints => length - Len(body) \in Ints
        <5>1. Len(body) \in Nat
          BY <3>9
        <5> HIDE DEF length
        <5> QED BY <1>1, <3>8, <4>1, <5>1, ReaderAssumption DEF Ints
      <4>3. length - Len(body) \in Int
        BY <3>8, <3>9
      <4>4. Plainly' /\ length - ChunkSize \in Ints =>
              Wrapped(length - Len(body)) = length - Len(body)
        BY <4>2, <4>3, WrappedIs
      <4> HIDE DEF length
      <4> QED BY <3>10, <4>4 DEF Left
    <3> QED BY <3>12, <3>13, <3>14, <3>16, <3>17 DEF RInv
  <2> QED BY <2>1, <2>2
<1>14. CASE /\ e.cs # Finished /\ parser' = e /\ open' = (~has_error(e) /\ ~TooLong(n))
            /\ UNCHANGED <<request, up>>
  BY <1>2, <1>11, <1>14 DEF has_error
<1>15. \/ TooLong(n) /\ up' = FALSE /\ parser' = e /\ UNCHANGED <<request, open>>
       \/ e.cs = Finished /\ Build(e, n)
       \/ /\ e.cs # Finished /\ parser' = e /\ open' = (~has_error(e) /\ ~TooLong(n))
          /\ UNCHANGED <<request, up>>
  BY <1>8 DEF ReadHeader, is_finished
<1> QED
  BY <1>12, <1>13, <1>14, <1>15

LEMMA NextInv == RInv /\ [Next]_vars => RInv'
<1> SUFFICES ASSUME RInv, [Next]_vars PROVE RInv'
  OBVIOUS
<1>1. CASE handleRead
  <2>1. PICK n \in 1 .. ChunkSize : Receives(n) /\ (ReadBody(n) \/ ReadHeader(n))
    BY <1>1 DEF handleRead, Receives
  <2> QED BY <2>1, ReadBodyInv, ReadHeaderInv
<1>2. CASE ReadsNothing
  BY <1>2, ReadsNothingInv
<1>3. CASE UNCHANGED vars
  BY <1>3 DEF vars, RInv, Types, Offsets, Going, Told, Made, Rest, Left, Plainly, Prefix
<1> QED
  BY <1>1, <1>2, <1>3 DEF Next

LEMMA Invariant == Spec => []RInv
BY InitInv, NextInv, PTL DEF Spec

\* The handler's state stays of its types: no request has a length or a rest
\* that is no int, and every parameter is text.
THEOREM TypeCorrect == Spec => []TypeOK
<1>1. RInv => TypeOK
  BY DEF RInv, Types, TypeOK, IsParser, IsParams
<1> QED
  BY <1>1, Invariant, PTL

\* The offsets parser.c asserts to lie inside the buffer do, after every call,
\* whatever text arrives in whatever pieces.
THEOREM OffsetsSafe == Spec => []OffsetsInside
<1>1. RInv => OffsetsInside
  <2> SUFFICES ASSUME RInv, read > 0 PROVE OffsetsInside
    BY DEF OffsetsInside
  <2> QED BY DEF RInv, Offsets, OffsetsInside, is_finished, Types
<1> QED
  BY <1>1, Invariant, PTL

\* The header block is understood the same way whatever pieces it arrives in:
\* after every call of handleRead the parser stands where one call over all of
\* the text would have left it.
THEOREM PiecesAgree == Spec => []PiecesDoNotMatter
<1>1. RInv => PiecesDoNotMatter
  <2> SUFFICES ASSUME RInv, up PROVE Known(parser) = Known(Execute(Fresh, Prefix(read)))
    BY DEF PiecesDoNotMatter, Prefix
  <2>1. PICK e : e = Execute(Fresh, Prefix(read))
    OBVIOUS
  <2>2. IsParser(e)
    BY <2>1, PrefixIs, ExecuteOK DEF Parsed, RInv, Types
  <2>3. IsParser(parser) /\ Alike(parser, e)
    BY <2>1 DEF RInv, Types, Told
  <2> QED BY <2>1, <2>2, <2>3, AlikeKnown
<1> QED
  BY <1>1, Invariant, PTL

\* The body of a request is what came behind its header block, no byte lost and
\* none twice, and the handler waits for WRITE just when its length is reached.
THEOREM BodyComplete == Spec => []BodyIsTheRest
<1>1. RInv => BodyIsTheRest
  <2> SUFFICES ASSUME RInv, request.made, NoBody(text, parser.body_start),
                      request.length - ChunkSize \in Ints
               PROVE  /\ request.body = SubSeq(text, parser.body_start + 1, read)
                      /\ waits = "WRITE" <=> Len(request.body) >= request.length
    BY DEF BodyIsTheRest, NoBody
  <2>1. request.body = SubSeq(text, parser.body_start + 1, read)
    BY DEF RInv, Rest, Plainly
  <2>2. request.remain = request.length - Len(request.body)
    BY DEF RInv, Left, Plainly
  <2>3. request.length \in Int /\ Len(request.body) \in Nat
    BY DEF RInv, Types, Ints
  <2>4. waits = "WRITE" <=> request.remain <= 0
    BY DEF RInv, Made, isComplete
  <2>5. request.remain <= 0 <=> Len(request.body) >= request.length
    BY <2>2, <2>3
  <2> QED BY <2>1, <2>4, <2>5
<1> QED
  BY <1>1, Invariant, PTL
============================================================================
