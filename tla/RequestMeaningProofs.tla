----------------------- MODULE RequestMeaningProofs -----------------------
(***************************************************************************)
(* What a request says: the parser, the grammar and the handler together.  *)
(*                                                                         *)
(* The argument.  The places a part of a request stands in are reached in  *)
(* the state that part begins in, and left in the state the next begins    *)
(* in, with the parameters it gives; a part is read by induction over its  *)
(* characters, the fields by induction over their number.  So one call     *)
(* over the header block ends with what the request means, and             *)
(* RequestReaderProofs says that any calls over any pieces end like it.    *)
(* The last part follows the handler through the calls: what it has read   *)
(* of a request, and what it still waits for.                              *)
(***************************************************************************)
EXTENDS RequestReaderProofs

----------------------------------------------------------------------------
(* What the parser makes of a grammatical header block.                    *)

\* An edge is taken where it can be.
LEMMA EdgeTaken ==
  ASSUME NEW s, NEW on, NEW to, NEW does, Edge(s, on, to, does) \in Edges, NEW c \in Symbols, c \in on
  PROVE  /\ s \in States
         /\ Transition[s][c].to = to /\ Transition[s][c].does = does
<1> DEFINE e == Edge(s, on, to, does)
           ways == {d \in Edges : d.from = s /\ c \in d.on}
           way == CHOOSE d \in ways : TRUE
<1>1. e.from = s /\ e.on = on /\ e.to = to /\ e.does = does
  BY DEF Edge
<1> HIDE DEF e
<1>2. s \in States
  BY <1>1 DEF States, e
<1>3. Transition[s][c] = IF ways = {} THEN [to |-> Error, does |-> <<>>]
                         ELSE [to |-> way.to, does |-> way.does]
  BY <1>2 DEF Transition
<1>4. e \in ways
  BY <1>1 DEF e
<1>5. way \in ways
  BY <1>4
<1>6. way = e
  <2> HIDE DEF way
  <2>1. way \in Edges /\ way.from = e.from /\ c \in way.on \cap e.on /\ e \in Edges
    BY <1>1, <1>5, <1>4
  <2> QED BY <2>1, Deterministic, Zenon
<1> HIDE DEF way
<1> QED BY <1>1, <1>2, <1>3, <1>4, <1>6

\* What the parser has been told: its parameters, as pairs.
Said(params) == {<<k, params[k]>> : k \in DOMAIN params}

\* The first value of a key counts.
Told1(M, key, value) == IF \E m \in M : m[1] = key THEN M ELSE M \cup {<<key, value>>}

LEMMA PutSaid ==
  ASSUME NEW params, IsParams(params), NEW key, NEW value
  PROVE  Said(Put(params, key, value)) = Told1(Said(params), key, value)
<1>1. CASE key \in DOMAIN params
  <2>1. Put(params, key, value) = params
    <3>1. DOMAIN params \cup {key} = DOMAIN params
      BY <1>1
    <3>2. Put(params, key, value) = [k \in DOMAIN params |-> params[k]]
      BY <3>1 DEF Put
    <3> QED BY <3>2 DEF IsParams
  <2>2. <<key, params[key]>> \in Said(params) /\ <<key, params[key]>>[1] = key
    BY <1>1 DEF Said
  <2> QED BY <2>1, <2>2 DEF Told1
<1>2. CASE key \notin DOMAIN params
  <2>1. \A m \in Said(params) : m[1] # key
    BY <1>2 DEF Said
  <2>2. PICK r : r = Put(params, key, value)
    OBVIOUS
  <2>3. DOMAIN r = DOMAIN params \cup {key} /\ r[key] = value /\ \A k \in DOMAIN params : r[k] = params[k]
    BY <1>2, <2>2 DEF Put
  <2>4. Said(r) = Said(params) \cup {<<key, value>>}
    BY <2>3 DEF Said
  <2> QED BY <2>1, <2>2, <2>4 DEF Told1
<1> QED BY <1>1, <1>2

\* What one action makes of the offsets and of what has been said.
Does(q, r, a, b, p) ==
  /\ r.mark = IF a \in {"mark", "start_value"} THEN p ELSE q.mark
  /\ r.field_start = IF a = "start_field" THEN p ELSE q.field_start
  /\ r.field_len = IF a = "write_field" THEN p - q.field_start ELSE q.field_len
  /\ r.query_start = IF a = "start_query" THEN p ELSE q.query_start
  /\ Said(r.params) =
       IF a = "write_value"
       THEN Told1(Said(q.params), Text(b, q.field_start, q.field_len), Text(b, q.mark, p - q.mark))
       ELSE IF a = "query_string"
       THEN Told1(Said(q.params), Names.query_string, Text(b, q.query_start, p - q.query_start))
       ELSE IF a \in DOMAIN Names
       THEN Told1(Said(q.params), Names[a], Text(b, q.mark, p - q.mark))
       ELSE Said(q.params)

LEMMA StoreDoes ==
  ASSUME NEW p, NEW q, Mid(q, p), NEW key, NEW value
  PROVE  /\ Store(q, key, value).mark = q.mark /\ Store(q, key, value).field_start = q.field_start
         /\ Store(q, key, value).field_len = q.field_len
         /\ Store(q, key, value).query_start = q.query_start
         /\ Said(Store(q, key, value).params) = Told1(Said(q.params), key, value)
<1>1. IsParams(q.params)
  BY DEF Mid, IsParser
<1>2. Store(q, key, value).params = Put(q.params, key, value)
  BY DEF Mid, IsParser, Store
<1>3. Said(Store(q, key, value).params) = Told1(Said(q.params), key, value)
  BY <1>1, <1>2, PutSaid
<1> QED BY <1>3 DEF Mid, IsParser, Store

LEMMA ActDoes ==
  ASSUME NEW b, NEW p, NEW q, Mid(q, p), NEW a \in Actions
  PROVE  Does(q, Act(q, a, b, p), a, b, p)
<1>1. CASE a \in {"mark", "start_value", "start_field", "start_query", "write_field"}
  BY <1>1 DEF Act, Names, Does, Mid, IsParser
<1>2. CASE a = "write_value"
  <2>1. Act(q, a, b, p) = Store(q, Text(b, q.field_start, q.field_len), Text(b, q.mark, p - q.mark))
    BY <1>2 DEF Act, Names, Store
  <2> QED BY <1>2, <2>1, StoreDoes DEF Does
<1>3. CASE a = "query_string"
  <2>1. Act(q, a, b, p) = Store(q, Names.query_string, Text(b, q.query_start, p - q.query_start))
    BY <1>3 DEF Act, Names, Store
  <2> QED BY <1>3, <2>1, StoreDoes DEF Does
<1>4. CASE a \in DOMAIN Names \ {"query_string"}
  <2>1. Act(q, a, b, p) = Store(q, Names[a], Text(b, q.mark, p - q.mark))
    BY <1>4 DEF Act, Names, Store
  <2>2. a \notin {"mark", "start_value", "start_field", "start_query", "write_field", "write_value"}
    BY <1>4 DEF Names
  <2> QED BY <1>4, <2>1, <2>2, StoreDoes DEF Does
<1> QED BY <1>1, <1>2, <1>3, <1>4 DEF Actions

\* One step of the parser, along an edge.
Takes(q, r, b, i, to, does) ==
  /\ Mid(q, i) /\ After(q, b, i) /\ i \in Nat /\ i < Len(b)
  /\ to \in States /\ EdgeShape(q.cs, to, does)
  /\ r = Moved(Perform(q, does, b, i), to)

LEMMA Taken ==
  ASSUME NEW b \in Seq(Symbols), NEW f, Trace(f, b), NEW i \in 0 .. Len(b) - 1,
         NEW on, NEW to, NEW does, Edge(f[i].cs, on, to, does) \in Edges, b[i + 1] \in on
  PROVE  Takes(f[i], f[i + 1], b, i, to, does)
<1>1. PICK q : q = f[i]
  OBVIOUS
<1>2. PICK c \in Symbols : c = b[i + 1]
  OBVIOUS
<1>3. PICK e : e = Edge(q.cs, on, to, does) /\ e \in Edges
  BY <1>1
<1>4. EdgeShape(q.cs, to, does)
  BY <1>3, EdgesOK, EdgeIs
<1>5. /\ Transition[q.cs][c].to = to /\ Transition[q.cs][c].does = does
  BY <1>1, <1>2, EdgeTaken
<1>6. q.cs \notin {Error, Finished} /\ to # Error /\ to \in States
  BY <1>4, GoalsAreStates DEF EdgeShape
<1>7. After(q, b, i)
  BY <1>1, TraceOK
<1>8. Mid(q, i)
  BY <1>6, <1>7 DEF After, Mid, IsParser
<1>9. f[i + 1] = Advance(q, c, b)
  BY <1>1, <1>2 DEF Trace
<1>10. Advance(q, c, b) = [Perform(q, does, b, i) EXCEPT !.cs = to, !.nread = @ + 1]
  BY <1>5, <1>6, <1>8 DEF Advance, has_error, is_finished, Mid
<1>11. f[i + 1] = Moved(Perform(q, does, b, i), to)
  BY <1>9, <1>10 DEF Moved
<1> QED BY <1>1, <1>4, <1>6, <1>7, <1>8, <1>11 DEF Takes

\* What is left of a parser that has moved on.
Leaves(s, r) ==
  /\ r.mark = s.mark /\ r.field_start = s.field_start /\ r.field_len = s.field_len
  /\ r.query_start = s.query_start /\ r.params = s.params

LEMMA TakesLeaves ==
  ASSUME NEW b \in Seq(Symbols), NEW i, NEW q, NEW r, NEW to, NEW does,
         Takes(q, r, b, i, to, does), does # <<"done">>
  PROVE  r.cs = to /\ Leaves(Perform(q, does, b, i), r)
<1>1. PICK s : s = Perform(q, does, b, i)
  OBVIOUS
<1>2. does \in Stores => FieldKnown(q, b, i)
  BY DEF Takes, EdgeShape, After
<1>3. does \in Doings
  BY DEF Takes, EdgeShape
<1>4. Mid(s, i)
  BY <1>1, <1>2, <1>3, PerformOK DEF Takes
<1>5. IsParser(s) /\ r = Moved(s, to) /\ to \in States
  BY <1>1, <1>4 DEF Mid, Takes
<1>6. r.cs = to /\ Leaves(s, r)
  BY <1>5, MovedIs DEF Leaves
<1> QED BY <1>1, <1>6, Zenon

LEMMA DoesLeaves ==
  ASSUME NEW b, NEW i, NEW q, NEW s, NEW r, NEW a, Does(q, s, a, b, i), Leaves(s, r)
  PROVE  Does(q, r, a, b, i)
BY DEF Does, Leaves

\* An edge does nothing, ...
LEMMA StepIdle ==
  ASSUME NEW b \in Seq(Symbols), NEW f, Trace(f, b), NEW i \in 0 .. Len(b) - 1,
         NEW on, NEW to, Edge(f[i].cs, on, to, <<>>) \in Edges, b[i + 1] \in on
  PROVE  f[i + 1].cs = to /\ Leaves(f[i], f[i + 1])
<1>1. PICK does : does = <<>>
  OBVIOUS
<1>2. Perform(f[i], does, b, i) = f[i]
  BY <1>1, PerformNone
<1>3. does # <<"done">>
  BY <1>1
<1>4. Edge(f[i].cs, on, to, does) \in Edges
  BY <1>1
<1>5. Takes(f[i], f[i + 1], b, i, to, does)
  BY <1>4, Taken
<1>6. f[i + 1].cs = to /\ Leaves(Perform(f[i], does, b, i), f[i + 1])
  BY <1>3, <1>5, TakesLeaves
<1> QED BY <1>2, <1>6, Zenon

\* ... one thing, ...
LEMMA StepOne ==
  ASSUME NEW b \in Seq(Symbols), NEW f, Trace(f, b), NEW i \in 0 .. Len(b) - 1,
         NEW on, NEW to, NEW a \in Actions, Edge(f[i].cs, on, to, <<a>>) \in Edges, b[i + 1] \in on
  PROVE  f[i + 1].cs = to /\ Does(f[i], f[i + 1], a, b, i)
<1>1. PICK does : does = <<a>>
  OBVIOUS
<1>2. Perform(f[i], does, b, i) = Act(f[i], a, b, i)
  BY <1>1, PerformOne, Zenon
<1>3. does # <<"done">>
  BY <1>1 DEF Actions, Names
<1>4. Edge(f[i].cs, on, to, does) \in Edges
  BY <1>1
<1>5. Takes(f[i], f[i + 1], b, i, to, does)
  BY <1>4, Taken
<1>6. f[i + 1].cs = to /\ Leaves(Act(f[i], a, b, i), f[i + 1])
  BY <1>2, <1>3, <1>5, TakesLeaves
<1>7. Does(f[i], Act(f[i], a, b, i), a, b, i)
  <2>1. Mid(f[i], i)
    BY <1>5 DEF Takes
  <2> QED BY <2>1, ActDoes
<1> QED BY <1>6, <1>7, DoesLeaves, Zenon

\* ... two, ...
LEMMA StepTwo ==
  ASSUME NEW b \in Seq(Symbols), NEW f, Trace(f, b), NEW i \in 0 .. Len(b) - 1,
         NEW on, NEW to, NEW a1 \in Actions, NEW a2 \in Actions, a1 # "write_value",
         Edge(f[i].cs, on, to, <<a1, a2>>) \in Edges, b[i + 1] \in on
  PROVE  f[i + 1].cs = to /\ \E s : Does(f[i], s, a1, b, i) /\ Does(s, f[i + 1], a2, b, i)
<1>1. PICK does : does = <<a1, a2>>
  OBVIOUS
<1>2. PICK s1, s2 : s1 = Act(f[i], a1, b, i) /\ s2 = Act(s1, a2, b, i)
  OBVIOUS
<1>3. Perform(f[i], does, b, i) = s2 /\ does # <<"done">>
  <2>1. Len(does) = 2 /\ does[1] = a1 /\ does[2] = a2 /\ Len(<<"done">>) = 1
    BY <1>1
  <2> QED BY <1>2, <2>1, PerformTwo
<1>4. Edge(f[i].cs, on, to, does) \in Edges
  BY <1>1
<1>5. Takes(f[i], f[i + 1], b, i, to, does)
  BY <1>4, Taken
<1>6. f[i + 1].cs = to /\ Leaves(s2, f[i + 1])
  BY <1>3, <1>5, TakesLeaves
<1>7. Mid(f[i], i) /\ i \in Nat /\ i < Len(b)
  BY <1>5 DEF Takes
<1>8. Does(f[i], s1, a1, b, i)
  BY <1>2, <1>7, ActDoes
<1>9. Mid(s1, i)
  BY <1>2, <1>7, ActOK
<1>10. Does(s1, s2, a2, b, i)
  BY <1>2, <1>9, ActDoes
<1> QED BY <1>6, <1>8, <1>10, DoesLeaves, Zenon

\* ... or three.
LEMMA StepThree ==
  ASSUME NEW b \in Seq(Symbols), NEW f, Trace(f, b), NEW i \in 0 .. Len(b) - 1,
         NEW on, NEW to, NEW does, does = <<"start_query", "query_string", "request_uri">>,
         Edge(f[i].cs, on, to, does) \in Edges, b[i + 1] \in on
  PROVE  /\ f[i + 1].cs = to
         /\ \E s, t : /\ Does(f[i], s, "start_query", b, i) /\ Does(s, t, "query_string", b, i)
                      /\ Does(t, f[i + 1], "request_uri", b, i)
<1>1. PICK a1 \in Actions \ {"write_value"}, a2 \in Actions \ {"write_value"}, a3 \in Actions :
        a1 = "start_query" /\ a2 = "query_string" /\ a3 = "request_uri"
  BY DEF Actions, Names
<1>2. PICK s1, s2, s3 : s1 = Act(f[i], a1, b, i) /\ s2 = Act(s1, a2, b, i) /\ s3 = Act(s2, a3, b, i)
  OBVIOUS
<1>3. Perform(f[i], does, b, i) = s3 /\ does # <<"done">>
  <2>1. Len(does) = 3 /\ does[1] = a1 /\ does[2] = a2 /\ does[3] = a3 /\ Len(<<"done">>) = 1
    BY <1>1
  <2> QED BY <1>2, <2>1, PerformThree
<1>5. Takes(f[i], f[i + 1], b, i, to, does)
  BY Taken
<1>6. f[i + 1].cs = to /\ Leaves(s3, f[i + 1])
  BY <1>3, <1>5, TakesLeaves
<1>7. Mid(f[i], i) /\ i \in Nat /\ i < Len(b)
  BY <1>5 DEF Takes
<1>8. Does(f[i], s1, a1, b, i)
  BY <1>2, <1>7, ActDoes
<1>9. Mid(s1, i)
  BY <1>2, <1>7, ActOK
<1>10. Mid(s2, i)
  BY <1>2, <1>7, <1>9, ActOK
<1>11. Does(s1, s2, a2, b, i) /\ Does(s2, s3, a3, b, i)
  BY <1>2, <1>9, <1>10, ActDoes
<1> QED BY <1>1, <1>6, <1>8, <1>11, DoesLeaves, Zenon

LEMMA LeavesOn == ASSUME NEW q, NEW s, NEW r, Leaves(q, s), Leaves(s, r) PROVE Leaves(q, r)
BY DEF Leaves

\* The parser stays in a state while it sees the characters of an edge that
\* leads back to it.
LEMMA Loops ==
  ASSUME NEW b \in Seq(Symbols), NEW f, Trace(f, b), NEW i \in Nat, NEW k \in i .. Len(b),
         NEW s, f[i].cs = s, NEW on, Edge(s, on, s, <<>>) \in Edges,
         \A j \in i + 1 .. k : b[j] \in on
  PROVE  f[k].cs = s /\ Leaves(f[i], f[k])
<1> DEFINE S == {n \in Nat : f[n].cs = s /\ Leaves(f[i], f[n])}
<1>2. i \in S
  BY DEF Leaves
<1>3. ASSUME NEW n \in i .. k - 1, n \in S PROVE n + 1 \in S
  <2>1. n \in 0 .. Len(b) - 1 /\ n + 1 \in i + 1 .. k /\ n + 1 \in Nat
    BY <1>3
  <2>2. f[n].cs = s /\ Leaves(f[i], f[n]) /\ b[n + 1] \in on
    BY <1>3, <2>1
  <2>3. Edge(f[n].cs, on, s, <<>>) \in Edges
    BY <2>2
  <2>4. f[n + 1].cs = s /\ Leaves(f[n], f[n + 1])
    <3> HIDE DEF S
    <3> QED BY <2>1, <2>2, <2>3, StepIdle
  <2> QED BY <2>1, <2>2, <2>4, LeavesOn
<1>4. k \in S
  <2> HIDE DEF S
  <2>1. k \in Nat /\ i <= k
    OBVIOUS
  <2>2. i .. k \subseteq S
    BY <1>2, <1>3, <2>1, Upward, Zenon
  <2> QED BY <2>1, <2>2
<1> QED BY <1>4

\* Characters i + 1 to k of b are text with escapes.
Spelt(b, i, k, chars) ==
  \A j \in i + 1 .. k :
    IF b[j] = "%" THEN j + 2 <= k /\ b[j + 1] \in HexDigits /\ b[j + 2] \in HexDigits
    ELSE b[j] \in chars

\* The hexadecimal digits due behind the n-th.
Due(b, i, n) ==
  IF n > i /\ b[n] = "%" THEN 2 ELSE IF n - 1 > i /\ b[n - 1] = "%" THEN 1 ELSE 0

LEMMA EscapesLead ==
  ASSUME NEW part \in Parts
  PROVE  /\ Edge(At(part), {"%"}, <<part, 2>>, <<>>) \in Edges
         /\ Edge(<<part, 2>>, HexDigits, <<part, 1>>, <<>>) \in Edges
         /\ Edge(<<part, 1>>, HexDigits, At(part), <<>>) \in Edges
<1>1. Edge(At(part), {"%"}, <<part, 2>>, <<>>) \in Edges
  BY DEF Edges, EscapeEdges, Parts
<1>2. ASSUME NEW n \in {1, 2} PROVE Edge(<<part, n>>, HexDigits, <<part, n - 1>>, <<>>) \in Edges
  BY DEF Edges, EscapeEdges, Parts
<1>3. 2 - 1 = 1 /\ 1 - 1 = 0 /\ 1 \in {1, 2} /\ 2 \in {1, 2}
  OBVIOUS
<1> QED BY <1>1, <1>2, <1>3 DEF At

LEMMA Spells ==
  ASSUME NEW b \in Seq(Symbols), NEW f, Trace(f, b), NEW i \in Nat, NEW k \in i .. Len(b),
         NEW part \in Parts, NEW chars, Edge(At(part), chars, At(part), <<>>) \in Edges,
         Spelt(b, i, k, chars), NEW m \in i .. k, f[m].cs = <<part, Due(b, i, m)>>
  PROVE  f[k].cs = At(part) /\ Leaves(f[m], f[k])
<1> DEFINE S == {n \in Nat : f[n].cs = <<part, Due(b, i, n)>> /\ Leaves(f[m], f[n])}
<1>0. "%" \notin HexDigits
  BY DEF HexDigits, Digits
<1>1. /\ Edge(<<part, 0>>, {"%"}, <<part, 2>>, <<>>) \in Edges
      /\ Edge(<<part, 2>>, HexDigits, <<part, 1>>, <<>>) \in Edges
      /\ Edge(<<part, 1>>, HexDigits, <<part, 0>>, <<>>) \in Edges
      /\ Edge(<<part, 0>>, chars, <<part, 0>>, <<>>) \in Edges
  BY EscapesLead, Zenon DEF At
<1>2. m \in S
  BY DEF Leaves
<1>3. ASSUME NEW n \in m .. k - 1, n \in S PROVE n + 1 \in S
  <2>1. n \in 0 .. Len(b) - 1 /\ n + 1 \in i + 1 .. k /\ n + 1 \in Nat /\ n \in Nat /\ n >= i
        /\ (n + 1) - 1 = n /\ n + 1 > i
    BY <1>3
  <2>2. f[n].cs = <<part, Due(b, i, n)>> /\ Leaves(f[m], f[n])
    BY <1>3
  <2>3. ASSUME NEW on, NEW d, Edge(<<part, Due(b, i, n)>>, on, <<part, d>>, <<>>) \in Edges,
               b[n + 1] \in on, d = Due(b, i, n + 1)
        PROVE  n + 1 \in S
    <3>1. PICK to : to = <<part, d>>
      OBVIOUS
    <3>2. Edge(f[n].cs, on, to, <<>>) \in Edges
      BY <2>2, <2>3, <3>1, Zenon
    <3>3. f[n + 1].cs = to /\ Leaves(f[n], f[n + 1])
      BY <2>1, <2>3, <3>2, StepIdle
    <3>4. Leaves(f[m], f[n + 1])
      BY <2>2, <3>3, LeavesOn
    <3> QED BY <2>1, <2>3, <3>1, <3>3, <3>4
  <2>4. CASE n > i /\ b[n] = "%"
    <3>1. b[n + 1] \in HexDigits
      BY <2>1, <2>4 DEF Spelt
    <3>2. Due(b, i, n) = 2 /\ Due(b, i, n + 1) = 1
      BY <1>0, <2>1, <2>4, <3>1 DEF Due
    <3> QED BY <1>1, <2>3, <3>1, <3>2
  <2>5. CASE ~(n > i /\ b[n] = "%") /\ n - 1 > i /\ b[n - 1] = "%"
    <3>1. b[n + 1] \in HexDigits
      <4>1. n - 1 \in i + 1 .. k /\ (n - 1) + 2 = n + 1
        BY <2>1, <2>5
      <4> QED BY <2>5, <4>1 DEF Spelt
    <3>2. Due(b, i, n) = 1 /\ Due(b, i, n + 1) = 0
      BY <1>0, <2>1, <2>5, <3>1 DEF Due
    <3> QED BY <1>1, <2>3, <3>1, <3>2
  <2>6. CASE ~(n > i /\ b[n] = "%") /\ ~(n - 1 > i /\ b[n - 1] = "%")
    <3>1. Due(b, i, n) = 0
      BY <2>6 DEF Due
    <3>2. CASE b[n + 1] = "%"
      <4>1. Due(b, i, n + 1) = 2
        BY <2>1, <3>2 DEF Due
      <4> QED BY <1>1, <2>3, <3>1, <3>2, <4>1
    <3>3. CASE b[n + 1] # "%"
      <4>1. Due(b, i, n + 1) = 0
        BY <2>1, <2>6, <3>3 DEF Due
      <4>2. b[n + 1] \in chars
        BY <2>1, <3>3 DEF Spelt
      <4> QED BY <1>1, <2>3, <3>1, <4>1, <4>2
    <3> QED BY <3>2, <3>3
  <2> QED BY <2>4, <2>5, <2>6
<1>4. k \in S
  <2> HIDE DEF S
  <2>1. k \in Nat /\ m \in Nat /\ m <= k
    OBVIOUS
  <2>2. m .. k \subseteq S
    BY <1>2, <1>3, <2>1, Upward, Zenon
  <2> QED BY <2>1, <2>2
<1>5. Due(b, i, k) = 0
  <2>1. k > i => k \in i + 1 .. k
    OBVIOUS
  <2>2. k - 1 > i => k - 1 \in i + 1 .. k /\ ~((k - 1) + 2 <= k)
    OBVIOUS
  <2>3. ~(k + 2 <= k)
    OBVIOUS
  <2> QED BY <2>1, <2>2, <2>3 DEF Due, Spelt
<1> QED BY <1>4, <1>5 DEF At

\* The text t stands in b behind its first i characters.
Here(b, i, t) == i + Len(t) <= Len(b) /\ \A j \in 1 .. Len(t) : b[i + j] = t[j]

LEMMA HereText ==
  ASSUME NEW b \in Seq(Symbols), NEW i \in Nat, NEW t \in Seq(Symbols), Here(b, i, t),
         NEW n, n = Len(t)
  PROVE  Text(b, i, n) = t
<1>1. PICK s : s = Text(b, i, n)
  OBVIOUS
<1>2. n \in Nat /\ i + n <= Len(b)
  BY DEF Here
<1>3. /\ s \in Seq(Symbols) /\ Len(s) = n /\ \A j \in 1 .. n : s[j] = b[i + j]
  BY <1>1, <1>2, TextIn, Zenon
<1>4. \A j \in 1 .. n : s[j] = t[j]
  BY <1>3 DEF Here
<1>5. Len(s) = Len(t)
  BY <1>3
<1>6. s = t
  <2>1. \A j \in 1 .. Len(s) : s[j] = t[j]
    BY <1>3, <1>4
  <2> QED BY <1>3, <1>5, <2>1, SeqEqual
<1> QED BY <1>1, <1>6

LEMMA HereJoined ==
  ASSUME NEW b \in Seq(Symbols), NEW i \in Nat, NEW s \in Seq(Symbols), NEW t \in Seq(Symbols),
         Here(b, i, s \o t)
  PROVE  Here(b, i, s) /\ Here(b, i + Len(s), t)
<1>1. PICK r : r = s \o t
  OBVIOUS
<1>2. /\ Len(r) = Len(s) + Len(t) /\ \A j \in 1 .. Len(s) : r[j] = s[j]
      /\ \A j \in 1 .. Len(t) : r[Len(s) + j] = t[j]
  BY <1>1
<1>3. PICK n \in Nat, m \in Nat : n = Len(s) /\ m = Len(t)
  OBVIOUS
<1>4. i + (n + m) <= Len(b) /\ \A j \in 1 .. n + m : b[i + j] = r[j]
  BY <1>1, <1>2, <1>3 DEF Here
<1>5. \A j \in 1 .. n : b[i + j] = s[j]
  BY <1>2, <1>3, <1>4
<1>6. ASSUME NEW j \in 1 .. m PROVE b[(i + n) + j] = t[j]
  <2>1. n + j \in 1 .. n + m /\ i + (n + j) = (i + n) + j
    BY <1>6
  <2> QED BY <1>2, <1>3, <1>4, <2>1
<1>7. i + n <= Len(b) /\ (i + n) + m <= Len(b)
  BY <1>4
<1> QED BY <1>3, <1>5, <1>6, <1>7 DEF Here

LEMMA HereOne ==
  ASSUME NEW b \in Seq(Symbols), NEW i \in Nat, NEW c, Here(b, i, <<c>>)
  PROVE  i + 1 <= Len(b) /\ b[i + 1] = c
<1>1. PICK t : t = <<c>>
  OBVIOUS
<1>2. Len(t) = 1 /\ t[1] = c /\ 1 \in 1 .. 1
  BY <1>1
<1> QED BY <1>1, <1>2 DEF Here

LEMMA ToldNew ==
  ASSUME NEW M, NEW key, NEW value, \A m \in M : m[1] # key
  PROVE  Told1(M, key, value) = M \cup {<<key, value>>}
BY DEF Told1

\* The method.
LEMMA MethodRead ==
  ASSUME NEW b \in Seq(Symbols), NEW f, Trace(f, b), NEW k \in 1 .. MaxMethod,
         k + 1 <= Len(b), \A j \in 1 .. k : b[j] \in MethodChars, b[k + 1] = "SP"
  PROVE  f[k + 1].cs = At("uri") /\ Said(f[k + 1].params) = {<<Names.request_method, Text(b, 0, k)>>}
<1>0. k \in Nat /\ MaxMethod \in Nat
  BY ParserAssumption
<1>3. f[1].cs = <<"method", 1>> /\ f[1].mark = 0 /\ Said(f[1].params) = {}
  <2>1. f[0].cs = At("start") /\ f[0].mark = 0 /\ Said(f[0].params) = {}
    BY DEF Trace, Fresh, Said
  <2>2. Edge(At("start"), MethodChars, <<"method", 1>>, <<"mark">>) \in Edges
    BY Zenon DEF Edges, MethodEdges
  <2>3. PICK to : to = <<"method", 1>>
    OBVIOUS
  <2>4. 0 \in 0 .. Len(b) - 1 /\ 0 + 1 = 1 /\ b[1] \in MethodChars /\ "mark" \in Actions
    BY DEF Actions
  <2>5. Edge(f[0].cs, MethodChars, to, <<"mark">>) \in Edges
    BY <2>1, <2>2, <2>3
  <2>6. f[0 + 1].cs = to /\ Does(f[0], f[0 + 1], "mark", b, 0)
    BY <2>4, <2>5, StepOne
  <2> QED BY <2>1, <2>3, <2>4, <2>6 DEF Does, Names
<1> DEFINE S == {n \in Nat : f[n].cs = <<"method", n>> /\ f[n].mark = 0 /\ Said(f[n].params) = {}}
<1>4. 1 \in S
  BY <1>3
<1>5. ASSUME NEW n \in 1 .. k - 1, n \in S PROVE n + 1 \in S
  <2>1. n \in 0 .. Len(b) - 1 /\ n + 1 \in Nat /\ b[n + 1] \in MethodChars /\ n \in 1 .. MaxMethod - 1
    BY <1>0
  <2>2. Edge(<<"method", n>>, MethodChars, <<"method", n + 1>>, <<>>) \in Edges
    BY <2>1, Zenon DEF Edges, MethodEdges
  <2>3. PICK to : to = <<"method", n + 1>>
    OBVIOUS
  <2>4. Edge(f[n].cs, MethodChars, to, <<>>) \in Edges
    BY <1>5, <2>2, <2>3, Zenon
  <2>5. f[n + 1].cs = to /\ Leaves(f[n], f[n + 1])
    <3> HIDE DEF S
    <3> QED BY <2>1, <2>4, StepIdle
  <2> QED BY <1>5, <2>1, <2>3, <2>5 DEF Leaves
<1>6. k \in S
  <2> HIDE DEF S
  <2>1. 1 \in Nat
    OBVIOUS
  <2>2. 1 .. k \subseteq S
    BY <1>0, <1>4, <1>5, <2>1, Upward, Zenon
  <2> QED BY <1>0, <2>2
<1>7. f[k].cs = <<"method", k>> /\ f[k].mark = 0 /\ Said(f[k].params) = {}
  BY <1>6
<1>8. Edge(<<"method", k>>, {"SP"}, At("uri"), <<"request_method">>) \in Edges
  BY Zenon DEF Edges, MethodEdges
<1>9. k \in 0 .. Len(b) - 1 /\ "request_method" \in Actions
  BY DEF Actions, Names
<1>10. Edge(f[k].cs, {"SP"}, At("uri"), <<"request_method">>) \in Edges
  BY <1>7, <1>8
<1>11. f[k + 1].cs = At("uri") /\ Does(f[k], f[k + 1], "request_method", b, k)
  <2> HIDE DEF S
  <2> QED BY <1>9, <1>10, StepOne
<1>12. Said(f[k + 1].params) = Told1({}, Names.request_method, Text(b, 0, k))
  BY <1>0, <1>7, <1>11 DEF Does, Names
<1> QED BY <1>11, <1>12, ToldNew

\* Where the URI ends, at a space or at the "#" of a fragment.
Behind(c) == IF c = "#" THEN At("fragment0") ELSE At("version")

LEMMA UriEndsLead ==
  ASSUME NEW part \in DOMAIN UriEnds, NEW c \in {"SP", "#"}
  PROVE  Edge(At(part), {c}, Behind(c), UriEnds[part]) \in Edges
<1>1. Edge(At(part), {"SP"}, At("version"), UriEnds[part]) \in Edges
  BY Zenon DEF Edges, UriEdges
<1>2. Edge(At(part), {"#"}, At("fragment0"), UriEnds[part]) \in Edges
  BY Zenon DEF Edges, UriEdges
<1>3. c = "SP" => Behind(c) = At("version")
  BY DEF Behind
<1>4. c = "#" => Behind(c) = At("fragment0")
  BY DEF Behind
<1> QED BY <1>1, <1>2, <1>3, <1>4

\* The keys of a request's line.
UriKeys == {Names.request_path, Names.query_string, Names.request_uri}

NoUri(M) == \A m \in M : m[1] \notin UriKeys

UriTold(M, N, path, uri) ==
  /\ Told1(M, Names.request_uri, uri) = M \cup {<<Names.request_uri, uri>>}
  /\ Told1(N, Names.request_uri, uri) =
       M \cup {<<Names.request_path, path>>} \cup {<<Names.request_uri, uri>>}
  /\ \A q : Told1(Told1(N, Names.query_string, q), Names.request_uri, uri) =
             M \cup {<<Names.request_path, path>>} \cup {<<Names.query_string, q>>}
               \cup {<<Names.request_uri, uri>>}

LEMMA ToldUri ==
  ASSUME NEW M, NoUri(M), NEW path, NEW N, N = Told1(M, Names.request_path, path), NEW u
  PROVE  UriTold(M, N, path, u)
<1>2. Names.request_path # Names.query_string /\ Names.request_path # Names.request_uri /\ Names.query_string # Names.request_uri
  BY DEF Names
<1>3. \A m \in M : m[1] # Names.request_path /\ m[1] # Names.query_string /\ m[1] # Names.request_uri
  BY DEF NoUri, UriKeys
<1>4. /\ Told1(M, Names.request_uri, u) = M \cup {<<Names.request_uri, u>>}
      /\ \A p : Told1(M, Names.request_path, p) = M \cup {<<Names.request_path, p>>}
  BY <1>3 DEF Told1
<1>5. ASSUME NEW p PROVE Told1(M \cup {<<Names.request_path, p>>}, Names.request_uri, u) = M \cup {<<Names.request_path, p>>} \cup {<<Names.request_uri, u>>}
  <2>1. \A m \in M \cup {<<Names.request_path, p>>} : m[1] # Names.request_uri
    BY <1>2, <1>3
  <2> QED BY <2>1 DEF Told1
<1>6. ASSUME NEW p, NEW q
      PROVE  Told1(Told1(M \cup {<<Names.request_path, p>>}, Names.query_string, q), Names.request_uri, u)
                  = M \cup {<<Names.request_path, p>>} \cup {<<Names.query_string, q>>} \cup {<<Names.request_uri, u>>}
  <2>1. \A m \in M \cup {<<Names.request_path, p>>} : m[1] # Names.query_string
    BY <1>2, <1>3
  <2>2. \A m \in M \cup {<<Names.request_path, p>>} \cup {<<Names.query_string, q>>} : m[1] # Names.request_uri
    BY <1>2, <1>3
  <2>3. Told1(M \cup {<<Names.request_path, p>>}, Names.query_string, q) = M \cup {<<Names.request_path, p>>} \cup {<<Names.query_string, q>>}
    BY <2>1 DEF Told1
  <2>4. Told1(M \cup {<<Names.request_path, p>>} \cup {<<Names.query_string, q>>}, Names.request_uri, u)
                  = M \cup {<<Names.request_path, p>>} \cup {<<Names.query_string, q>>} \cup {<<Names.request_uri, u>>}
    BY <2>2 DEF Told1
  <2> QED BY <2>3, <2>4, Zenon
<1>7. N = M \cup {<<Names.request_path, path>>}
  BY <1>4
<1>8. Told1(N, Names.request_uri, u) = M \cup {<<Names.request_path, path>>} \cup {<<Names.request_uri, u>>}
  BY <1>5, <1>7, Zenon
<1>9. \A q : Told1(Told1(N, Names.query_string, q), Names.request_uri, u) =
             M \cup {<<Names.request_path, path>>} \cup {<<Names.query_string, q>>}
               \cup {<<Names.request_uri, u>>}
  BY <1>6, <1>7, Zenon
<1> QED BY <1>4, <1>8, <1>9, Zenon DEF UriTold

\* A URI that is "*".
LEMMA StarRead ==
  ASSUME NEW b \in Seq(Symbols), NEW f, Trace(f, b), NEW u \in Nat, NEW M, NoUri(M),
         f[u].cs = At("uri"), Said(f[u].params) = M, u + 2 <= Len(b),
         b[u + 1] = "*", NEW c \in {"SP", "#"}, b[u + 2] = c
  PROVE  /\ f[u + 2].cs = Behind(c)
         /\ Said(f[u + 2].params) = M \cup {<<Names.request_uri, Text(b, u, 1)>>}
<1>1. Edge(f[u].cs, {"*"}, At("star"), <<"mark">>) \in Edges
  <2>1. Edge(At("uri"), {"*"}, At("star"), <<"mark">>) \in Edges
    BY Zenon DEF Edges, UriEdges
  <2> QED BY <2>1
<1>2. "mark" \in Actions /\ "request_uri" \in Actions
  BY DEF Actions, Names
<1>3. u \in 0 .. Len(b) - 1 /\ u + 1 \in 0 .. Len(b) - 1 /\ (u + 1) + 1 = u + 2 /\ (u + 1) - u = 1
  OBVIOUS
<1>4. f[u + 1].cs = At("star") /\ Does(f[u], f[u + 1], "mark", b, u)
  BY <1>1, <1>2, <1>3, StepOne
<1>5. f[u + 1].mark = u /\ Said(f[u + 1].params) = M
  BY <1>4 DEF Does, Names
<1>6. Edge(f[u + 1].cs, {c}, Behind(c), <<"request_uri">>) \in Edges
  <2>1. "star" \in DOMAIN UriEnds /\ UriEnds["star"] = <<"request_uri">>
    BY DEF UriEnds
  <2>2. Edge(At("star"), {c}, Behind(c), UriEnds["star"]) \in Edges
    BY <2>1, UriEndsLead
  <2> QED BY <1>4, <2>1, <2>2, Zenon
<1>7. f[(u + 1) + 1].cs = Behind(c) /\ Does(f[u + 1], f[(u + 1) + 1], "request_uri", b, u + 1)
  <2>1. b[(u + 1) + 1] \in {c}
    BY <1>3
  <2> QED BY <1>2, <1>3, <1>6, <2>1, StepOne, Zenon
<1>8. Said(f[u + 2].params) = Told1(M, Names.request_uri, Text(b, u, 1))
  BY <1>3, <1>5, <1>7 DEF Does, Names
<1>9. UriTold(M, Told1(M, Names.request_path, <<>>), <<>>, Text(b, u, 1))
  BY ToldUri, Zenon
<1> QED BY <1>3, <1>7, <1>8, <1>9, Zenon DEF UriTold

\* What is said of the URI where it ends.
LEMMA EndRead ==
  ASSUME NEW b \in Seq(Symbols), NEW f, Trace(f, b), NEW u \in Nat, NEW e \in Nat, e + 1 <= Len(b),
         f[e].mark = u, NEW c \in {"SP", "#"}, b[e + 1] = c,
         NEW part \in DOMAIN UriEnds, f[e].cs = At(part), NEW M, Said(f[e].params) = M,
         NEW uri, uri = Text(b, u, e - u)
  PROVE  /\ f[e + 1].cs = Behind(c)
         /\ part \in {"star", "opaque", "params"} =>
              Said(f[e + 1].params) = Told1(M, Names.request_uri, uri)
         /\ part = "path" =>
              Said(f[e + 1].params) = Told1(Told1(M, Names.request_path, uri), Names.request_uri, uri)
         /\ part = "query" => \A q : q = Text(b, f[e].query_start, e - f[e].query_start) =>
              Said(f[e + 1].params) = Told1(Told1(M, Names.query_string, q), Names.request_uri, uri)
         /\ part = "query0" => \A q : q = Text(b, e, 0) =>
              Said(f[e + 1].params) = Told1(Told1(M, Names.query_string, q), Names.request_uri, uri)
<1>1. e \in 0 .. Len(b) - 1 /\ b[e + 1] \in {c} /\ e - e = 0
  OBVIOUS
<1>2. /\ {"request_uri", "request_path", "start_query", "query_string"} \subseteq Actions
      /\ \A a \in {"request_path", "start_query", "query_string"} : a # "write_value"
  BY DEF Actions, Names
<1>3. Edge(f[e].cs, {c}, Behind(c), UriEnds[part]) \in Edges
  BY UriEndsLead, Zenon
<1>4. CASE part \in {"star", "opaque", "params"}
  <2>1. UriEnds[part] = <<"request_uri">>
    BY <1>4 DEF UriEnds
  <2>2. Edge(f[e].cs, {c}, Behind(c), <<"request_uri">>) \in Edges
    BY <1>3, <2>1
  <2>3. f[e + 1].cs = Behind(c) /\ Does(f[e], f[e + 1], "request_uri", b, e)
    BY <1>1, <1>2, <2>2, StepOne, Zenon
  <2> QED BY <1>4, <2>3 DEF Does, Names
<1>5. CASE part = "path"
  <2>1. UriEnds[part] = <<"request_path", "request_uri">>
    BY <1>5 DEF UriEnds
  <2>2. Edge(f[e].cs, {c}, Behind(c), <<"request_path", "request_uri">>) \in Edges
    BY <1>3, <2>1
  <2>3. /\ f[e + 1].cs = Behind(c)
        /\ \E s : Does(f[e], s, "request_path", b, e) /\ Does(s, f[e + 1], "request_uri", b, e)
    BY <1>1, <1>2, <2>2, StepTwo
  <2> QED BY <1>5, <2>3 DEF Does, Names
<1>6. CASE part = "query"
  <2>1. UriEnds[part] = <<"query_string", "request_uri">>
    BY <1>6 DEF UriEnds
  <2>2. Edge(f[e].cs, {c}, Behind(c), <<"query_string", "request_uri">>) \in Edges
    BY <1>3, <2>1
  <2>3. /\ f[e + 1].cs = Behind(c)
        /\ \E s : Does(f[e], s, "query_string", b, e) /\ Does(s, f[e + 1], "request_uri", b, e)
    BY <1>1, <1>2, <2>2, StepTwo
  <2> QED BY <1>6, <2>3 DEF Does, Names
<1>7. CASE part = "query0"
  <2>1. UriEnds[part] = <<"start_query", "query_string", "request_uri">>
    BY <1>7 DEF UriEnds
  <2>3. /\ f[e + 1].cs = Behind(c)
        /\ \E s, t : /\ Does(f[e], s, "start_query", b, e) /\ Does(s, t, "query_string", b, e)
                     /\ Does(t, f[e + 1], "request_uri", b, e)
    BY <1>1, <1>3, <2>1, StepThree, Zenon
  <2> QED BY <1>1, <1>7, <2>3 DEF Does, Names
<1> QED BY <1>4, <1>5, <1>6, <1>7 DEF UriEnds

\* A URI with a scheme.
LEMMA OpaqueRead ==
  ASSUME NEW b \in Seq(Symbols), NEW f, Trace(f, b), NEW u \in Nat, NEW e \in Nat, e + 1 <= Len(b),
         f[u].cs = At("uri"), NEW M, Said(f[u].params) = M,
         NEW k \in u + 1 .. e, b[k] = ":", \A j \in u + 1 .. k - 1 : b[j] \in SchemeChars,
         Spelt(b, k, e, UriChars), NEW c \in {"SP", "#"}, b[e + 1] = c
  PROVE  /\ f[e + 1].cs = Behind(c)
         /\ Said(f[e + 1].params) = Told1(M, Names.request_uri, Text(b, u, e - u))
<1>1. /\ Edge(At("uri"), {":"}, At("opaque"), <<"mark">>) \in Edges
      /\ Edge(At("uri"), SchemeChars, At("scheme"), <<"mark">>) \in Edges
      /\ Edge(At("scheme"), SchemeChars, At("scheme"), <<>>) \in Edges
      /\ Edge(At("scheme"), {":"}, At("opaque"), <<>>) \in Edges
      /\ Edge(At("opaque"), UriChars, At("opaque"), <<>>) \in Edges
  BY Zenon DEF Edges, UriEdges
<1>2. u \in 0 .. Len(b) - 1 /\ "mark" \in Actions /\ k \in Nat
  BY DEF Actions
<1>3. f[k].cs = At("opaque") /\ f[k].mark = u /\ Said(f[k].params) = M
  <2>1. CASE k = u + 1
    <3>1. Edge(f[u].cs, {":"}, At("opaque"), <<"mark">>) \in Edges
      BY <1>1
    <3>2. f[u + 1].cs = At("opaque") /\ Does(f[u], f[u + 1], "mark", b, u)
      BY <1>2, <2>1, <3>1, StepOne
    <3> QED BY <2>1, <3>2 DEF Does, Names
  <2>2. CASE k # u + 1
    <3>0. u + 1 \in u + 1 .. k - 1 /\ k - 1 \in u + 1 .. Len(b) /\ u + 1 \in Nat /\ (k - 1) + 1 = k
          /\ k - 1 \in 0 .. Len(b) - 1
      BY <2>2
    <3>1. Edge(f[u].cs, SchemeChars, At("scheme"), <<"mark">>) \in Edges
      BY <1>1
    <3>2. f[u + 1].cs = At("scheme") /\ Does(f[u], f[u + 1], "mark", b, u)
      BY <1>2, <3>0, <3>1, StepOne
    <3>3. \A j \in (u + 1) + 1 .. k - 1 : b[j] \in SchemeChars
      OBVIOUS
    <3>4. f[k - 1].cs = At("scheme") /\ Leaves(f[u + 1], f[k - 1])
      BY <1>1, <3>0, <3>2, <3>3, Loops
    <3>5. Edge(f[k - 1].cs, {":"}, At("opaque"), <<>>) \in Edges
      BY <1>1, <3>4
    <3>6. b[(k - 1) + 1] \in {":"}
      BY <3>0
    <3>7. f[(k - 1) + 1].cs = At("opaque") /\ Leaves(f[k - 1], f[(k - 1) + 1])
      BY <3>0, <3>5, <3>6, StepIdle, Zenon
    <3>8. f[u + 1].mark = u /\ Said(f[u + 1].params) = M
      BY <3>2 DEF Does, Names
    <3> QED BY <3>0, <3>4, <3>7, <3>8 DEF Leaves
  <2> QED BY <2>1, <2>2
<1>4. f[e].cs = At("opaque") /\ Leaves(f[k], f[e])
  <2>1. f[k].cs = <<"opaque", Due(b, k, k)>>
    BY <1>3 DEF Due, At
  <2>2. "opaque" \in Parts /\ e \in k .. Len(b) /\ k \in k .. e
    BY DEF Parts
  <2> QED BY <1>1, <1>2, <2>1, <2>2, Spells, Zenon
<1>5. f[e].mark = u /\ Said(f[e].params) = M
  BY <1>3, <1>4 DEF Leaves
<1>6. "opaque" \in DOMAIN UriEnds
  BY DEF UriEnds
<1>7. PICK uri : uri = Text(b, u, e - u)
  OBVIOUS
<1>8. f[e + 1].cs = Behind(c) /\ Said(f[e + 1].params) = Told1(M, Names.request_uri, uri)
  BY <1>4, <1>5, <1>6, <1>7, EndRead
<1> QED BY <1>7, <1>8

\* A symbol the provers need a name for.
Semicolon == ";"

\* A path, ...
LEMMA PathRead ==
  ASSUME NEW b \in Seq(Symbols), NEW f, Trace(f, b), NEW u \in Nat, NEW p \in u + 1 .. Len(b),
         f[u].cs = At("uri"), NEW M, Said(f[u].params) = M,
         b[u + 1] = "/", Spelt(b, u + 1, p, PathChars)
  PROVE  f[p].cs = At("path") /\ f[p].mark = u /\ Said(f[p].params) = M
<1>1. /\ Edge(At("uri"), {"/"}, At("path"), <<"mark">>) \in Edges
      /\ Edge(At("path"), PathChars, At("path"), <<>>) \in Edges
  BY Zenon DEF Edges, UriEdges, PathChars
<1>2. u \in 0 .. Len(b) - 1 /\ "mark" \in Actions /\ u + 1 \in Nat /\ u + 1 \in u + 1 .. p
      /\ p \in u + 1 .. Len(b)
  BY DEF Actions
<1>3. Edge(f[u].cs, {"/"}, At("path"), <<"mark">>) \in Edges
  BY <1>1
<1>4. f[u + 1].cs = At("path") /\ Does(f[u], f[u + 1], "mark", b, u)
  BY <1>2, <1>3, StepOne
<1>5. f[u + 1].mark = u /\ Said(f[u + 1].params) = M
  BY <1>4 DEF Does, Names
<1>6. f[p].cs = At("path") /\ Leaves(f[u + 1], f[p])
  <2>1. f[u + 1].cs = <<"path", Due(b, u + 1, u + 1)>>
    BY <1>4 DEF Due, At
  <2>2. "path" \in Parts
    BY DEF Parts
  <2> QED BY <1>1, <1>2, <2>1, <2>2, Spells, Zenon
<1> QED BY <1>5, <1>6 DEF Leaves

\* ... its parameters, ...
LEMMA ParamsRead ==
  ASSUME NEW b \in Seq(Symbols), NEW f, Trace(f, b), NEW u \in Nat, NEW p \in Nat,
         NEW r \in p + 1 .. Len(b), f[p].cs = At("path"), f[p].mark = u, NEW M, Said(f[p].params) = M,
         b[p + 1] = Semicolon, Spelt(b, p + 1, r, ParamChars)
  PROVE  /\ f[r].cs = At("params") /\ f[r].mark = u
         /\ Said(f[r].params) = Told1(M, Names.request_path, Text(b, u, p - u))
<1>1. /\ Edge(At("path"), {Semicolon}, At("params"), <<"request_path">>) \in Edges
      /\ Edge(At("params"), ParamChars, At("params"), <<>>) \in Edges
  BY Zenon DEF Edges, UriEdges, ParamChars, Semicolon
<1>2. p \in 0 .. Len(b) - 1 /\ "request_path" \in Actions /\ p + 1 \in Nat /\ p + 1 \in p + 1 .. r
      /\ r \in p + 1 .. Len(b)
  BY DEF Actions, Names
<1>3. Edge(f[p].cs, {Semicolon}, At("params"), <<"request_path">>) \in Edges
  BY <1>1
<1>4. f[p + 1].cs = At("params") /\ Does(f[p], f[p + 1], "request_path", b, p)
  BY <1>2, <1>3, StepOne
<1>5. f[p + 1].mark = u /\ Said(f[p + 1].params) = Told1(M, Names.request_path, Text(b, u, p - u))
  BY <1>4 DEF Does, Names
<1>6. f[r].cs = At("params") /\ Leaves(f[p + 1], f[r])
  <2>1. f[p + 1].cs = <<"params", Due(b, p + 1, p + 1)>>
    BY <1>4 DEF Due, At
  <2>2. "params" \in Parts
    BY DEF Parts
  <2> QED BY <1>1, <1>2, <2>1, <2>2, Spells, Zenon
<1> QED BY <1>5, <1>6 DEF Leaves

\* ... and its query.
LEMMA QueryRead ==
  ASSUME NEW b \in Seq(Symbols), NEW f, Trace(f, b), NEW u \in Nat, NEW q \in Nat, NEW e \in q .. Len(b),
         e + 1 <= Len(b), f[q].cs = At("query0"), f[q].mark = u, NEW M, Said(f[q].params) = M,
         Spelt(b, q, e, UriChars), NEW c \in {"SP", "#"}, b[e + 1] = c
  PROVE  /\ f[e + 1].cs = Behind(c)
         /\ Said(f[e + 1].params) =
              Told1(Told1(M, Names.query_string, Text(b, q, e - q)), Names.request_uri, Text(b, u, e - u))
<1>1. /\ Edge(At("query0"), UriChars, At("query"), <<"start_query">>) \in Edges
      /\ Edge(At("query0"), {"%"}, <<"query", 2>>, <<"start_query">>) \in Edges
      /\ Edge(At("query"), UriChars, At("query"), <<>>) \in Edges
  BY Zenon DEF Edges, UriEdges
<1>2. e \in Nat
  OBVIOUS
<1>3. PICK uri, query : uri = Text(b, u, e - u) /\ query = Text(b, q, e - q)
  OBVIOUS
<1>4. CASE e = q
  <2>1. query = Text(b, e, 0) /\ "query0" \in DOMAIN UriEnds
    BY <1>3, <1>4 DEF UriEnds
  <2>2. /\ f[e + 1].cs = Behind(c)
        /\ Said(f[e + 1].params) = Told1(Told1(M, Names.query_string, query), Names.request_uri, uri)
    BY <1>2, <1>3, <1>4, <2>1, EndRead
  <2> QED BY <1>3, <2>2
<1>5. CASE e # q
  <2>1. q \in 0 .. Len(b) - 1 /\ "start_query" \in Actions /\ q + 1 \in q + 1 .. e /\ q + 1 \in q .. e
        /\ e \in q .. Len(b)
    BY <1>5 DEF Actions
  <2>2. PICK to : to = <<"query", Due(b, q, q + 1)>>
    OBVIOUS
  <2>3. f[q + 1].cs = to /\ Does(f[q], f[q + 1], "start_query", b, q)
    <3>1. CASE b[q + 1] = "%"
      <4>1. Due(b, q, q + 1) = 2
        BY <3>1 DEF Due
      <4>2. Edge(f[q].cs, {"%"}, to, <<"start_query">>) \in Edges
        BY <1>1, <2>2, <4>1
      <4> QED BY <2>1, <3>1, <4>2, StepOne
    <3>2. CASE b[q + 1] # "%"
      <4>1. Due(b, q, q + 1) = 0
        BY <3>2 DEF Due
      <4>2. Edge(f[q].cs, UriChars, to, <<"start_query">>) \in Edges
        BY <1>1, <2>2, <4>1 DEF At
      <4>3. b[q + 1] \in UriChars
        BY <2>1, <3>2 DEF Spelt
      <4> QED BY <2>1, <4>2, <4>3, StepOne
    <3> QED BY <3>1, <3>2
  <2>4. f[q + 1].mark = u /\ f[q + 1].query_start = q /\ Said(f[q + 1].params) = M
    BY <2>3 DEF Does, Names
  <2>5. f[e].cs = At("query") /\ Leaves(f[q + 1], f[e])
    <3>1. f[q + 1].cs = <<"query", Due(b, q, q + 1)>>
      BY <2>2, <2>3
    <3>2. "query" \in Parts
      BY DEF Parts
    <3> QED BY <1>1, <2>1, <3>1, <3>2, Spells, Zenon
  <2>6. f[e].mark = u /\ f[e].query_start = q /\ Said(f[e].params) = M
    BY <2>4, <2>5 DEF Leaves
  <2>7. query = Text(b, f[e].query_start, e - f[e].query_start) /\ "query" \in DOMAIN UriEnds
    BY <1>3, <2>6 DEF UriEnds
  <2>8. /\ f[e + 1].cs = Behind(c)
        /\ Said(f[e + 1].params) = Told1(Told1(M, Names.query_string, query), Names.request_uri, uri)
    BY <1>2, <1>3, <2>5, <2>6, <2>7, EndRead
  <2> QED BY <1>3, <2>8
<1> QED BY <1>4, <1>5

\* An absolute path, with parameters and a query or without.
RelativeTold(b, f, u, e, p, r, c) ==
  LET M == Said(f[u].params) IN
  /\ f[e + 1].cs = Behind(c)
  /\ Said(f[e + 1].params) =
       IF e # r
       THEN M \cup {<<Names.request_path, Text(b, u, p - u)>>}
              \cup {<<Names.query_string, Text(b, r + 1, e - (r + 1))>>}
              \cup {<<Names.request_uri, Text(b, u, e - u)>>}
       ELSE M \cup {<<Names.request_path, Text(b, u, p - u)>>}
              \cup {<<Names.request_uri, Text(b, u, e - u)>>}

LEMMA RelativeRead ==
  ASSUME NEW b \in Seq(Symbols), NEW f, Trace(f, b), NEW u \in Nat, NEW e \in Nat, e + 1 <= Len(b),
         NEW p \in u + 1 .. e, NEW r \in p .. e,
         f[u].cs = At("uri"), NoUri(Said(f[u].params)),
         b[u + 1] = "/", Spelt(b, u + 1, p, PathChars),
         r # p => b[p + 1] = Semicolon /\ Spelt(b, p + 1, r, ParamChars),
         e # r => b[r + 1] = "?" /\ Spelt(b, r + 1, e, UriChars),
         NEW c \in {"SP", "#"}, b[e + 1] = c
  PROVE  RelativeTold(b, f, u, e, p, r, c)
<1> SUFFICES ASSUME NEW M, Said(f[u].params) = M, NoUri(M)
             PROVE  /\ f[e + 1].cs = Behind(c)
                    /\ Said(f[e + 1].params) =
                         IF e # r
                         THEN M \cup {<<Names.request_path, Text(b, u, p - u)>>}
                                \cup {<<Names.query_string, Text(b, r + 1, e - (r + 1))>>}
                                \cup {<<Names.request_uri, Text(b, u, e - u)>>}
                         ELSE M \cup {<<Names.request_path, Text(b, u, p - u)>>}
                                \cup {<<Names.request_uri, Text(b, u, e - u)>>}
  BY DEF RelativeTold
<1>0. p \in Nat /\ r \in Nat /\ p \in u + 1 .. Len(b)
  OBVIOUS
<1>1. f[p].cs = At("path") /\ f[p].mark = u /\ Said(f[p].params) = M
  BY <1>0, PathRead
<1>2. PICK path, uri : path = Text(b, u, p - u) /\ uri = Text(b, u, e - u)
  OBVIOUS
<1>3. PICK N : N = Told1(M, Names.request_path, path)
  OBVIOUS
<1>4. UriTold(M, N, path, uri)
  BY <1>3, ToldUri
<1>5. r # p => f[r].cs = At("params") /\ f[r].mark = u /\ Said(f[r].params) = N
  <2> SUFFICES ASSUME r # p PROVE f[r].cs = At("params") /\ f[r].mark = u /\ Said(f[r].params) = N
    OBVIOUS
  <2>1. r \in p + 1 .. Len(b)
    BY <1>0
  <2> QED BY <1>0, <1>1, <1>2, <1>3, <2>1, ParamsRead
<1>6. CASE e = r
  <2>1. CASE r = p
    <3>1. "path" \in DOMAIN UriEnds
      BY DEF UriEnds
    <3>2. path = uri /\ f[e].cs = At("path") /\ f[e].mark = u /\ Said(f[e].params) = M
      BY <1>1, <1>2, <1>6, <2>1
    <3>3. /\ f[e + 1].cs = Behind(c)
          /\ Said(f[e + 1].params) = Told1(Told1(M, Names.request_path, uri), Names.request_uri, uri)
      BY <1>2, <3>1, <3>2, EndRead
    <3>4. Said(f[e + 1].params) = M \cup {<<Names.request_path, path>>} \cup {<<Names.request_uri, uri>>}
      BY <1>3, <1>4, <3>2, <3>3, Zenon DEF UriTold
    <3> QED BY <1>2, <1>6, <3>3, <3>4
  <2>2. CASE r # p
    <3>1. "params" \in DOMAIN UriEnds
      BY DEF UriEnds
    <3>2. f[e].cs = At("params") /\ f[e].mark = u /\ Said(f[e].params) = N
      BY <1>5, <1>6, <2>2
    <3>3. /\ f[e + 1].cs = Behind(c)
          /\ Said(f[e + 1].params) = Told1(N, Names.request_uri, uri)
      BY <1>2, <3>1, <3>2, EndRead
    <3>4. Said(f[e + 1].params) = M \cup {<<Names.request_path, path>>} \cup {<<Names.request_uri, uri>>}
      BY <1>4, <3>3, Zenon DEF UriTold
    <3> QED BY <1>2, <1>6, <3>3, <3>4
  <2> QED BY <2>1, <2>2
<1>7. CASE e # r
  <2>1. /\ Edge(At("path"), {"?"}, At("query0"), <<"request_path">>) \in Edges
        /\ Edge(At("params"), {"?"}, At("query0"), <<>>) \in Edges
    BY Zenon DEF Edges, UriEdges
  <2>2. r \in 0 .. Len(b) - 1 /\ "request_path" \in Actions /\ b[r + 1] \in {"?"} /\ r + 1 \in Nat
        /\ e \in r + 1 .. Len(b)
    BY <1>0, <1>7 DEF Actions, Names
  <2>3. f[r + 1].cs = At("query0") /\ f[r + 1].mark = u /\ Said(f[r + 1].params) = N
    <3>1. CASE r = p
      <4>1. Edge(f[r].cs, {"?"}, At("query0"), <<"request_path">>) \in Edges
        BY <1>1, <2>1, <3>1
      <4>2. f[r + 1].cs = At("query0") /\ Does(f[r], f[r + 1], "request_path", b, r)
        BY <2>2, <4>1, StepOne, Zenon
      <4> QED BY <1>1, <1>2, <1>3, <3>1, <4>2 DEF Does, Names
    <3>2. CASE r # p
      <4>1. Edge(f[r].cs, {"?"}, At("query0"), <<>>) \in Edges
        BY <1>5, <2>1, <3>2
      <4>2. f[r + 1].cs = At("query0") /\ Leaves(f[r], f[r + 1])
        BY <2>2, <4>1, StepIdle, Zenon
      <4> QED BY <1>5, <3>2, <4>2 DEF Leaves
    <3> QED BY <3>1, <3>2
  <2>4. PICK query : query = Text(b, r + 1, e - (r + 1))
    OBVIOUS
  <2>5. /\ f[e + 1].cs = Behind(c)
        /\ Said(f[e + 1].params) = Told1(Told1(N, Names.query_string, query), Names.request_uri, uri)
    <3>1. Spelt(b, r + 1, e, UriChars)
      BY <1>7
    <3> QED BY <1>2, <2>2, <2>3, <2>4, <3>1, QueryRead
  <2>6. Said(f[e + 1].params) = M \cup {<<Names.request_path, path>>} \cup {<<Names.query_string, query>>}
                                  \cup {<<Names.request_uri, uri>>}
    BY <1>4, <2>5, Zenon DEF UriTold
  <2> QED BY <1>2, <1>7, <2>4, <2>5, <2>6
<1> QED BY <1>6, <1>7

\* A fragment.
LEMMA FragmentRead ==
  ASSUME NEW b \in Seq(Symbols), NEW f, Trace(f, b), NEW h \in Nat, NEW e \in h .. Len(b),
         e + 1 <= Len(b), f[h].cs = At("fragment0"), NEW M, Said(f[h].params) = M,
         Spelt(b, h, e, UriChars), b[e + 1] = "SP"
  PROVE  /\ f[e + 1].cs = At("version")
         /\ Said(f[e + 1].params) = Told1(M, Names.fragment, Text(b, h, e - h))
<1>1. /\ Edge(At("fragment0"), {"SP"}, At("version"), <<"mark", "fragment">>) \in Edges
      /\ Edge(At("fragment0"), {"%"}, <<"fragment", 2>>, <<"mark">>) \in Edges
      /\ Edge(At("fragment0"), UriChars, At("fragment"), <<"mark">>) \in Edges
      /\ Edge(At("fragment"), UriChars, At("fragment"), <<>>) \in Edges
      /\ Edge(At("fragment"), {"SP"}, At("version"), <<"fragment">>) \in Edges
  BY Zenon DEF Edges, FragmentEdges
<1>2. e \in 0 .. Len(b) - 1 /\ "mark" \in Actions /\ "fragment" \in Actions /\ "mark" # "write_value"
      /\ b[e + 1] \in {"SP"}
  BY DEF Actions, Names
<1>4. CASE e = h
  <2>1. Edge(f[e].cs, {"SP"}, At("version"), <<"mark", "fragment">>) \in Edges
    BY <1>1, <1>4
  <2>2. /\ f[e + 1].cs = At("version")
        /\ \E s : Does(f[e], s, "mark", b, e) /\ Does(s, f[e + 1], "fragment", b, e)
    <3>1. PICK a1 \in Actions \ {"write_value"}, a2 \in Actions : a1 = "mark" /\ a2 = "fragment"
      BY <1>2
    <3>2. Edge(f[e].cs, {"SP"}, At("version"), <<a1, a2>>) \in Edges /\ a1 # "write_value"
      BY <2>1, <3>1
    <3>3. /\ f[e + 1].cs = At("version")
          /\ \E s : Does(f[e], s, a1, b, e) /\ Does(s, f[e + 1], a2, b, e)
      BY <1>2, <3>2, StepTwo
    <3> QED BY <3>1, <3>3
  <2> QED BY <1>4, <2>2 DEF Does, Names
<1>5. CASE e # h
  <2>1. h \in 0 .. Len(b) - 1 /\ h + 1 \in h + 1 .. e /\ h + 1 \in h .. e /\ e \in h .. Len(b)
    BY <1>5
  <2>2. PICK to : to = <<"fragment", Due(b, h, h + 1)>>
    OBVIOUS
  <2>3. f[h + 1].cs = to /\ Does(f[h], f[h + 1], "mark", b, h)
    <3>1. CASE b[h + 1] = "%"
      <4>1. Due(b, h, h + 1) = 2
        BY <3>1 DEF Due
      <4>2. Edge(f[h].cs, {"%"}, to, <<"mark">>) \in Edges
        BY <1>1, <2>2, <4>1
      <4> QED BY <1>2, <2>1, <3>1, <4>2, StepOne
    <3>2. CASE b[h + 1] # "%"
      <4>1. Due(b, h, h + 1) = 0
        BY <3>2 DEF Due
      <4>2. Edge(f[h].cs, UriChars, to, <<"mark">>) \in Edges
        BY <1>1, <2>2, <4>1 DEF At
      <4>3. b[h + 1] \in UriChars
        BY <2>1, <3>2 DEF Spelt
      <4> QED BY <1>2, <2>1, <4>2, <4>3, StepOne
    <3> QED BY <3>1, <3>2
  <2>4. f[h + 1].mark = h /\ Said(f[h + 1].params) = M
    BY <2>3 DEF Does, Names
  <2>5. f[e].cs = At("fragment") /\ Leaves(f[h + 1], f[e])
    <3>1. f[h + 1].cs = <<"fragment", Due(b, h, h + 1)>>
      BY <2>2, <2>3
    <3>2. "fragment" \in Parts
      BY DEF Parts
    <3> QED BY <1>1, <2>1, <3>1, <3>2, Spells, Zenon
  <2>6. Edge(f[e].cs, {"SP"}, At("version"), <<"fragment">>) \in Edges
    BY <1>1, <2>5
  <2>7. f[e + 1].cs = At("version") /\ Does(f[e], f[e + 1], "fragment", b, e)
    BY <1>2, <2>6, StepOne, Zenon
  <2>8. f[e].mark = h /\ Said(f[e].params) = M
    BY <2>4, <2>5 DEF Leaves
  <2> QED BY <2>7, <2>8 DEF Does, Names
<1> QED BY <1>4, <1>5

\* The version.
VersionAt(b, v, d, e) ==
  /\ v \in Nat /\ d \in Nat /\ e \in Nat /\ v + 3 <= d /\ d < e /\ e + 1 <= Len(b)
  /\ b[v + 1] = "HTTP/" /\ (\A j \in v + 2 .. d - 1 : b[j] \in Digits) /\ b[d] = "."
  /\ (\A j \in d + 1 .. e : b[j] \in Digits) /\ b[e + 1] = "CR"

VersionHeard(b, f, v, e) ==
  /\ f[e + 1].cs = At("eol")
  /\ Said(f[e + 1].params) = Told1(Said(f[v].params), Names.http_version, Text(b, v, e - v))

LEMMA VersionRead ==
  ASSUME NEW b \in Seq(Symbols), NEW f, Trace(f, b), NEW v, NEW d, NEW e,
         VersionAt(b, v, d, e), f[v].cs = At("version")
  PROVE  VersionHeard(b, f, v, e)
<1> SUFFICES
      ASSUME NEW M, Said(f[v].params) = M, v \in Nat, d \in Nat, e \in Nat,
             v + 3 <= d, d < e, e + 1 <= Len(b),
             b[v + 1] = "HTTP/", \A j \in v + 2 .. d - 1 : b[j] \in Digits, b[d] = ".",
             \A j \in d + 1 .. e : b[j] \in Digits, b[e + 1] = "CR"
      PROVE  /\ f[e + 1].cs = At("eol")
             /\ Said(f[e + 1].params) = Told1(M, Names.http_version, Text(b, v, e - v))
  BY DEF VersionAt, VersionHeard
<1>1. /\ Edge(At("version"), {"HTTP/"}, At("major0"), <<"mark">>) \in Edges
      /\ Edge(At("major0"), Digits, At("major"), <<>>) \in Edges
      /\ Edge(At("major"), Digits, At("major"), <<>>) \in Edges
      /\ Edge(At("major"), {"."}, At("minor0"), <<>>) \in Edges
      /\ Edge(At("minor0"), Digits, At("minor"), <<>>) \in Edges
      /\ Edge(At("minor"), Digits, At("minor"), <<>>) \in Edges
      /\ Edge(At("minor"), {"CR"}, At("eol"), <<"http_version">>) \in Edges
  BY Zenon DEF Edges, VersionEdges
<1>2. /\ v \in 0 .. Len(b) - 1 /\ v + 1 \in 0 .. Len(b) - 1 /\ (v + 1) + 1 = v + 2
      /\ v + 2 \in v + 2 .. d - 1 /\ v + 2 \in Nat /\ d - 1 \in v + 2 .. Len(b)
      /\ d - 1 \in 0 .. Len(b) - 1 /\ (d - 1) + 1 = d /\ d \in 0 .. Len(b) - 1
      /\ d + 1 \in d + 1 .. e /\ d + 1 \in Nat /\ e \in d + 1 .. Len(b) /\ e \in 0 .. Len(b) - 1
      /\ "mark" \in Actions /\ "http_version" \in Actions
  BY DEF Actions, Names
<1>3. f[v + 1].cs = At("major0") /\ f[v + 1].mark = v /\ Said(f[v + 1].params) = M
  <2>1. Edge(f[v].cs, {"HTTP/"}, At("major0"), <<"mark">>) \in Edges /\ b[v + 1] \in {"HTTP/"}
    BY <1>1
  <2>2. f[v + 1].cs = At("major0") /\ Does(f[v], f[v + 1], "mark", b, v)
    BY <1>2, <2>1, StepOne, Zenon
  <2> QED BY <2>2 DEF Does, Names
<1>4. f[v + 2].cs = At("major") /\ Leaves(f[v + 1], f[v + 2])
  <2>1. Edge(f[v + 1].cs, Digits, At("major"), <<>>) \in Edges /\ b[(v + 1) + 1] \in Digits
    BY <1>1, <1>2, <1>3
  <2>2. f[(v + 1) + 1].cs = At("major") /\ Leaves(f[v + 1], f[(v + 1) + 1])
    BY <1>2, <2>1, StepIdle, Zenon
  <2> QED BY <1>2, <2>2
<1>5. f[d - 1].cs = At("major") /\ Leaves(f[v + 2], f[d - 1])
  <2>1. \A j \in (v + 2) + 1 .. d - 1 : b[j] \in Digits
    OBVIOUS
  <2>2. PICK i \in Nat, k \in v + 2 .. Len(b) : i = v + 2 /\ k = d - 1
    BY <1>2
  <2>3. f[i].cs = At("major") /\ \A j \in i + 1 .. k : b[j] \in Digits
    BY <1>4, <2>1, <2>2
  <2>4. f[k].cs = At("major") /\ Leaves(f[i], f[k])
    <3>1. k \in i .. Len(b)
      BY <2>2
    <3> QED BY <1>1, <2>3, <3>1, Loops
  <2> QED BY <2>2, <2>4
<1>6. f[d].cs = At("minor0") /\ Leaves(f[d - 1], f[d])
  <2>1. Edge(f[d - 1].cs, {"."}, At("minor0"), <<>>) \in Edges /\ b[(d - 1) + 1] \in {"."}
    BY <1>1, <1>2, <1>5
  <2>2. f[(d - 1) + 1].cs = At("minor0") /\ Leaves(f[d - 1], f[(d - 1) + 1])
    BY <1>2, <2>1, StepIdle, Zenon
  <2> QED BY <1>2, <2>2
<1>7. f[d + 1].cs = At("minor") /\ Leaves(f[d], f[d + 1])
  <2>1. Edge(f[d].cs, Digits, At("minor"), <<>>) \in Edges /\ b[d + 1] \in Digits
    BY <1>1, <1>2, <1>6
  <2> QED BY <1>2, <2>1, StepIdle, Zenon
<1>8. f[e].cs = At("minor") /\ Leaves(f[d + 1], f[e])
  <2>1. \A j \in (d + 1) + 1 .. e : b[j] \in Digits
    OBVIOUS
  <2> QED BY <1>1, <1>2, <1>7, <2>1, Loops
<1>9. f[e].mark = v /\ Said(f[e].params) = M
  BY <1>3, <1>4, <1>5, <1>6, <1>7, <1>8 DEF Leaves
<1>10. Edge(f[e].cs, {"CR"}, At("eol"), <<"http_version">>) \in Edges /\ b[e + 1] \in {"CR"}
  BY <1>1, <1>8
<1>11. f[e + 1].cs = At("eol") /\ Does(f[e], f[e + 1], "http_version", b, e)
  BY <1>2, <1>10, StepOne, Zenon
<1> QED BY <1>9, <1>11 DEF Does, Names

\* A field without a value.
LEMMA EmptyValue ==
  ASSUME NEW b \in Seq(Symbols), NEW f, Trace(f, b), NEW x \in 0 .. Len(b) - 1,
         f[x].cs = At("value0"), b[x + 1] \in {"CR"}
  PROVE  /\ f[x + 1].cs = At("eol")
         /\ \E s : Does(f[x], s, "start_value", b, x) /\ Does(s, f[x + 1], "write_value", b, x)
<1>1. PICK a1 \in Actions \ {"write_value"}, a2 \in Actions : a1 = "start_value" /\ a2 = "write_value"
  BY DEF Actions
<1>2. Edge(At("value0"), {"CR"}, At("eol"), <<"start_value", "write_value">>) \in Edges
  BY Zenon DEF Edges, FieldEdges
<1>3. Edge(f[x].cs, {"CR"}, At("eol"), <<a1, a2>>) \in Edges /\ a1 # "write_value"
  BY <1>1, <1>2
<1>4. /\ f[x + 1].cs = At("eol")
      /\ \E s : Does(f[x], s, a1, b, x) /\ Does(s, f[x + 1], a2, b, x)
  BY <1>3, StepTwo
<1> QED BY <1>1, <1>4

\* One field: its name begins behind the first h characters of b and ends
\* behind n, its value begins behind w and ends behind x.
FieldAt(b, h, n, w, x) ==
  /\ h \in Nat /\ n \in Nat /\ w \in Nat /\ x \in Nat
  /\ h < n /\ n < w /\ w <= x /\ x + 2 <= Len(b)
  /\ (\A j \in h + 1 .. n : b[j] \in TokenChars) /\ b[n + 1] = ":"
  /\ (\A j \in n + 2 .. w : b[j] = "SP") /\ (\A j \in w + 1 .. x : b[j] \in ValueChars)
  /\ (x > w => b[w + 1] # "SP") /\ b[x + 1] = "CR" /\ b[x + 2] = "LF"

FieldTold(b, f, h, n, w, x) ==
  /\ f[x + 2].cs = At("header")
  /\ Said(f[x + 2].params) = Told1(Said(f[h].params), Text(b, h, n - h), Text(b, w, x - w))

LEMMA FieldRead ==
  ASSUME NEW b \in Seq(Symbols), NEW f, Trace(f, b), NEW h, NEW n, NEW w, NEW x,
         FieldAt(b, h, n, w, x), f[h].cs = At("header")
  PROVE  FieldTold(b, f, h, n, w, x)
<1> SUFFICES ASSUME NEW M, Said(f[h].params) = M
             PROVE  /\ f[x + 2].cs = At("header")
                    /\ Said(f[x + 2].params) = Told1(M, Text(b, h, n - h), Text(b, w, x - w))
  BY DEF FieldTold
<1> USE DEF FieldAt
<1>1. /\ Edge(At("header"), TokenChars, At("name"), <<"start_field">>) \in Edges
      /\ Edge(At("name"), TokenChars, At("name"), <<>>) \in Edges
      /\ Edge(At("name"), {":"}, At("value0"), <<"write_field">>) \in Edges
      /\ Edge(At("value0"), {"SP"}, At("value0"), <<"start_value">>) \in Edges
      /\ Edge(At("value0"), {"CR"}, At("eol"), <<"start_value", "write_value">>) \in Edges
      /\ Edge(At("value0"), ValueChars \ {"SP"}, At("value"), <<"start_value">>) \in Edges
      /\ Edge(At("value"), ValueChars, At("value"), <<>>) \in Edges
      /\ Edge(At("value"), {"CR"}, At("eol"), <<"write_value">>) \in Edges
      /\ Edge(At("eol"), {"LF"}, At("header"), <<>>) \in Edges
  BY Zenon DEF Edges, FieldEdges
<1>2. /\ h \in 0 .. Len(b) - 1 /\ h + 1 \in h + 1 .. n /\ h + 1 \in Nat /\ n \in h + 1 .. Len(b)
      /\ n \in 0 .. Len(b) - 1 /\ n + 1 \in Nat /\ w \in 0 .. Len(b) - 1 /\ x \in 0 .. Len(b) - 1
      /\ x + 1 \in 0 .. Len(b) - 1 /\ (x + 1) + 1 = x + 2
      /\ b[x + 1] \in {"CR"} /\ b[(x + 1) + 1] \in {"LF"} /\ b[n + 1] \in {":"}
  OBVIOUS
<1>3. /\ "start_field" \in Actions /\ "write_field" \in Actions /\ "start_value" \in Actions
      /\ "write_value" \in Actions /\ "start_value" # "write_value"
  BY DEF Actions
<1>4. f[n].cs = At("name") /\ f[n].field_start = h /\ Said(f[n].params) = M
  <2>1. Edge(f[h].cs, TokenChars, At("name"), <<"start_field">>) \in Edges /\ b[h + 1] \in TokenChars
    BY <1>1, <1>2
  <2>2. f[h + 1].cs = At("name") /\ Does(f[h], f[h + 1], "start_field", b, h)
    BY <1>2, <1>3, <2>1, StepOne, Zenon
  <2>3. \A j \in (h + 1) + 1 .. n : b[j] \in TokenChars
    OBVIOUS
  <2>4. f[n].cs = At("name") /\ Leaves(f[h + 1], f[n])
    BY <1>1, <1>2, <2>2, <2>3, Loops
  <2> QED BY <2>2, <2>4 DEF Does, Leaves, Names
<1>5. /\ f[n + 1].cs = At("value0") /\ f[n + 1].field_start = h /\ f[n + 1].field_len = n - h
      /\ Said(f[n + 1].params) = M
  <2>1. Edge(f[n].cs, {":"}, At("value0"), <<"write_field">>) \in Edges
    BY <1>1, <1>4
  <2>2. f[n + 1].cs = At("value0") /\ Does(f[n], f[n + 1], "write_field", b, n)
    BY <1>2, <1>3, <2>1, StepOne, Zenon
  <2> QED BY <1>4, <2>2 DEF Does, Names
<1>6. /\ f[w].cs = At("value0") /\ f[w].field_start = h /\ f[w].field_len = n - h
      /\ Said(f[w].params) = M
  <2> DEFINE S == {i \in Nat : /\ f[i].cs = At("value0") /\ f[i].field_start = h
                               /\ f[i].field_len = n - h /\ Said(f[i].params) = M}
  <2>1. n + 1 \in S
    BY <1>2, <1>5
  <2>2. ASSUME NEW i \in n + 1 .. w - 1, i \in S PROVE i + 1 \in S
    <3>1. i \in 0 .. Len(b) - 1 /\ b[i + 1] \in {"SP"} /\ i + 1 \in Nat
      BY <1>2
    <3>2. f[i].cs = At("value0") /\ f[i].field_start = h /\ f[i].field_len = n - h /\ Said(f[i].params) = M
      BY <2>2
    <3>3. Edge(f[i].cs, {"SP"}, At("value0"), <<"start_value">>) \in Edges
      BY <1>1, <3>2
    <3> HIDE DEF S
    <3>4. f[i + 1].cs = At("value0") /\ Does(f[i], f[i + 1], "start_value", b, i)
      BY <1>3, <3>1, <3>3, StepOne, Zenon
    <3> QED BY <3>1, <3>2, <3>4 DEF Does, Names, S
  <2>3. w \in S
    <3> HIDE DEF S
    <3>1. n + 1 .. w \subseteq S
      BY <1>2, <2>1, <2>2, Upward, Zenon
    <3>2. w \in n + 1 .. w
      OBVIOUS
    <3> QED BY <3>1, <3>2
  <2> QED BY <2>3
<1>7. /\ f[x + 1].cs = At("eol")
      /\ Said(f[x + 1].params) = Told1(M, Text(b, h, n - h), Text(b, w, x - w))
  <2>1. CASE x = w
    <3>2. /\ f[x + 1].cs = At("eol")
          /\ \E s : Does(f[x], s, "start_value", b, x) /\ Does(s, f[x + 1], "write_value", b, x)
      BY <1>2, <1>6, <2>1, EmptyValue
    <3> QED BY <1>6, <2>1, <3>2 DEF Does, Names
  <2>2. CASE x # w
    <3>1. w + 1 \in w + 1 .. x /\ w + 1 \in Nat /\ x \in w + 1 .. Len(b)
      BY <2>2
    <3>2. b[w + 1] \in ValueChars \ {"SP"}
      BY <2>2, <3>1
    <3>3. Edge(f[w].cs, ValueChars \ {"SP"}, At("value"), <<"start_value">>) \in Edges
      BY <1>1, <1>6
    <3>4. f[w + 1].cs = At("value") /\ Does(f[w], f[w + 1], "start_value", b, w)
      BY <1>2, <1>3, <3>2, <3>3, StepOne, Zenon
    <3>5. \A j \in (w + 1) + 1 .. x : b[j] \in ValueChars
      OBVIOUS
    <3>6. f[x].cs = At("value") /\ Leaves(f[w + 1], f[x])
      BY <1>1, <3>1, <3>4, <3>5, Loops
    <3>7. Edge(f[x].cs, {"CR"}, At("eol"), <<"write_value">>) \in Edges
      BY <1>1, <3>6
    <3>8. f[x + 1].cs = At("eol") /\ Does(f[x], f[x + 1], "write_value", b, x)
      BY <1>2, <1>3, <3>7, StepOne, Zenon
    <3>9. /\ f[x].mark = w /\ f[x].field_start = h /\ f[x].field_len = n - h /\ Said(f[x].params) = M
      BY <1>6, <3>4, <3>6 DEF Does, Leaves, Names
    <3> QED BY <3>8, <3>9 DEF Does, Names
  <2> QED BY <2>1, <2>2
<1>8. f[(x + 1) + 1].cs = At("header") /\ Leaves(f[x + 1], f[(x + 1) + 1])
  <2>1. Edge(f[x + 1].cs, {"LF"}, At("header"), <<>>) \in Edges
    BY <1>1, <1>7
  <2> QED BY <1>2, <2>1, StepIdle, Zenon
<1> QED BY <1>2, <1>7, <1>8 DEF Leaves

\* The last line ends the header block.
LEMMA BlockRead ==
  ASSUME NEW b \in Seq(Symbols), NEW f, Trace(f, b), NEW h \in Nat, h + 2 = Len(b),
         f[h].cs = At("header"), b[h + 1] = "CR", b[h + 2] = "LF"
  PROVE  /\ f[h + 2].cs = Finished /\ Said(f[h + 2].params) = Said(f[h].params)
         /\ f[h + 1].cs = At("last") /\ Said(f[h + 1].params) = Said(f[h].params)
<1>1. /\ Edge(At("header"), {"CR"}, At("last"), <<>>) \in Edges
      /\ Edge(At("last"), {"LF"}, At("finished"), <<"done">>) \in Edges
  BY Zenon DEF Edges, FieldEdges
<1>2. h \in 0 .. Len(b) - 1 /\ h + 1 \in 0 .. Len(b) - 1 /\ (h + 1) + 1 = h + 2
  OBVIOUS
<1>3. f[h + 1].cs = At("last") /\ Leaves(f[h], f[h + 1])
  <2>1. Edge(f[h].cs, {"CR"}, At("last"), <<>>) \in Edges /\ b[h + 1] \in {"CR"}
    BY <1>1
  <2> QED BY <1>2, <2>1, StepIdle, Zenon
<1>4. PICK p, does : p = h + 1 /\ does = <<"done">>
  OBVIOUS
<1>5. Takes(f[p], f[p + 1], b, p, At("finished"), does)
  <2>1. Edge(f[p].cs, {"LF"}, At("finished"), does) \in Edges /\ b[p + 1] \in {"LF"} /\ p \in 0 .. Len(b) - 1
    BY <1>1, <1>2, <1>3, <1>4
  <2> QED BY <2>1, Taken, Zenon
<1>6. PICK r : r = Perform(f[p], does, b, p)
  OBVIOUS
<1>7. /\ IsParser(r) /\ DOMAIN f[p].params \subseteq DOMAIN r.params
      /\ DOMAIN r.params \subseteq DOMAIN f[p].params \cup {Body}
      /\ \A k \in DOMAIN f[p].params : r.params[k] = f[p].params[k]
      /\ Body \notin DOMAIN f[p].params => Body \notin DOMAIN r.params
  <2>1. Mid(f[p], p) /\ p \in Nat /\ p < Len(b) /\ ~(Len(b) > p + 1)
    BY <1>2, <1>4, <1>5 DEF Takes
  <2> QED BY <1>4, <1>6, <2>1, DoneOK
<1>8. DOMAIN r.params = DOMAIN f[p].params
  BY <1>7
<1>9. Said(r.params) = Said(f[p].params)
  BY <1>7, <1>8 DEF Said
<1>10. f[p + 1] = Moved(r, At("finished")) /\ At("finished") \in States
  BY <1>5, <1>6 DEF Takes
<1>11. f[p + 1].cs = At("finished") /\ f[p + 1].params = r.params
  BY <1>7, <1>10, MovedIs
<1> QED BY <1>2, <1>3, <1>4, <1>9, <1>11 DEF Leaves, Finished


\* Characters i + 1 to k of b are the text t.
Laid(b, i, k, t) == i \in Nat /\ k \in Nat /\ k = i + Len(t) /\ Here(b, i, t)

LEMMA LaidIs ==
  ASSUME NEW b \in Seq(Symbols), NEW i, NEW k, NEW C, NEW t \in Seq(C), Laid(b, i, k, t)
  PROVE  /\ i \in Nat /\ k \in Nat /\ i <= k /\ k <= Len(b)
         /\ \A j \in i + 1 .. k : b[j] \in C /\ b[j] = t[j - i]
<1>0. Len(t) \in Nat /\ (\A j \in 1 .. Len(t) : t[j] \in C) /\ Len(b) \in Nat
  OBVIOUS
<1>1. PICK n \in Nat : n = Len(t) /\ \A j \in 1 .. n : t[j] \in C
  BY <1>0
<1>2. i \in Nat /\ k = i + n /\ i + n <= Len(b) /\ \A j \in 1 .. n : b[i + j] = t[j]
  BY <1>1 DEF Laid, Here
<1>3. ASSUME NEW j \in i + 1 .. k PROVE b[j] = t[j - i] /\ t[j - i] \in C
  <2>1. j - i \in 1 .. n /\ i + (j - i) = j
    BY <1>2
  <2> QED BY <1>1, <1>2, <2>1
<1> QED BY <1>2, <1>3

LEMMA LaidText ==
  ASSUME NEW b \in Seq(Symbols), NEW i, NEW k, NEW t \in Seq(Symbols), Laid(b, i, k, t)
  PROVE  Text(b, i, k - i) = t
<1>1. i \in Nat /\ Here(b, i, t) /\ k = i + Len(t)
  BY DEF Laid
<1>2. k - i = Len(t)
  BY <1>1
<1> QED BY <1>1, <1>2, HereText

LEMMA LaidJoined ==
  ASSUME NEW b \in Seq(Symbols), NEW i, NEW k, NEW s \in Seq(Symbols), NEW t \in Seq(Symbols),
         Laid(b, i, k, Joined(s, t))
  PROVE  \E m : Laid(b, i, m, s) /\ Laid(b, m, k, t)
<1>1. i \in Nat /\ k = i + Len(Joined(s, t)) /\ k \in Nat /\ Here(b, i, Joined(s, t))
  BY DEF Laid
<1>2. Here(b, i, s) /\ Here(b, i + Len(s), t)
  BY <1>1, HereJoined DEF Joined
<1>3. Len(Joined(s, t)) = Len(s) + Len(t) /\ Len(s) \in Nat /\ Len(t) \in Nat
  <2>1. Len(Joined(s, t)) = Len(s) + Len(t)
    BY JoinedIs, Zenon
  <2> QED BY <2>1
<1>4. PICK m \in Nat : m = i + Len(s)
  BY <1>1, <1>3
<1>5. k = m + Len(t)
  BY <1>1, <1>3, <1>4
<1> QED BY <1>1, <1>2, <1>4, <1>5 DEF Laid

LEMMA LaidOne ==
  ASSUME NEW b \in Seq(Symbols), NEW i, NEW k, NEW c, Laid(b, i, k, <<c>>)
  PROVE  i \in Nat /\ k = i + 1 /\ k <= Len(b) /\ b[k] = c /\ b[i + 1] = c
<1>1. i \in Nat /\ k = i + 1 /\ Here(b, i, <<c>>)
  BY DEF Laid
<1> QED BY <1>1, HereOne

LEMMA SymbolsJoined ==
  ASSUME NEW s \in Seq(Symbols), NEW t \in Seq(Symbols)
  PROVE  /\ Joined(s, t) \in Seq(Symbols) /\ Len(Joined(s, t)) = Len(s) + Len(t)
         /\ \A i \in 1 .. Len(s) : Joined(s, t)[i] = s[i]
         /\ \A i \in 1 .. Len(t) : Joined(s, t)[Len(s) + i] = t[i]
<1>1. Joined(s, t) \in Seq(Symbols) /\ Len(Joined(s, t)) = Len(s) + Len(t)
  BY JoinedIs, Zenon
<1>2. \A i \in 1 .. Len(s) : Joined(s, t)[i] = s[i]
  BY JoinedIs, Zenon
<1>3. \A i \in 1 .. Len(t) : Joined(s, t)[Len(s) + i] = t[i]
  BY JoinedIs
<1> QED BY <1>1, <1>2, <1>3, Zenon

LEMMA TwoJoined ==
  ASSUME NEW s \in Seq(Symbols), NEW t \in Seq(Symbols), Len(s) = 1, Len(t) = 1,
         NEW u \in Seq(Symbols), Len(u) = 2, u[1] = s[1], u[2] = t[1]
  PROVE  Joined(s, t) = u
<1>1. /\ Joined(s, t) \in Seq(Symbols) /\ Len(Joined(s, t)) = Len(s) + Len(t)
      /\ \A i \in 1 .. Len(s) : Joined(s, t)[i] = s[i]
      /\ \A i \in 1 .. Len(t) : Joined(s, t)[Len(s) + i] = t[i]
  BY SymbolsJoined
<1>2. PICK r : r = Joined(s, t)
  OBVIOUS
<1>3. /\ r \in Seq(Symbols) /\ Len(r) = 2 /\ (\A i \in 1 .. 1 : r[i] = s[i])
      /\ \A i \in 1 .. 1 : r[1 + i] = t[i]
  BY <1>1, <1>2
<1>4. r[1] = s[1] /\ r[2] = t[1]
  <2>1. 1 \in 1 .. 1 /\ 1 + 1 = 2
    OBVIOUS
  <2> QED BY <1>3, <2>1
<1>5. \A i \in 1 .. 2 : r[i] = u[i]
  BY <1>4
<1> QED BY <1>2, <1>3, <1>5, SeqEqual

LEMMA PairJoined ==
  ASSUME NEW c \in Symbols, NEW d \in Symbols
  PROVE  <<c>> \in Seq(Symbols) /\ <<d>> \in Seq(Symbols) /\ Joined(<<c>>, <<d>>) = <<c, d>>
<1>1. <<c>> \in Seq(Symbols) /\ <<d>> \in Seq(Symbols) /\ <<c, d>> \in Seq(Symbols)
  OBVIOUS
<1>2. PICK s \in Seq(Symbols) : s = <<c>>
  BY <1>1
<1>3. PICK t \in Seq(Symbols) : t = <<d>>
  BY <1>1
<1>4. PICK u \in Seq(Symbols) : u = <<c, d>>
  BY <1>1
<1>5. Len(s) = 1 /\ s[1] = c /\ Len(t) = 1 /\ t[1] = d /\ Len(u) = 2 /\ u[1] = c /\ u[2] = d
  BY <1>2, <1>3, <1>4
<1>6. Joined(s, t) = u
  BY <1>5, TwoJoined
<1> QED BY <1>1, <1>2, <1>3, <1>4, <1>6

LEMMA LaidTwo ==
  ASSUME NEW b \in Seq(Symbols), NEW i, NEW k, NEW c \in Symbols, NEW d \in Symbols, Laid(b, i, k, <<c, d>>)
  PROVE  i \in Nat /\ k = i + 2 /\ k <= Len(b) /\ b[i + 1] = c /\ b[i + 2] = d
<1>1. PICK s \in Seq(Symbols), t \in Seq(Symbols) : s = <<c>> /\ t = <<d>>
  BY PairJoined, Zenon
<1>2. <<c, d>> = Joined(s, t)
  BY <1>1, PairJoined, Zenon
<1>3. PICK m : Laid(b, i, m, s) /\ Laid(b, m, k, t)
  BY <1>2, LaidJoined
<1>4. i \in Nat /\ m = i + 1 /\ b[i + 1] = c
  BY <1>1, <1>3, LaidOne
<1>5. k = m + 1 /\ k <= Len(b) /\ b[m + 1] = d
  BY <1>1, <1>3, LaidOne
<1> QED BY <1>4, <1>5

\* A field of the request is heard, unless something of its name is known.
LineTold(f, h, e, field) ==
  /\ f[e].cs = At("header")
  /\ Said(f[e].params) = Told1(Said(f[h].params), field.name, field.value)

LEMMA LineRead ==
  ASSUME NEW b \in Seq(Symbols), NEW f, Trace(f, b), NEW h, NEW field, MessageHeader(field),
         NEW e, Laid(b, h, e, Line(field)), f[h].cs = At("header")
  PROVE  LineTold(f, h, e, field)
<1>1. TokenChars \subseteq Symbols /\ ValueChars \subseteq Symbols
  BY DEF TokenChars, ValueChars, Symbols
<1>2. ":" \in Symbols /\ "SP" \in Symbols /\ "CR" \in Symbols /\ "LF" \in Symbols
  BY DEF Symbols, CTL
<1>3. PICK name \in Seq(TokenChars), pad \in Seq({"SP"}), value \in Seq(ValueChars) :
        /\ name = field.name /\ pad = field.pad /\ value = field.value /\ name # <<>>
        /\ value # <<>> => value[1] # "SP"
  BY DEF MessageHeader
<1>4. name \in Seq(Symbols) /\ pad \in Seq(Symbols) /\ value \in Seq(Symbols)
  BY <1>1, <1>2
<1>5. <<":">> \in Seq(Symbols) /\ <<"CR", "LF">> \in Seq(Symbols)
  BY <1>2
<1>6. PICK colon \in Seq(Symbols), eol \in Seq(Symbols) : colon = <<":">> /\ eol = <<"CR", "LF">>
  BY <1>5
<1>7. PICK s1, s2, s3 : s1 = Joined(name, colon) /\ s2 = Joined(s1, pad) /\ s3 = Joined(s2, value)
  OBVIOUS
<1>8. s1 \in Seq(Symbols) /\ s2 \in Seq(Symbols) /\ s3 \in Seq(Symbols)
  BY <1>4, <1>6, <1>7, JoinedIs
<1>9. Line(field) = Joined(s3, eol)
  BY <1>3, <1>6, <1>7 DEF Line, Joined
<1>10. PICK x : Laid(b, h, x, s3) /\ Laid(b, x, e, eol)
  BY <1>6, <1>8, <1>9, LaidJoined
<1>11. PICK w : Laid(b, h, w, s2) /\ Laid(b, w, x, value)
  BY <1>4, <1>7, <1>8, <1>10, LaidJoined
<1>12. PICK m : Laid(b, h, m, s1) /\ Laid(b, m, w, pad)
  BY <1>4, <1>7, <1>8, <1>11, LaidJoined
<1>13. PICK n : Laid(b, h, n, name) /\ Laid(b, n, m, colon)
  BY <1>4, <1>6, <1>7, <1>12, LaidJoined
<1>14. n \in Nat /\ m = n + 1 /\ b[n + 1] = ":"
  BY <1>6, <1>13, LaidOne
<1>15. e = x + 2 /\ x + 2 <= Len(b) /\ b[x + 1] = "CR" /\ b[x + 2] = "LF"
  <2>1. PICK cr \in Symbols, lf \in Symbols : cr = "CR" /\ lf = "LF"
    BY <1>2
  <2>2. Laid(b, x, e, <<cr, lf>>)
    BY <1>6, <1>10, <2>1
  <2> QED BY <2>1, <2>2, LaidTwo
<1>16. h \in Nat /\ h <= n /\ \A j \in h + 1 .. n : b[j] \in TokenChars
  BY <1>13, LaidIs
<1>17. w \in Nat /\ m <= w /\ \A j \in m + 1 .. w : b[j] \in {"SP"}
  BY <1>12, LaidIs
<1>18. x \in Nat /\ w <= x /\ \A j \in w + 1 .. x : b[j] \in ValueChars /\ b[j] = value[j - w]
  BY <1>11, LaidIs
<1>19. h < n
  <2>1. Len(name) # 0 /\ Len(name) \in Nat
    BY <1>3
  <2> QED BY <1>13, <1>16, <2>1 DEF Laid
<1>20. x > w => b[w + 1] # "SP"
  <2>1. x > w => value # <<>>
    <3>1. value = <<>> => Len(value) = 0
      OBVIOUS
    <3>2. x = w + Len(value)
      BY <1>11 DEF Laid
    <3> QED BY <1>17, <3>1, <3>2
  <2>2. x > w => w + 1 \in w + 1 .. x /\ (w + 1) - w = 1
    BY <1>17, <1>18
  <2> QED BY <1>3, <1>18, <2>1, <2>2
<1>21. n < w /\ \A j \in n + 2 .. w : b[j] = "SP"
  BY <1>14, <1>17
<1>22. /\ f[x + 2].cs = At("header")
       /\ Said(f[x + 2].params) = Told1(Said(f[h].params), Text(b, h, n - h), Text(b, w, x - w))
  <2>1. FieldAt(b, h, n, w, x)
    BY <1>14, <1>15, <1>16, <1>17, <1>18, <1>19, <1>20, <1>21 DEF FieldAt
  <2>2. FieldTold(b, f, h, n, w, x)
    BY <2>1, FieldRead, Zenon
  <2> QED BY <2>2 DEF FieldTold
<1>23. Text(b, h, n - h) = name /\ Text(b, w, x - w) = value
  BY <1>4, <1>11, <1>13, LaidText
<1> QED BY <1>3, <1>15, <1>22, <1>23 DEF LineTold

LEMMA LineIs ==
  ASSUME NEW field, MessageHeader(field)
  PROVE  Line(field) \in Seq(Symbols)
<1>1. TokenChars \subseteq Symbols /\ ValueChars \subseteq Symbols /\ {"SP"} \subseteq Symbols
  BY DEF TokenChars, ValueChars, Symbols
<1>2. PICK name \in Seq(Symbols), pad \in Seq(Symbols), value \in Seq(Symbols) :
        name = field.name /\ pad = field.pad /\ value = field.value
  BY <1>1 DEF MessageHeader
<1>3. <<":">> \in Seq(Symbols) /\ <<"CR", "LF">> \in Seq(Symbols)
  <2>1. ":" \in Symbols /\ "CR" \in Symbols /\ "LF" \in Symbols
    BY DEF Symbols, CTL
  <2> QED BY <2>1
<1>4. PICK colon \in Seq(Symbols), eol \in Seq(Symbols) : colon = <<":">> /\ eol = <<"CR", "LF">>
  BY <1>3
<1>5. PICK s1, s2, s3, s4 :
        s1 = Joined(name, colon) /\ s2 = Joined(s1, pad) /\ s3 = Joined(s2, value) /\ s4 = Joined(s3, eol)
  OBVIOUS
<1>6. s4 \in Seq(Symbols)
  BY <1>2, <1>4, <1>5, JoinedIs
<1>7. s4 = Line(field)
  BY <1>2, <1>4, <1>5 DEF Line, Joined
<1> QED BY <1>6, <1>7

\* What is known once the first n fields have been read.
Unheard(M, fields, i) ==
  (\A m \in M : m[1] # fields[i].name) /\ \A j \in 1 .. i - 1 : fields[j].name # fields[i].name

FieldsMeant(M, fields, n) ==
  M \cup {<<fields[i].name, fields[i].value>> : i \in {i \in 1 .. n : Unheard(M, fields, i)}}

LEMMA FieldsMeantNext ==
  ASSUME NEW M, NEW fields, NEW n \in Nat
  PROVE  Told1(FieldsMeant(M, fields, n), fields[n + 1].name, fields[n + 1].value)
           = FieldsMeant(M, fields, n + 1)
<1> DEFINE Old == FieldsMeant(M, fields, n)
           New == FieldsMeant(M, fields, n + 1)
<1>1. PICK name, value : name = fields[n + 1].name /\ value = fields[n + 1].value
  OBVIOUS
<1>2. Unheard(M, fields, n + 1) => New = Old \cup {<<name, value>>}
  BY <1>1 DEF FieldsMeant
<1>3. ~Unheard(M, fields, n + 1) => New = Old
  BY DEF FieldsMeant
<1>4. ASSUME NEW m \in Old, m[1] = name PROVE ~Unheard(M, fields, n + 1)
  <2>1. CASE m \in M
    BY <1>1, <1>4, <2>1 DEF Unheard
  <2>2. CASE m \notin M
    <3>1. PICK i \in 1 .. n : m = <<fields[i].name, fields[i].value>>
      BY <2>2 DEF FieldsMeant
    <3>2. fields[i].name = name /\ i \in 1 .. (n + 1) - 1
      BY <1>4, <3>1
    <3> QED BY <1>1, <3>2 DEF Unheard
  <2> QED BY <2>1, <2>2
<1>5. ASSUME \A m \in Old : m[1] # name PROVE Unheard(M, fields, n + 1)
  <2>1. \A m \in M : m[1] # name
    BY <1>5 DEF FieldsMeant
  <2>2. ASSUME NEW k \in 1 .. n, fields[k].name = name PROVE FALSE
    <3> DEFINE S == {j \in 1 .. n : fields[j].name = name}
    <3>1. PICK j \in S : \A i \in S : j <= i
      <4>1. S \in SUBSET Nat /\ S # {}
        BY <2>2
      <4> HIDE DEF S
      <4> QED BY <4>1, LeastNumber
    <3>2. \A i \in 1 .. j - 1 : fields[i].name # fields[j].name
      <4>1. \A i \in 1 .. j - 1 : i \in 1 .. n /\ ~(j <= i)
        BY <3>1
      <4> QED BY <3>1, <4>1
    <3>3. Unheard(M, fields, j)
      BY <2>1, <3>1, <3>2 DEF Unheard
    <3>4. <<fields[j].name, fields[j].value>> \in Old
      BY <3>1, <3>3 DEF FieldsMeant
    <3>5. <<fields[j].name, fields[j].value>>[1] = name
      BY <3>1
    <3> QED BY <1>5, <3>4, <3>5
  <2>3. (n + 1) - 1 = n
    OBVIOUS
  <2> QED BY <1>1, <2>1, <2>2, <2>3 DEF Unheard
<1> HIDE DEF Old, New
<1>6. Told1(Old, name, value) = New
  <2>1. CASE \E m \in Old : m[1] = name
    <3>1. New = Old
      BY <1>3, <1>4, <2>1
    <3> QED BY <2>1, <3>1 DEF Told1
  <2>2. CASE ~\E m \in Old : m[1] = name
    <3>1. New = Old \cup {<<name, value>>}
      BY <1>2, <1>5, <2>2
    <3> QED BY <2>2, <3>1 DEF Told1
  <2> QED BY <2>1, <2>2
<1> QED BY <1>1, <1>6 DEF Old, New

LEMMA LaidNothing ==
  ASSUME NEW b, NEW i, NEW k, Laid(b, i, k, <<>>)
  PROVE  k = i
<1>1. Len(<<>>) = 0
  OBVIOUS
<1> QED BY <1>1 DEF Laid

\* All fields.
FieldLines(fields) == [i \in DOMAIN fields |-> Line(fields[i])]

LEMMA FieldLinesAre ==
  ASSUME NEW S, NEW fields \in Seq(S), \A i \in DOMAIN fields : MessageHeader(fields[i])
  PROVE  /\ FieldLines(fields) \in Seq(Seq(Symbols)) /\ Len(FieldLines(fields)) = Len(fields)
         /\ \A i \in 1 .. Len(fields) : FieldLines(fields)[i] = Line(fields[i])
<1>1. PICK N \in Nat : N = Len(fields) /\ DOMAIN fields = 1 .. N
  OBVIOUS
<1>2. \A i \in 1 .. N : Line(fields[i]) \in Seq(Symbols)
  BY <1>1, LineIs
<1>3. PICK p : p = FieldLines(fields) /\ p = [i \in 1 .. N |-> Line(fields[i])]
  BY <1>1 DEF FieldLines
<1>4. p \in [1 .. N -> Seq(Symbols)]
  BY <1>2, <1>3
<1>5. p \in Seq(Seq(Symbols)) /\ Len(p) = N
  BY <1>4, SeqDef
<1>6. \A i \in 1 .. N : p[i] = Line(fields[i])
  BY <1>3
<1> QED BY <1>1, <1>3, <1>5, <1>6

\* The parser behind the first n fields, which are the text t.
FieldsTold(b, f, h, t, M, fields, n) ==
  \A k : Laid(b, h, k, t) =>
    f[k].cs = At("header") /\ Said(f[k].params) = FieldsMeant(M, fields, n)

LEMMA FieldsNext ==
  ASSUME NEW b \in Seq(Symbols), NEW f, Trace(f, b), NEW h, NEW t \in Seq(Symbols), NEW M,
         NEW fields, NEW n \in Nat, FieldsTold(b, f, h, t, M, fields, n),
         NEW field, field = fields[n + 1], MessageHeader(field)
  PROVE  FieldsTold(b, f, h, Joined(t, Line(field)), M, fields, n + 1)
<1> SUFFICES ASSUME NEW k, Laid(b, h, k, Joined(t, Line(field)))
             PROVE  f[k].cs = At("header") /\ Said(f[k].params) = FieldsMeant(M, fields, n + 1)
  BY DEF FieldsTold
<1>1. Line(field) \in Seq(Symbols)
  BY LineIs
<1>2. PICK m : Laid(b, h, m, t) /\ Laid(b, m, k, Line(field))
  BY <1>1, LaidJoined
<1>3. f[m].cs = At("header") /\ Said(f[m].params) = FieldsMeant(M, fields, n)
  BY <1>2 DEF FieldsTold
<1>4. /\ f[k].cs = At("header")
      /\ Said(f[k].params) = Told1(FieldsMeant(M, fields, n), field.name, field.value)
  <2>1. LineTold(f, m, k, field)
    BY <1>2, <1>3, LineRead
  <2> QED BY <1>3, <2>1 DEF LineTold
<1> QED BY <1>4, FieldsMeantNext

LEMMA FieldsRead ==
  ASSUME NEW b \in Seq(Symbols), NEW f, Trace(f, b), NEW h, NEW M, f[h].cs = At("header"),
         Said(f[h].params) = M, NEW S, NEW fields \in Seq(S),
         \A i \in DOMAIN fields : MessageHeader(fields[i]),
         NEW z, Laid(b, h, z, FlattenSeq(FieldLines(fields)))
  PROVE  f[z].cs = At("header") /\ Said(f[z].params) = FieldsMeant(M, fields, Len(fields))
<1>1. PICK N \in Nat : N = Len(fields) /\ \A i \in 1 .. N : MessageHeader(fields[i])
  OBVIOUS
<1>2. PICK p : p = FieldLines(fields)
  OBVIOUS
<1>3. p \in Seq(Seq(Symbols)) /\ Len(p) = N /\ \A i \in 1 .. N : p[i] = Line(fields[i])
  BY <1>1, <1>2, FieldLinesAre
<1>4. PICK g : Flattens(p, g) /\ FlattenSeq(p) = g[Len(p)] /\ \A i \in 0 .. Len(p) : g[i] \in Seq(Symbols)
  BY <1>3, FlattenSteps
<1> DEFINE Read == {n \in Nat : FieldsTold(b, f, h, g[n], M, fields, n)}
<1>5. 0 \in Read
  <2>1. g[0] = <<>>
    BY <1>4 DEF Flattens
  <2>2. FieldsMeant(M, fields, 0) = M
    BY DEF FieldsMeant
  <2>3. ASSUME NEW k, Laid(b, h, k, <<>>)
        PROVE  f[k].cs = At("header") /\ Said(f[k].params) = FieldsMeant(M, fields, 0)
    <3>1. k = h
      BY <2>3, LaidNothing
    <3> QED BY <2>2, <3>1
  <2>4. FieldsTold(b, f, h, <<>>, M, fields, 0)
    BY <2>3 DEF FieldsTold
  <2> QED BY <2>1, <2>4
<1>6. ASSUME NEW n \in 0 .. N - 1, n \in Read PROVE n + 1 \in Read
  <2>1. n \in Nat /\ n \in 0 .. Len(p) /\ n + 1 \in 1 .. N /\ (n + 1) - 1 = n /\ n + 1 \in Nat
    BY <1>1, <1>3
  <2>2. PICK field : field = fields[n + 1] /\ MessageHeader(field)
    BY <1>1, <2>1
  <2>3. g[n + 1] = Joined(g[n], Line(field)) /\ g[n] \in Seq(Symbols)
    BY <1>3, <1>4, <2>1, <2>2 DEF Flattens
  <2>4. FieldsTold(b, f, h, g[n], M, fields, n)
    BY <1>6
  <2>5. FieldsTold(b, f, h, Joined(g[n], Line(field)), M, fields, n + 1)
    BY <2>1, <2>2, <2>3, <2>4, FieldsNext
  <2> QED BY <2>1, <2>3, <2>5
<1>7. N \in Read
  <2> HIDE DEF Read
  <2>1. 0 .. N \subseteq Read
    BY <1>1, <1>5, <1>6, Upward, 0 \in Nat
  <2> QED BY <1>1, <2>1
<1>8. Laid(b, h, z, g[N])
  BY <1>2, <1>3, <1>4
<1> QED BY <1>1, <1>7, <1>8 DEF FieldsTold

LEMMA LaidSpelt ==
  ASSUME NEW b \in Seq(Symbols), NEW i, NEW k, NEW t \in Seq(Symbols), Laid(b, i, k, t),
         NEW n \in Nat, NEW chars, Escaped(t, n, chars)
  PROVE  Spelt(b, i + n, k, chars)
<1>1. i \in Nat /\ k \in Nat /\ \A j \in i + 1 .. k : b[j] = t[j - i]
  BY LaidIs
<1>2. PICK l \in Nat : l = Len(t)
  OBVIOUS
<1>3. k = i + l
  BY <1>2 DEF Laid
<1>4. \A j \in n + 1 .. l :
        IF t[j] = "%" THEN j + 2 <= l /\ t[j + 1] \in HexDigits /\ t[j + 2] \in HexDigits
        ELSE t[j] \in chars
  BY <1>2 DEF Escaped
<1>5. ASSUME NEW j \in (i + n) + 1 .. k
      PROVE  IF b[j] = "%" THEN j + 2 <= k /\ b[j + 1] \in HexDigits /\ b[j + 2] \in HexDigits
             ELSE b[j] \in chars
  <2>1. j - i \in n + 1 .. l /\ j \in i + 1 .. k /\ j \in Nat
    BY <1>1, <1>3
  <2>2. b[j] = t[j - i]
    BY <1>1, <2>1
  <2>3. CASE b[j] = "%"
    <3>1. (j - i) + 2 <= l /\ t[(j - i) + 1] \in HexDigits /\ t[(j - i) + 2] \in HexDigits
      BY <1>4, <2>1, <2>2, <2>3
    <3>2. /\ j + 2 <= k /\ j + 1 \in i + 1 .. k /\ j + 2 \in i + 1 .. k
          /\ (j + 1) - i = (j - i) + 1 /\ (j + 2) - i = (j - i) + 2
      BY <1>1, <1>3, <2>1, <3>1
    <3>3. b[j + 1] = t[(j - i) + 1] /\ b[j + 2] = t[(j - i) + 2]
      <4>1. b[j + 1] = t[(j + 1) - i] /\ b[j + 2] = t[(j + 2) - i]
        BY <1>1, <3>2
      <4> QED BY <3>2, <4>1, Zenon
    <3> QED BY <2>3, <3>1, <3>2, <3>3
  <2>4. CASE b[j] # "%"
    BY <1>4, <2>1, <2>2, <2>4
  <2> QED BY <2>3, <2>4
<1> QED BY <1>5 DEF Spelt

\* What is known once the URI has been read.
UriSaid(M, path, query, uri) ==
  M \cup {<<Names.request_uri, uri>>}
    \cup (IF Head(path) = "/" THEN {<<Names.request_path, path>>} ELSE {})
    \cup (IF query = <<>> THEN {} ELSE {<<Names.query_string, Tail(query)>>})

UriMeant(f, u, e, c, path, query, uri) ==
  /\ f[e + 1].cs = Behind(c)
  /\ Said(f[e + 1].params) = UriSaid(Said(f[u].params), path, query, uri)

LEMMA StarMeant ==
  ASSUME NEW b \in Seq(Symbols), NEW f, Trace(f, b), NEW u, NEW e, NEW path \in Seq(Symbols),
         path = <<"*">>, Laid(b, u, e, path), f[u].cs = At("uri"), NoUri(Said(f[u].params)),
         NEW c \in {"SP", "#"}, e + 1 <= Len(b), b[e + 1] = c
  PROVE  UriMeant(f, u, e, c, path, <<>>, path)
<1>1. PICK M : M = Said(f[u].params)
  OBVIOUS
<1>2. u \in Nat /\ e = u + 1 /\ b[u + 1] = "*"
  BY LaidOne
<1>3. (u + 1) + 1 = u + 2 /\ e - u = 1
  BY <1>2
<1>4. /\ f[u + 2].cs = Behind(c)
      /\ Said(f[u + 2].params) = M \cup {<<Names.request_uri, Text(b, u, 1)>>}
  BY <1>1, <1>2, <1>3, StarRead
<1>5. Text(b, u, 1) = path
  BY <1>3, LaidText
<1>6. Head(path) # "/"
  OBVIOUS
<1>7. UriSaid(M, path, <<>>, path) = M \cup {<<Names.request_uri, path>>}
  BY <1>6 DEF UriSaid
<1> QED BY <1>1, <1>2, <1>3, <1>4, <1>5, <1>7 DEF UriMeant

LEMMA OpaqueMeant ==
  ASSUME NEW b \in Seq(Symbols), NEW f, Trace(f, b), NEW u, NEW e, NEW path \in Seq(Symbols),
         AbsoluteUri(path), Laid(b, u, e, path), f[u].cs = At("uri"), NoUri(Said(f[u].params)),
         NEW c \in {"SP", "#"}, e + 1 <= Len(b), b[e + 1] = c
  PROVE  UriMeant(f, u, e, c, path, <<>>, path)
<1>1. PICK M : M = Said(f[u].params)
  OBVIOUS
<1>2. /\ u \in Nat /\ e \in Nat /\ \A j \in u + 1 .. e : b[j] = path[j - u]
  BY LaidIs
<1>3. PICK l \in Nat : l = Len(path) /\ DOMAIN path = 1 .. l
  OBVIOUS
<1>4. e = u + l
  BY <1>3 DEF Laid
<1>5. PICK n \in 1 .. l : path[n] = ":" /\ (\A i \in 1 .. n - 1 : path[i] \in SchemeChars) /\ Escaped(path, n, UriChars)
  BY <1>3 DEF AbsoluteUri
<1>6. PICK k \in u + 1 .. e : k = u + n
  BY <1>2, <1>4
<1>7. k \in Nat /\ b[k] = ":"
  <2>1. k - u = n
    BY <1>2, <1>6
  <2> QED BY <1>2, <1>5, <1>6, <2>1
<1>8. \A j \in u + 1 .. k - 1 : b[j] \in SchemeChars
  <2>1. ASSUME NEW j \in u + 1 .. k - 1 PROVE b[j] \in SchemeChars
    <3>1. j \in u + 1 .. e /\ j - u \in 1 .. n - 1
      BY <1>2, <1>6
    <3> QED BY <1>2, <1>5, <3>1
  <2> QED BY <2>1
<1>9. Spelt(b, k, e, UriChars)
  BY <1>5, <1>6, LaidSpelt
<1>10. PICK uri : uri = Text(b, u, e - u)
  OBVIOUS
<1>11. f[e + 1].cs = Behind(c) /\ Said(f[e + 1].params) = Told1(M, Names.request_uri, uri)
  BY <1>1, <1>2, <1>7, <1>8, <1>9, <1>10, OpaqueRead
<1>12. uri = path
  BY <1>10, LaidText
<1>13. Told1(M, Names.request_uri, uri) = M \cup {<<Names.request_uri, uri>>}
  BY <1>1, ToldUri, Zenon DEF UriTold
<1>14. Head(path) # "/"
  <2>1. path[1] # "/"
    <3>1. CASE n = 1
      BY <1>5, <3>1
    <3>2. CASE n # 1
      <4>1. 1 \in 1 .. n - 1
        BY <3>2
      <4>2. path[1] \in SchemeChars
        BY <1>5, <4>1
      <4> QED BY <4>2 DEF SchemeChars, Upper, Digits, Words
    <3> QED BY <3>1, <3>2
  <2> QED BY <1>3, <2>1
<1>15. UriSaid(M, path, <<>>, path) = M \cup {<<Names.request_uri, path>>}
  BY <1>14 DEF UriSaid
<1> QED BY <1>1, <1>11, <1>12, <1>13, <1>15 DEF UriMeant

\* The query with the "?" before it, if there is one.
QueryPart(query) == IF query = <<>> THEN <<>> ELSE <<"?">> \o Tail(query)

LEMMA QueryLaid ==
  ASSUME NEW b \in Seq(Symbols), NEW r, NEW e, NEW query \in Seq(Symbols),
         Laid(b, r, e, QueryPart(query)), query # <<>> => Escaped(Tail(query), 0, UriChars)
  PROVE  /\ e # r <=> query # <<>>
         /\ e # r => /\ b[r + 1] = "?" /\ Spelt(b, r + 1, e, UriChars)
                     /\ Text(b, r + 1, e - (r + 1)) = Tail(query)
<1>1. CASE query = <<>>
  <2>1. Laid(b, r, e, <<>>)
    BY <1>1 DEF QueryPart
  <2> QED BY <1>1, <2>1, LaidNothing
<1>2. CASE query # <<>>
  <2>1. <<"?">> \in Seq(Symbols) /\ Tail(query) \in Seq(Symbols)
    <3>1. "?" \in Symbols
      BY DEF Symbols
    <3>2. <<"?">> \in Seq(Symbols)
      BY <3>1
    <3>3. Tail(query) \in Seq(Symbols)
      BY <1>2
    <3> QED BY <3>2, <3>3
  <2>2. PICK mark \in Seq(Symbols), rest \in Seq(Symbols) : mark = <<"?">> /\ rest = Tail(query)
    BY <1>2, <2>1
  <2>3. Laid(b, r, e, Joined(mark, rest))
    BY <1>2, <2>2 DEF QueryPart, Joined
  <2>4. PICK m : Laid(b, r, m, mark) /\ Laid(b, m, e, rest)
    BY <2>2, <2>3, LaidJoined
  <2>5. r \in Nat /\ m = r + 1 /\ b[r + 1] = "?"
    BY <2>2, <2>4, LaidOne
  <2>6. m <= e /\ e \in Nat
    BY <2>2, <2>4, LaidIs
  <2>7. Spelt(b, m + 0, e, UriChars)
    BY <1>2, <2>2, <2>4, LaidSpelt
  <2>8. Text(b, m, e - m) = rest
    BY <2>2, <2>4, LaidText
  <2>9. m + 0 = m /\ e # r
    BY <2>5, <2>6
  <2> QED BY <1>2, <2>2, <2>5, <2>7, <2>8, <2>9
<1> QED BY <1>1, <1>2

RelativeUri(path, params, query) ==
  /\ path # <<>> /\ path[1] = "/" /\ Escaped(path, 1, PathChars)
  /\ params # <<>> => params[1] = Semicolon /\ Escaped(params, 1, ParamChars)
  /\ query # <<>> => Escaped(Tail(query), 0, UriChars)

\* It stands between u and e in b.
UriLaid(b, u, e, path, params, query, uri) ==
  /\ uri = Joined(Joined(path, params), QueryPart(query)) /\ QueryPart(query) \in Seq(Symbols)
  /\ Laid(b, u, e, uri)

\* The parser is before it, and c is behind it.
UriAhead(b, f, u, e, c) ==
  f[u].cs = At("uri") /\ NoUri(Said(f[u].params)) /\ e + 1 <= Len(b) /\ b[e + 1] = c

LEMMA RelativeMeant ==
  ASSUME NEW b \in Seq(Symbols), NEW f, Trace(f, b), NEW u, NEW e, NEW path \in Seq(Symbols),
         NEW params \in Seq(Symbols), NEW query \in Seq(Symbols),
         NEW uri \in Seq(Symbols), RelativeUri(path, params, query),
         UriLaid(b, u, e, path, params, query, uri), NEW c \in {"SP", "#"}, UriAhead(b, f, u, e, c)
  PROVE  UriMeant(f, u, e, c, path, query, uri)
<1> USE DEF RelativeUri, UriLaid, UriAhead
<1>1. PICK M : M = Said(f[u].params)
  OBVIOUS
<1>2. Joined(path, params) \in Seq(Symbols)
  BY JoinedIs
<1>3. PICK r : Laid(b, u, r, Joined(path, params)) /\ Laid(b, r, e, QueryPart(query))
  BY <1>2, LaidJoined
<1>4. PICK p : Laid(b, u, p, path) /\ Laid(b, p, r, params)
  BY <1>3, LaidJoined
<1>5. /\ u \in Nat /\ p \in Nat /\ r \in Nat /\ e \in Nat /\ u <= p /\ p <= r /\ r <= e
      /\ \A j \in u + 1 .. p : b[j] = path[j - u]
      /\ \A j \in p + 1 .. r : b[j] = params[j - p]
  BY <1>3, <1>4, LaidIs
<1>6. p \in u + 1 .. e /\ b[u + 1] = "/"
  <2>1. Len(path) \in Nat /\ Len(path) # 0
    OBVIOUS
  <2>2. u + 1 \in u + 1 .. p /\ (u + 1) - u = 1
    BY <1>4, <1>5, <2>1 DEF Laid
  <2>3. b[u + 1] = path[(u + 1) - u]
    BY <1>5, <2>2
  <2> QED BY <1>5, <2>2, <2>3
<1>7. Spelt(b, u + 1, p, PathChars)
  BY <1>4, LaidSpelt
<1>8. r # p => b[p + 1] = Semicolon /\ Spelt(b, p + 1, r, ParamChars)
  <2> SUFFICES ASSUME r # p PROVE b[p + 1] = Semicolon /\ Spelt(b, p + 1, r, ParamChars)
    OBVIOUS
  <2>1. params # <<>>
    BY <1>4, LaidNothing
  <2>2. p + 1 \in p + 1 .. r /\ (p + 1) - p = 1
    BY <1>5
  <2>3. b[p + 1] = params[(p + 1) - p]
    BY <1>5, <2>2
  <2>4. Escaped(params, 1, ParamChars) /\ params[1] = Semicolon
    BY <2>1
  <2>5. Spelt(b, p + 1, r, ParamChars)
    BY <1>4, <2>4, LaidSpelt
  <2> QED BY <2>2, <2>3, <2>4, <2>5
<1>9. /\ e # r <=> query # <<>>
      /\ e # r => /\ b[r + 1] = "?" /\ Spelt(b, r + 1, e, UriChars)
                  /\ Text(b, r + 1, e - (r + 1)) = Tail(query)
  BY <1>3, QueryLaid
<1>10. PICK tu, tp, tq : tu = Text(b, u, e - u) /\ tp = Text(b, u, p - u) /\ tq = Text(b, r + 1, e - (r + 1))
  OBVIOUS
<1>11. /\ f[e + 1].cs = Behind(c)
       /\ Said(f[e + 1].params) =
            IF e # r
            THEN M \cup {<<Names.request_path, tp>>} \cup {<<Names.query_string, tq>>}
                   \cup {<<Names.request_uri, tu>>}
            ELSE M \cup {<<Names.request_path, tp>>} \cup {<<Names.request_uri, tu>>}
  <2>1. r \in p .. e
    BY <1>5
  <2>2. RelativeTold(b, f, u, e, p, r, c)
    BY <1>5, <1>6, <1>7, <1>8, <1>9, <2>1, RelativeRead, Zenon
  <2> QED BY <1>1, <1>10, <2>2 DEF RelativeTold
<1>12. tu = uri /\ tp = path
  BY <1>4, <1>10, LaidText
<1>13. Head(path) = "/"
  OBVIOUS
<1>14. UriSaid(M, path, query, uri) =
         IF e # r
         THEN M \cup {<<Names.request_path, tp>>} \cup {<<Names.query_string, tq>>}
                \cup {<<Names.request_uri, tu>>}
         ELSE M \cup {<<Names.request_path, tp>>} \cup {<<Names.request_uri, tu>>}
  <2>1. CASE e # r
    <3>1. query # <<>> /\ tq = Tail(query)
      BY <1>9, <1>10, <2>1
    <3>2. UriSaid(M, path, query, uri) = M \cup {<<Names.request_uri, tu>>}
             \cup {<<Names.request_path, tp>>} \cup {<<Names.query_string, tq>>}
      BY <1>12, <1>13, <3>1 DEF UriSaid
    <3> QED BY <2>1, <3>2
  <2>2. CASE e = r
    <3>1. query = <<>>
      BY <1>9, <2>2
    <3>2. UriSaid(M, path, query, uri) = M \cup {<<Names.request_uri, tu>>} \cup {<<Names.request_path, tp>>}
      BY <1>12, <1>13, <3>1 DEF UriSaid
    <3> QED BY <2>2, <3>2
  <2> QED BY <2>1, <2>2
<1> QED BY <1>1, <1>11, <1>14 DEF UriMeant

\* RequestUri, of its parts.
UriParts(path, params, query) ==
  \/ (path = <<"*">> \/ AbsoluteUri(path)) /\ params = <<>> /\ query = <<>>
  \/ RelativeUri(path, params, query)

LEMMA PartsRead ==
  ASSUME NEW b \in Seq(Symbols), NEW f, Trace(f, b), NEW u, NEW e,
         NEW path \in Seq(Symbols), NEW params \in Seq(Symbols), NEW query \in Seq(Symbols),
         UriParts(path, params, query),
         NEW uri \in Seq(Symbols), UriLaid(b, u, e, path, params, query, uri),
         NEW c \in {"SP", "#"}, UriAhead(b, f, u, e, c)
  PROVE  UriMeant(f, u, e, c, path, query, uri)
<1> USE DEF UriParts
<1>1. CASE (path = <<"*">> \/ AbsoluteUri(path)) /\ params = <<>> /\ query = <<>>
  <2>1. uri = path
    <3>1. QueryPart(query) = <<>>
      BY <1>1 DEF QueryPart
    <3>2. Joined(path, <<>>) = path
      BY JoinedNothing, Zenon
    <3> QED BY <1>1, <3>1, <3>2, Zenon DEF UriLaid
  <2>2. Laid(b, u, e, path)
    BY <2>1 DEF UriLaid
  <2>3. UriMeant(f, u, e, c, path, <<>>, path)
    BY <1>1, <2>2, StarMeant, OpaqueMeant, Zenon DEF UriAhead
  <2> QED BY <1>1, <2>1, <2>3
<1>2. CASE RelativeUri(path, params, query)
  BY <1>2, RelativeMeant
<1> QED BY <1>1, <1>2

LEMMA PartIs ==
  ASSUME NEW c \in Symbols, NEW t \in Seq(Symbols), t # <<>>
  PROVE  <<c>> \o Tail(t) \in Seq(Symbols)
<1>1. <<c>> \in Seq(Symbols) /\ Tail(t) \in Seq(Symbols)
  <2>1. <<c>> \in Seq(Symbols)
    OBVIOUS
  <2>2. Tail(t) \in Seq(Symbols)
    OBVIOUS
  <2> QED BY <2>1, <2>2
<1>2. PICK mark \in Seq(Symbols), rest \in Seq(Symbols) : mark = <<c>> /\ rest = Tail(t)
  BY <1>1
<1>3. Joined(mark, rest) \in Seq(Symbols)
  BY JoinedIs
<1> QED BY <1>2, <1>3 DEF Joined

LEMMA QueryPartIs == ASSUME NEW query \in Seq(Symbols) PROVE QueryPart(query) \in Seq(Symbols)
<1>1. "?" \in Symbols
  BY DEF Symbols
<1>2. CASE query = <<>>
  BY <1>2 DEF QueryPart
<1>3. CASE query # <<>>
  BY <1>1, <1>3, PartIs, Zenon DEF QueryPart
<1> QED BY <1>2, <1>3

UriIsText(a) == {a.path, a.params, a.query} \subseteq Seq(Symbols)

LEMMA UriIs ==
  ASSUME NEW a, UriIsText(a)
  PROVE  Uri(a) \in Seq(Symbols)
<1>1. PICK path \in Seq(Symbols), params \in Seq(Symbols), query \in Seq(Symbols) :
        path = a.path /\ params = a.params /\ query = a.query
  BY DEF UriIsText
<1>2. Uri(a) = Joined(Joined(path, params), QueryPart(query))
  BY <1>1, Zenon DEF Uri, Joined, QueryPart
<1> QED BY <1>2, QueryPartIs, JoinedIs

LEMMA UriRead ==
  ASSUME NEW b \in Seq(Symbols), NEW f, Trace(f, b), NEW u, NEW e, NEW a,
         UriIsText(a), RequestUri(a),
         Laid(b, u, e, Uri(a)), NEW c \in {"SP", "#"}, UriAhead(b, f, u, e, c)
  PROVE  UriMeant(f, u, e, c, a.path, a.query, Uri(a))
<1>1. PICK path \in Seq(Symbols), params \in Seq(Symbols), query \in Seq(Symbols) :
        path = a.path /\ params = a.params /\ query = a.query
  BY DEF UriIsText
<1>2. UriParts(path, params, query)
  BY <1>1, Zenon DEF RequestUri, RelativeUri, UriParts, Semicolon
<1>3. Uri(a) = Joined(Joined(path, params), QueryPart(query))
  BY <1>1, Zenon DEF Uri, Joined, QueryPart
<1>4. Uri(a) \in Seq(Symbols)
  BY UriIs
<1>5. PICK uri \in Seq(Symbols) : uri = Uri(a)
  BY <1>4
<1>6. UriLaid(b, u, e, path, params, query, uri)
  BY <1>3, <1>5, QueryPartIs DEF UriLaid
<1>7. UriMeant(f, u, e, c, path, query, uri)
  BY <1>2, <1>6, PartsRead
<1> QED BY <1>1, <1>5, <1>7

\* The fragment with the "#" before it, if there is one.
FragmentPart(fragment) == IF fragment = <<>> THEN <<>> ELSE <<"#">> \o Tail(fragment)

FragmentSaid(fragment) == IF fragment = <<>> THEN {} ELSE {<<Names.fragment, Tail(fragment)>>}

\* What stands between the method and the version.
TargetMeant(f, u, g, path, query, fragment, uri) ==
  /\ f[g + 1].cs = At("version")
  /\ Said(f[g + 1].params) = UriSaid(Said(f[u].params), path, query, uri) \cup FragmentSaid(fragment)

LEMMA TargetRead ==
  ASSUME NEW b \in Seq(Symbols), NEW f, Trace(f, b), NEW u, NEW e, NEW g, NEW a,
         UriIsText(a), a.fragment \in Seq(Symbols), RequestUri(a),
         a.fragment # <<>> => Escaped(Tail(a.fragment), 0, UriChars),
         Laid(b, u, e, Uri(a)), Laid(b, e, g, FragmentPart(a.fragment)), g + 1 <= Len(b), b[g + 1] = "SP",
         f[u].cs = At("uri"), NoUri(Said(f[u].params)),
         \A m \in Said(f[u].params) : m[1] # Names.fragment
  PROVE  TargetMeant(f, u, g, a.path, a.query, a.fragment, Uri(a))
<1>0. PICK fragment \in Seq(Symbols) : fragment = a.fragment
  OBVIOUS
<1>1. PICK path, query, uri :
        fragment = a.fragment /\ path = a.path /\ query = a.query /\ uri = Uri(a)
  BY <1>0
<1>2. CASE fragment = <<>>
  <2>1. Laid(b, e, g, <<>>)
    BY <1>1, <1>2 DEF FragmentPart
  <2>2. g = e
    BY <2>1, LaidNothing
  <2>3. PICK c \in {"SP", "#"} : c = "SP"
    OBVIOUS
  <2>4. UriMeant(f, u, e, c, a.path, a.query, Uri(a))
    <3>1. UriAhead(b, f, u, e, c)
      BY <2>2, <2>3 DEF UriAhead
    <3> QED BY <3>1, UriRead
  <2> QED BY <1>1, <1>2, <2>2, <2>3, <2>4 DEF UriMeant, TargetMeant, FragmentSaid, Behind
<1>3. CASE fragment # <<>>
  <2>1. <<"#">> \in Seq(Symbols) /\ Tail(fragment) \in Seq(Symbols)
    <3>1. "#" \in Symbols
      BY DEF Symbols
    <3>2. <<"#">> \in Seq(Symbols)
      BY <3>1
    <3>3. Tail(fragment) \in Seq(Symbols)
      BY <1>3
    <3> QED BY <3>2, <3>3
  <2>2. PICK mark \in Seq(Symbols), rest \in Seq(Symbols) : mark = <<"#">> /\ rest = Tail(fragment)
    BY <2>1
  <2>3. Laid(b, e, g, Joined(mark, rest))
    BY <1>1, <1>3, <2>2 DEF FragmentPart, Joined
  <2>4. PICK h : Laid(b, e, h, mark) /\ Laid(b, h, g, rest)
    BY <2>2, <2>3, LaidJoined
  <2>5. e \in Nat /\ h = e + 1 /\ e + 1 <= Len(b) /\ b[e + 1] = "#"
    BY <2>2, <2>4, LaidOne
  <2>6. h \in Nat /\ g \in Nat /\ h <= g /\ g <= Len(b)
    BY <2>2, <2>4, LaidIs
  <2>7. PICK c \in {"SP", "#"} : c = "#"
    OBVIOUS
  <2>8. UriMeant(f, u, e, c, a.path, a.query, Uri(a))
    <3>1. UriAhead(b, f, u, e, c)
      BY <2>5, <2>7 DEF UriAhead
    <3> QED BY <3>1, UriRead
  <2>9. f[h].cs = At("fragment0") /\ Said(f[h].params) = UriSaid(Said(f[u].params), path, query, uri)
    BY <1>1, <2>5, <2>7, <2>8 DEF UriMeant, Behind
  <2>10. Spelt(b, h, g, UriChars)
    <3>1. Escaped(rest, 0, UriChars)
      BY <1>1, <1>3, <2>2
    <3>2. Spelt(b, h + 0, g, UriChars)
      BY <2>2, <2>4, <3>1, LaidSpelt
    <3> QED BY <2>6, <3>2
  <2>11. PICK M, t : M = Said(f[h].params) /\ t = Text(b, h, g - h)
    OBVIOUS
  <2>12. f[g + 1].cs = At("version") /\ Said(f[g + 1].params) = Told1(M, Names.fragment, t)
    <3>1. g \in h .. Len(b)
      BY <2>6
    <3> QED BY <2>6, <2>9, <2>10, <2>11, <3>1, FragmentRead
  <2>13. t = rest
    BY <2>2, <2>4, <2>11, LaidText
  <2>14. \A m \in M : m[1] # Names.fragment
    <3>1. /\ Names.fragment # Names.request_path /\ Names.fragment # Names.request_uri
          /\ Names.fragment # Names.query_string
      BY DEF Names
    <3> QED BY <2>9, <2>11, <3>1 DEF UriSaid
  <2>15. Said(f[g + 1].params) = M \cup {<<Names.fragment, t>>}
    BY <2>12, <2>14, ToldNew
  <2> QED BY <1>1, <1>3, <2>2, <2>9, <2>11, <2>12, <2>13, <2>15 DEF TargetMeant, FragmentSaid
<1> QED BY <1>2, <1>3

LEMMA FragmentPartIs ==
  ASSUME NEW fragment \in Seq(Symbols) PROVE FragmentPart(fragment) \in Seq(Symbols)
<1>1. "#" \in Symbols
  BY DEF Symbols
<1>2. CASE fragment = <<>>
  BY <1>2 DEF FragmentPart
<1>3. CASE fragment # <<>>
  BY <1>1, <1>3, PartIs, Zenon DEF FragmentPart
<1> QED BY <1>2, <1>3

\* The version, of which LF is the next character but one.
VersionTold(f, v, e, version) ==
  /\ f[e + 2].cs = At("header")
  /\ Said(f[e + 2].params) = Told1(Said(f[v].params), Names.http_version, version)

LEMMA LineEnds ==
  ASSUME NEW b \in Seq(Symbols), NEW f, Trace(f, b), NEW v, NEW e, NEW z,
         NEW version \in Seq(Symbols), HttpVersion(version),
         Laid(b, v, e, version), Laid(b, e, z, <<"CR", "LF">>), f[v].cs = At("version")
  PROVE  VersionTold(f, v, e, version)
<1>1. /\ v \in Nat /\ e \in Nat /\ e <= Len(b)
      /\ \A j \in v + 1 .. e : b[j] \in Symbols /\ b[j] = version[j - v]
  BY LaidIs
<1>2. PICK n \in Nat : n = Len(version) /\ e = v + n
  BY <1>1 DEF Laid
<1>3. PICK k \in 3 .. n - 1 : version[k] = "." /\ \A i \in (2 .. n) \ {k} : version[i] \in Digits
  BY <1>2 DEF HttpVersion
<1>4. PICK d \in Nat : d = v + k
  BY <1>1, <1>2
<1>5. "CR" \in Symbols /\ "LF" \in Symbols
  BY DEF Symbols, CTL
<1>6. b[e + 1] = "CR" /\ b[e + 2] = "LF" /\ e + 2 <= Len(b)
  BY <1>5, LaidTwo
<1>7. b[v + 1] = "HTTP/"
  <2>1. v + 1 \in v + 1 .. e /\ (v + 1) - v = 1
    BY <1>1, <1>2, <1>3
  <2>2. b[v + 1] = version[(v + 1) - v]
    BY <1>1, <2>1
  <2> QED BY <2>1, <2>2 DEF HttpVersion
<1>8. b[d] = "."
  <2>1. d \in v + 1 .. e /\ d - v = k
    BY <1>1, <1>2, <1>3, <1>4
  <2> QED BY <1>1, <1>3, <2>1
<1>9. ASSUME NEW j \in v + 2 .. e, j # d PROVE b[j] \in Digits
  <2>1. j - v \in (2 .. n) \ {k} /\ j \in v + 1 .. e
    BY <1>1, <1>2, <1>4, <1>9
  <2> QED BY <1>1, <1>3, <2>1
<1>10. (\A j \in v + 2 .. d - 1 : b[j] \in Digits) /\ \A j \in d + 1 .. e : b[j] \in Digits
  <2>1. \A j \in v + 2 .. d - 1 : j \in v + 2 .. e /\ j # d
    BY <1>1, <1>2, <1>3, <1>4
  <2>2. \A j \in d + 1 .. e : j \in v + 2 .. e /\ j # d
    BY <1>1, <1>2, <1>3, <1>4
  <2> QED BY <1>9, <2>1, <2>2
<1>11. PICK M : M = Said(f[v].params)
  OBVIOUS
<1>12. Text(b, v, e - v) = version
  BY LaidText
<1>13. f[e + 1].cs = At("eol") /\ Said(f[e + 1].params) = Told1(M, Names.http_version, Text(b, v, e - v))
  <2>1. v + 3 <= d /\ d < e /\ e + 1 <= Len(b)
    BY <1>1, <1>2, <1>3, <1>4, <1>6
  <2>2. VersionAt(b, v, d, e)
    BY <1>1, <1>6, <1>7, <1>8, <1>10, <2>1 DEF VersionAt
  <2>3. VersionHeard(b, f, v, e)
    BY <2>2, VersionRead
  <2> QED BY <1>11, <2>3 DEF VersionHeard
<1>14. f[e + 2].cs = At("header") /\ Leaves(f[e + 1], f[e + 2])
  <2>1. Edge(At("eol"), {"LF"}, At("header"), <<>>) \in Edges
    BY Zenon DEF Edges, FieldEdges
  <2>2. PICK p : p = e + 1
    OBVIOUS
  <2>3. p \in 0 .. Len(b) - 1 /\ p + 1 = e + 2
    BY <1>1, <1>6, <2>2
  <2>4. Edge(f[p].cs, {"LF"}, At("header"), <<>>) \in Edges /\ b[p + 1] \in {"LF"}
    BY <1>6, <1>13, <2>1, <2>2, <2>3
  <2>5. f[p + 1].cs = At("header") /\ Leaves(f[p], f[p + 1])
    BY <2>3, <2>4, StepIdle, Zenon
  <2> QED BY <2>2, <2>3, <2>5
<1> QED BY <1>11, <1>12, <1>13, <1>14 DEF VersionTold, Leaves

----------------------------------------------------------------------------
(* A whole header block.                                                   *)

\* Where the parts of a header block end.
BlockLaid(b, a, e) ==
  /\ Laid(b, 0, e[1], a.method) /\ Laid(b, e[1], e[2], <<"SP">>) /\ Laid(b, e[2], e[3], Uri(a))
  /\ Laid(b, e[3], e[4], FragmentPart(a.fragment)) /\ Laid(b, e[4], e[5], <<"SP">>)
  /\ Laid(b, e[5], e[6], a.version) /\ Laid(b, e[6], e[7], <<"CR", "LF">>)
  /\ Laid(b, e[7], e[8], FlattenSeq(FieldLines(a.fields)))
  /\ Laid(b, e[8], Len(b), <<"CR", "LF">>)

LEMMA WholeLaid ==
  ASSUME NEW b \in Seq(Symbols)
  PROVE  Laid(b, 0, Len(b), b)
<1>1. PICK n \in Nat : n = Len(b)
  OBVIOUS
<1>2. 0 \in Nat /\ n = 0 + n /\ 0 + n <= n /\ \A j \in 1 .. n : b[0 + j] = b[j]
  OBVIOUS
<1> QED BY <1>1, <1>2 DEF Laid, Here

LEMMA FieldsAreText ==
  ASSUME NEW S, NEW fields \in Seq(S), \A i \in DOMAIN fields : MessageHeader(fields[i])
  PROVE  FlattenSeq(FieldLines(fields)) \in Seq(Symbols)
<1>1. PICK p \in Seq(Seq(Symbols)) : p = FieldLines(fields)
  BY FieldLinesAre
<1>2. PICK g : FlattenSeq(p) = g[Len(p)] /\ \A i \in 0 .. Len(p) : g[i] \in Seq(Symbols)
  BY FlattenSteps
<1>3. Len(p) \in 0 .. Len(p)
  OBVIOUS
<1> QED BY <1>1, <1>2, <1>3

LEMMA BlockParts ==
  ASSUME NEW a, Grammatical(a)
  PROVE  /\ UriIsText(a) /\ Uri(a) \in Seq(Symbols)
         /\ a.method \in Seq(Symbols) /\ FragmentPart(a.fragment) \in Seq(Symbols)
         /\ a.version \in Seq(Symbols) /\ FlattenSeq(FieldLines(a.fields)) \in Seq(Symbols)
<1>1. UriIsText(a) /\ a.version \in Seq(Symbols) /\ a.fragment \in Seq(Symbols)
  BY DEF Grammatical, UriIsText
<1>2. a.method \in Seq(Symbols)
  <2>1. MethodChars \subseteq Symbols
    BY DEF MethodChars, Symbols
  <2>2. a.method \in Seq(MethodChars)
    BY DEF Grammatical
  <2> QED BY <2>1, <2>2
<1>3. FlattenSeq(FieldLines(a.fields)) \in Seq(Symbols)
  <2>1. a.fields \in Seq(ToSet(a.fields)) /\ \A i \in DOMAIN a.fields : MessageHeader(a.fields[i])
    BY DEF Grammatical
  <2>2. PICK fields \in Seq(ToSet(a.fields)) :
          fields = a.fields /\ \A i \in DOMAIN fields : MessageHeader(fields[i])
    BY <2>1
  <2> QED BY <2>2, FieldsAreText
<1>4. Uri(a) \in Seq(Symbols)
  BY <1>1, UriIs
<1>5. FragmentPart(a.fragment) \in Seq(Symbols)
  BY <1>1, FragmentPartIs
<1> QED BY <1>1, <1>2, <1>3, <1>4, <1>5

LEMMA BlockSplits ==
  ASSUME NEW a, Grammatical(a), NEW b \in Seq(Symbols), HeaderBlock(a) = b
  PROVE  \E e : BlockLaid(b, a, e)
<1>1. PICK method \in Seq(Symbols), uri \in Seq(Symbols), fragment \in Seq(Symbols),
           version \in Seq(Symbols), fields \in Seq(Symbols) :
        /\ method = a.method /\ uri = Uri(a) /\ fragment = FragmentPart(a.fragment)
        /\ version = a.version /\ fields = FlattenSeq(FieldLines(a.fields))
  BY BlockParts
<1>2. "SP" \in Symbols /\ "CR" \in Symbols /\ "LF" \in Symbols
  BY DEF Symbols, CTL
<1>3. <<"SP">> \in Seq(Symbols) /\ <<"CR", "LF">> \in Seq(Symbols)
  BY <1>2
<1>4. PICK space \in Seq(Symbols), eol \in Seq(Symbols) : space = <<"SP">> /\ eol = <<"CR", "LF">>
  BY <1>3
<1>5. PICK s1, s2, s3, s4, s5, s6, s7 :
        /\ s1 = Joined(method, space) /\ s2 = Joined(s1, uri) /\ s3 = Joined(s2, fragment)
        /\ s4 = Joined(s3, space) /\ s5 = Joined(s4, version) /\ s6 = Joined(s5, eol)
        /\ s7 = Joined(s6, fields)
  OBVIOUS
<1>6. s1 \in Seq(Symbols) /\ s2 \in Seq(Symbols) /\ s3 \in Seq(Symbols) /\ s4 \in Seq(Symbols)
  BY <1>5, JoinedIs
<1>7. s5 \in Seq(Symbols) /\ s6 \in Seq(Symbols) /\ s7 \in Seq(Symbols)
  BY <1>5, <1>6, JoinedIs
<1>8. b = Joined(s7, eol)
  BY <1>1, <1>4, <1>5, Zenon DEF HeaderBlock, Joined, FragmentPart, FieldLines
<1>9. Laid(b, 0, Len(b), Joined(s7, eol))
  BY <1>8, WholeLaid
<1>10. PICK e8 : Laid(b, 0, e8, s7) /\ Laid(b, e8, Len(b), eol)
  BY <1>7, <1>9, LaidJoined
<1>11. PICK e7 : Laid(b, 0, e7, s6) /\ Laid(b, e7, e8, fields)
  BY <1>5, <1>7, <1>10, LaidJoined
<1>12. PICK e6 : Laid(b, 0, e6, s5) /\ Laid(b, e6, e7, eol)
  BY <1>5, <1>7, <1>11, LaidJoined
<1>13. PICK e5 : Laid(b, 0, e5, s4) /\ Laid(b, e5, e6, version)
  BY <1>5, <1>6, <1>12, LaidJoined
<1>14. PICK e4 : Laid(b, 0, e4, s3) /\ Laid(b, e4, e5, space)
  BY <1>5, <1>6, <1>13, LaidJoined
<1>15. PICK e3 : Laid(b, 0, e3, s2) /\ Laid(b, e3, e4, fragment)
  BY <1>5, <1>6, <1>14, LaidJoined
<1>16. PICK e2 : Laid(b, 0, e2, s1) /\ Laid(b, e2, e3, uri)
  BY <1>5, <1>6, <1>15, LaidJoined
<1>17. PICK e1 : Laid(b, 0, e1, method) /\ Laid(b, e1, e2, space)
  BY <1>5, <1>16, LaidJoined
<1>18. PICK e : e = <<e1, e2, e3, e4, e5, e6, e7, e8>>
  OBVIOUS
<1>19. /\ e[1] = e1 /\ e[2] = e2 /\ e[3] = e3 /\ e[4] = e4
       /\ e[5] = e5 /\ e[6] = e6 /\ e[7] = e7 /\ e[8] = e8
  BY <1>18
<1>20. BlockLaid(b, a, e)
  BY <1>1, <1>4, <1>10, <1>11, <1>12, <1>13, <1>14, <1>15, <1>16, <1>17, <1>19 DEF BlockLaid
<1> QED BY <1>20

\* The first line, up to the version, ...
LineStarted(f, e, a) ==
  /\ f[e[5]].cs = At("version")
  /\ Said(f[e[5]].params) =
       UriSaid({<<Names.request_method, a.method>>}, a.path, a.query, Uri(a))
         \cup FragmentSaid(a.fragment)

LEMMA LineStarts ==
  ASSUME NEW b \in Seq(Symbols), NEW f, Trace(f, b), NEW a, Grammatical(a), NEW e, BlockLaid(b, a, e)
  PROVE  LineStarted(f, e, a)
<1>1. PICK e1, e2, e3, e4, e5 : e1 = e[1] /\ e2 = e[2] /\ e3 = e[3] /\ e4 = e[4] /\ e5 = e[5]
  OBVIOUS
<1>2. /\ Laid(b, 0, e1, a.method) /\ Laid(b, e1, e2, <<"SP">>) /\ Laid(b, e2, e3, Uri(a))
      /\ Laid(b, e3, e4, FragmentPart(a.fragment)) /\ Laid(b, e4, e5, <<"SP">>)
  BY <1>1 DEF BlockLaid
<1>3. PICK method \in Seq(MethodChars) : method = a.method /\ Len(method) \in 1 .. MaxMethod
  BY DEF Grammatical
<1>4. MethodChars \subseteq Symbols /\ method \in Seq(Symbols)
  <2>1. MethodChars \subseteq Symbols
    BY DEF MethodChars, Symbols
  <2> QED BY <2>1
<1>5. e1 \in 1 .. MaxMethod /\ \A j \in 1 .. e1 : b[j] \in MethodChars
  <2>1. Laid(b, 0, e1, method)
    BY <1>2, <1>3
  <2>2. \A j \in 0 + 1 .. e1 : b[j] \in MethodChars
    BY <2>1, LaidIs
  <2>3. e1 = 0 + Len(method)
    BY <2>1 DEF Laid
  <2>4. \A j \in 1 .. e1 : b[j] \in MethodChars
    BY <2>2
  <2> QED BY <1>3, <2>3, <2>4
<1>6. e2 = e1 + 1 /\ e1 + 1 <= Len(b) /\ b[e1 + 1] = "SP"
  BY <1>2, LaidOne
<1>7. f[e2].cs = At("uri") /\ Said(f[e2].params) = {<<Names.request_method, a.method>>}
  <2>1. f[e1 + 1].cs = At("uri") /\ Said(f[e1 + 1].params) = {<<Names.request_method, Text(b, 0, e1)>>}
    BY <1>5, <1>6, MethodRead
  <2>2. Text(b, 0, e1 - 0) = method /\ e1 - 0 = e1
    <3>1. Laid(b, 0, e1, method)
      BY <1>2, <1>3
    <3>2. e1 - 0 = e1
      BY <1>5, ParserAssumption
    <3> QED BY <1>4, <3>1, <3>2, LaidText
  <2> QED BY <1>3, <1>6, <2>1, <2>2
<1>8. NoUri(Said(f[e2].params)) /\ \A m \in Said(f[e2].params) : m[1] # Names.fragment
  <2>1. Names.request_method \notin UriKeys /\ Names.request_method # Names.fragment
    BY DEF Names, UriKeys
  <2> QED BY <1>7, <2>1 DEF NoUri
<1>9. e5 = e4 + 1 /\ e4 + 1 <= Len(b) /\ b[e4 + 1] = "SP"
  BY <1>2, LaidOne
<1>10. TargetMeant(f, e2, e4, a.path, a.query, a.fragment, Uri(a))
  <2>1. UriIsText(a)
    BY BlockParts
  <2>2. a.fragment \in Seq(Symbols) /\ RequestUri(a)
    BY DEF Grammatical
  <2>3. a.fragment # <<>> => Escaped(Tail(a.fragment), 0, UriChars)
    BY DEF Grammatical
  <2> QED BY <1>2, <1>7, <1>8, <1>9, <2>1, <2>2, <2>3, TargetRead
<1> QED BY <1>1, <1>7, <1>9, <1>10 DEF TargetMeant, LineStarted

\* ... all of it, ...
LEMMA WholeLine ==
  ASSUME NEW b \in Seq(Symbols), NEW f, Trace(f, b), NEW a, Grammatical(a), NEW e, BlockLaid(b, a, e)
  PROVE  f[e[7]].cs = At("header") /\ Said(f[e[7]].params) = LineMeant(a)
<1>1. PICK M : M = UriSaid({<<Names.request_method, a.method>>}, a.path, a.query, Uri(a))
                     \cup FragmentSaid(a.fragment)
  OBVIOUS
<1>2. PICK v, w, z : v = e[5] /\ w = e[6] /\ z = e[7]
  OBVIOUS
<1>3. Laid(b, v, w, a.version) /\ Laid(b, w, z, <<"CR", "LF">>)
  BY <1>2 DEF BlockLaid
<1>4. f[v].cs = At("version") /\ Said(f[v].params) = M
  <2>1. LineStarted(f, e, a)
    BY LineStarts
  <2> QED BY <1>1, <1>2, <2>1 DEF LineStarted
<1>5. PICK version \in Seq(Symbols) : version = a.version /\ HttpVersion(version)
  BY BlockParts DEF Grammatical
<1>6. VersionTold(f, v, w, version)
  BY <1>3, <1>4, <1>5, LineEnds
<1>7. z = w + 2
  <2>1. "CR" \in Symbols /\ "LF" \in Symbols
    BY DEF Symbols, CTL
  <2> QED BY <1>3, <2>1, LaidTwo
<1>8. \A m \in M : m[1] # Names.http_version
  <2>1. /\ Names.http_version # Names.request_method /\ Names.http_version # Names.request_uri
        /\ Names.http_version # Names.request_path /\ Names.http_version # Names.query_string
        /\ Names.http_version # Names.fragment
    BY DEF Names
  <2> QED BY <1>1, <2>1 DEF UriSaid, FragmentSaid
<1>9. Said(f[z].params) = M \cup {<<Names.http_version, version>>}
  BY <1>4, <1>6, <1>7, <1>8, ToldNew DEF VersionTold
<1>10. M \cup {<<Names.http_version, version>>} = LineMeant(a)
  BY <1>1, <1>5, Zenon DEF UriSaid, FragmentSaid, LineMeant
<1> QED BY <1>2, <1>6, <1>7, <1>9, <1>10 DEF VersionTold

\* ... and the block.
LEMMA BlockMeant ==
  ASSUME NEW a, Grammatical(a), NEW b \in Seq(Symbols), HeaderBlock(a) = b, NEW f, Trace(f, b)
  PROVE  /\ f[Len(b)].cs = Finished /\ Said(f[Len(b)].params) = Meant(a)
         /\ \E z \in Nat : /\ z + 1 = Len(b) /\ b[z + 1] = "LF"
                          /\ f[z].cs = At("last") /\ Said(f[z].params) = Meant(a)
<1>1. PICK e : BlockLaid(b, a, e)
  BY BlockSplits
<1>2. PICK h, z : h = e[7] /\ z = e[8]
  OBVIOUS
<1>3. Laid(b, h, z, FlattenSeq(FieldLines(a.fields))) /\ Laid(b, z, Len(b), <<"CR", "LF">>)
  BY <1>1, <1>2 DEF BlockLaid
<1>4. f[h].cs = At("header") /\ Said(f[h].params) = LineMeant(a)
  BY <1>1, <1>2, WholeLine
<1>5. PICK fields \in Seq(ToSet(a.fields)) :
        fields = a.fields /\ \A i \in DOMAIN fields : MessageHeader(fields[i])
  BY DEF Grammatical
<1>6. f[z].cs = At("header") /\ Said(f[z].params) = FieldsMeant(LineMeant(a), fields, Len(fields))
  <2>1. Laid(b, h, z, FlattenSeq(FieldLines(fields)))
    BY <1>3, <1>5
  <2>2. PICK M : M = LineMeant(a)
    OBVIOUS
  <2> QED BY <1>4, <1>5, <2>1, <2>2, FieldsRead
<1>7. z \in Nat /\ z + 2 = Len(b) /\ b[z + 1] = "CR" /\ b[z + 2] = "LF"
  <2>1. "CR" \in Symbols /\ "LF" \in Symbols
    BY DEF Symbols, CTL
  <2> QED BY <1>3, <2>1, LaidTwo
<1>8. /\ f[z + 2].cs = Finished /\ Said(f[z + 2].params) = Said(f[z].params)
      /\ f[z + 1].cs = At("last") /\ Said(f[z + 1].params) = Said(f[z].params)
  BY <1>6, <1>7, BlockRead
<1>9. FieldsMeant(LineMeant(a), fields, Len(fields)) = Meant(a)
  <2>1. DOMAIN fields = 1 .. Len(fields)
    OBVIOUS
  <2>2. PICK M : M = LineMeant(a)
    OBVIOUS
  <2>3. FieldsMeant(M, fields, Len(fields)) =
          M \cup {<<fields[i].name, fields[i].value>> : i \in {i \in DOMAIN fields : Unheard(M, fields, i)}}
    BY <2>1 DEF FieldsMeant
  <2> QED BY <1>5, <2>2, <2>3, Zenon DEF Unheard, Meant
<1>10. z + 1 \in Nat /\ (z + 1) + 1 = Len(b) /\ b[(z + 1) + 1] = "LF"
  BY <1>7
<1> QED BY <1>6, <1>7, <1>8, <1>9, <1>10

\* So every call over it, whatever was in the buffer behind it.
LEMMA ExecuteMeant ==
  ASSUME NEW a, Grammatical(a), NEW b \in Seq(Symbols), HeaderBlock(a) = b
  PROVE  Execute(Fresh, b).cs = Finished /\ Said(Execute(Fresh, b).params) = Meant(a)
<1>1. PICK f : Trace(f, b) /\ Run(Fresh, b) = f[Len(b)]
  BY TraceExists
<1>2. PICK q : q = f[Len(b)]
  OBVIOUS
<1>3. IsParser(q)
  <2>1. Len(b) \in 0 .. Len(b)
    OBVIOUS
  <2> QED BY <1>1, <1>2, <2>1, TraceOK DEF After
<1>4. q.cs = Finished /\ Said(q.params) = Meant(a)
  BY <1>1, <1>2, BlockMeant
<1>5. Execute(Fresh, b) = Counted(q)
  BY <1>1, <1>2 DEF Execute
<1> QED BY <1>3, <1>4, <1>5, CountedIs

----------------------------------------------------------------------------
(* The parameters the server adds.                                         *)

Added(params) ==
  /\ {ScriptName, PathInfo, Names.request_uri} \subseteq DOMAIN params
  /\ params[ScriptName] = Slash /\ params[PathInfo] = params[Names.request_uri]

\* A request is there only while the process is, and has the server's word.
Answers == request.made => up /\ Added(parser.params)

LEMMA setParamSays ==
  ASSUME NEW params, NEW key, NEW value
  PROVE  /\ DOMAIN setParam(params, key, value) = DOMAIN params \cup {key}
         /\ setParam(params, key, value)[key] = value
         /\ \A k \in DOMAIN params : k # key => setParam(params, key, value)[k] = params[k]
BY DEF setParam

LEMMA WithServerParamsSays ==
  ASSUME NEW params, Names.request_uri \in DOMAIN params, NEW address
  PROVE  Added(WithServerParams(params, address))
<1>1. PICK remote, script : remote = setParam(params, RemoteAddr, address)
                            /\ script = setParam(remote, ScriptName, Slash)
  OBVIOUS
<1>2. PICK uri, value, all : /\ uri = Names.request_uri /\ value = script[uri]
                             /\ all = setParam(script, PathInfo, value)
  OBVIOUS
<1>3. WithServerParams(params, address) = all
  BY <1>1, <1>2 DEF WithServerParams
<1>4. uri \in DOMAIN script /\ ScriptName \in DOMAIN script /\ script[ScriptName] = Slash
  <2>1. DOMAIN remote = DOMAIN params \cup {RemoteAddr}
    BY <1>1, setParamSays
  <2>2. DOMAIN script = DOMAIN remote \cup {ScriptName} /\ script[ScriptName] = Slash
    BY <1>1, setParamSays
  <2> QED BY <1>2, <2>1, <2>2
<1>5. /\ DOMAIN all = DOMAIN script \cup {PathInfo} /\ all[PathInfo] = script[uri]
      /\ \A k \in DOMAIN script : k # PathInfo => all[k] = script[k]
  <2>1. /\ DOMAIN all = DOMAIN script \cup {PathInfo} /\ all[PathInfo] = value
        /\ \A k \in DOMAIN script : k # PathInfo => all[k] = script[k]
    BY <1>2 DEF setParam
  <2> QED BY <1>2, <2>1
<1>6. uri # PathInfo /\ ScriptName # PathInfo
  BY <1>2 DEF Names, PathInfo, ScriptName
<1>7. /\ {ScriptName, PathInfo, uri} \subseteq DOMAIN all
      /\ all[ScriptName] = Slash /\ all[PathInfo] = all[uri]
  BY <1>4, <1>5, <1>6
<1> QED BY <1>2, <1>3, <1>7 DEF Added

LEMMA AnswersNext == RInv /\ Answers /\ [Next]_vars => Answers'
<1> SUFFICES ASSUME RInv, Answers, [Next]_vars PROVE Answers'
  OBVIOUS
<1>1. CASE UNCHANGED vars
  BY <1>1 DEF vars, Answers
<1>2. CASE ReadsNothing
  BY <1>2 DEF ReadsNothing, Answers
<1>3. ASSUME NEW n, Receives(n), ReadBody(n) PROVE Answers'
  <2>1. request.made /\ UNCHANGED <<parser, up>>
    BY <1>3 DEF ReadBody, Receives, is_finished, RInv, Made
  <2> QED BY <2>1 DEF Answers
<1>4. ASSUME NEW n, Receives(n), ReadHeader(n) PROVE Answers'
  <2>1. ~request.made
    BY <1>4 DEF ReadHeader, is_finished, RInv, Made
  <2>2. CASE UNCHANGED request
    BY <2>1, <2>2 DEF Answers
  <2>3. CASE ~UNCHANGED request
    <3>1. PICK e : e = Execute(parser, SubSeq(text, 1, read + n))
      OBVIOUS
    <3>2. e.cs = Finished /\ Build(e, n)
      BY <1>4, <2>3, <3>1 DEF ReadHeader, is_finished
    <3>3. UNCHANGED up /\ up
      BY <1>4, <2>3, <3>2 DEF Build, Receives
    <3>4. PICK address : parser' = [e EXCEPT !.params = WithServerParams(e.params, address)]
      BY <2>3, <3>2 DEF Build
    <3>5. Parsed(e, Prefix(read + n))
      <4>1. /\ Prefix(read) \in Seq(Symbols) /\ Prefix(read + n) \in Seq(Symbols)
            /\ Agree(Prefix(read), Prefix(read + n), Len(Prefix(read)))
        BY <1>4, ReceivesIs
      <4>2. parser = Run(Fresh, Prefix(read)) /\ parser.cs \notin {Error, Finished}
        BY <1>4 DEF ReadHeader, Receives, is_finished, RInv, Going
      <4>3. PICK b1, b2 : b1 = Prefix(read) /\ b2 = Prefix(read + n)
        OBVIOUS
      <4>4. e = Execute(Fresh, b2)
        BY <3>1, <4>1, <4>2, <4>3, Goes DEF Prefix
      <4> QED BY <4>1, <4>3, <4>4, ExecuteOK
    <3>6. parser'.params = WithServerParams(e.params, address)
      BY <3>4, <3>5 DEF Parsed, IsParser
    <3>7. Names.request_uri \in DOMAIN e.params
      BY <3>2, <3>5 DEF Parsed
    <3> QED BY <3>3, <3>6, <3>7, WithServerParamsSays DEF Answers
  <2> QED BY <2>2, <2>3
<1>5. CASE handleRead
  <2>1. PICK n : Receives(n) /\ (ReadBody(n) \/ ReadHeader(n))
    BY <1>5 DEF handleRead, Receives
  <2> QED BY <1>3, <1>4, <2>1
<1> QED BY <1>1, <1>2, <1>5 DEF Next

LEMMA AnswersAlways == Spec => []Answers
<1>1. Init => Answers
  BY DEF Init, Answers
<1> QED BY <1>1, Invariant, AnswersNext, PTL DEF Spec

\* The parser of a request knows what a parser of its header block alone would.
LEMMA RequestAlike ==
  ASSUME RInv, Answers, request.made, text = Render(asked), Grammatical(asked)
  PROVE  \E q : /\ Said(q.params) = Meant(asked)
                /\ DOMAIN parser.params \ Aside = DOMAIN q.params \ Aside
                /\ \A k \in DOMAIN parser.params \ Aside : parser.params[k] = q.params[k]
<1>1. PICK h, body : h = HeaderBlock(asked) /\ body = asked.body
  OBVIOUS
<1>2. h \in Seq(Symbols) /\ body \in Seq(Symbols) /\ Grammatical(asked) /\ text \in Seq(Symbols)
  BY <1>1, AskedAssumption DEF RInv, Types
<1>3. text = Joined(h, body)
  BY <1>1 DEF Render, Joined
<1>4. PICK n \in Nat : n = Len(h)
  BY <1>2
<1>5. n \in 0 .. Len(text) /\ \A j \in 1 .. n : text[j] = h[j]
  <2>1. Len(Joined(h, body)) = Len(h) + Len(body) /\ \A j \in 1 .. Len(h) : Joined(h, body)[j] = h[j]
    BY <1>2, JoinedIs, Zenon
  <2>2. Len(body) \in Nat
    BY <1>2
  <2> QED BY <1>3, <1>4, <2>1, <2>2
<1>6. Prefix(n) = h
  <2>1. Prefix(n) \in Seq(Symbols) /\ Len(Prefix(n)) = n /\ \A j \in 1 .. n : Prefix(n)[j] = text[j]
    BY <1>2, <1>5, PrefixIs
  <2>2. PICK p \in Seq(Symbols) : p = Prefix(n)
    BY <2>1
  <2>3. Len(p) = Len(h) /\ \A j \in 1 .. Len(p) : p[j] = h[j]
    BY <1>4, <1>5, <2>1, <2>2
  <2>4. p = h
    BY <1>2, <2>3, SeqEqual
  <2> QED BY <2>2, <2>4
<1>7. PICK b \in Seq(Symbols) : b = Prefix(read)
  BY PrefixIs DEF RInv, Types
<1>8. PICK q, r : q = Execute(Fresh, h) /\ r = Execute(Fresh, b)
  OBVIOUS
<1>9. q.cs = Finished /\ Said(q.params) = Meant(asked)
  BY <1>1, <1>2, <1>8, ExecuteMeant
<1>10. Alike(parser, r) /\ parser.cs = Finished
  BY <1>7, <1>8 DEF RInv, Told, Made, Answers
<1>11. Alike(q, r) \/ Alike(r, q)
  <2>1. read \in Nat /\ read \in 0 .. Len(text)
    BY DEF RInv, Types
  <2>2. CASE n <= read
    <3>1. n \in 0 .. read
      BY <1>4, <2>1, <2>2
    <3>2. Agree(h, b, Len(h))
      BY <1>2, <1>6, <1>7, <2>1, <3>1, PrefixesAgree
    <3> QED BY <1>2, <1>8, <1>9, <3>2, Stays
  <2>3. CASE ~(n <= read)
    <3>1. read \in 0 .. n
      BY <1>4, <2>1, <2>3
    <3>2. Agree(b, h, Len(b))
      BY <1>2, <1>5, <1>6, <1>7, <3>1, PrefixesAgree
    <3>3. r.cs = Finished
      BY <1>10 DEF Alike
    <3> QED BY <1>2, <1>8, <3>2, <3>3, Stays
  <2> QED BY <2>2, <2>3
<1>12. /\ DOMAIN parser.params \ Aside = DOMAIN q.params \ Aside
       /\ \A k \in DOMAIN parser.params \ Aside : parser.params[k] = q.params[k]
  BY <1>10, <1>11 DEF Alike
<1> QED BY <1>9, <1>12

\* A request says what its client meant, whatever pieces it has come in: it has
\* the parameters that the grammar and the order of its fields give it, and the
\* server's own say that it was asked for by the URI of its first line.
THEOREM SaysMeant == Spec => []SaysWhatWasMeant
<1>1. RInv /\ Answers => SaysWhatWasMeant
  <2> SUFFICES ASSUME RInv, Answers, request.made, text = Render(asked), Grammatical(asked)
               PROVE  /\ {<<k, parser.params[k]>> : k \in DOMAIN parser.params \ Aside}
                           = {m \in Meant(asked) : m[1] \notin Aside}
                      /\ parser.params[PathInfo] = Uri(asked) /\ parser.params[ScriptName] = Slash
    BY DEF SaysWhatWasMeant, Aside
  <2>1. PICK q : /\ Said(q.params) = Meant(asked)
                 /\ DOMAIN parser.params \ Aside = DOMAIN q.params \ Aside
                 /\ \A k \in DOMAIN parser.params \ Aside : parser.params[k] = q.params[k]
    BY RequestAlike
  <2>2. PICK known, said : known = parser.params /\ said = q.params
    OBVIOUS
  <2>3. /\ DOMAIN known \ Aside = DOMAIN said \ Aside
        /\ \A k \in DOMAIN known \ Aside : known[k] = said[k]
    BY <2>1, <2>2
  <2>4. {<<k, known[k]>> : k \in DOMAIN known \ Aside} = {m \in Said(said) : m[1] \notin Aside}
    BY <2>3 DEF Said
  <2>5. Added(known)
    BY <2>2 DEF Answers
  <2>6. known[Names.request_uri] = Uri(asked)
    <3>1. PICK key, uri : key = Names.request_uri /\ uri = Uri(asked)
      OBVIOUS
    <3>2. key \notin Aside
      BY <3>1 DEF Names, Aside, Body, ServerParams, RemoteAddr, ScriptName, PathInfo
    <3>3. <<key, uri>> \in Said(said)
      <4>1. <<key, uri>> \in LineMeant(asked)
        BY <3>1 DEF LineMeant
      <4>2. <<key, uri>> \in Meant(asked)
        BY <4>1 DEF Meant
      <4> QED BY <2>1, <2>2, <4>2
    <3>4. key \in DOMAIN said /\ said[key] = uri
      BY <3>3 DEF Said
    <3> QED BY <2>3, <3>1, <3>2, <3>4
  <2> QED BY <2>1, <2>2, <2>4, <2>5, <2>6 DEF Added
<1> QED BY <1>1, Invariant, AnswersAlways, PTL

----------------------------------------------------------------------------
(* What handleRead does of a request of each kind.                         *)

\* What a parser knows that has read the header block and what follows it.
Heard(params, a, rest) ==
  /\ {m \in Said(params) : m[1] # Body} = Meant(a)
  /\ IF rest = <<>> THEN Body \notin DOMAIN params
     ELSE Body \in DOMAIN params /\ params[Body] = rest

\* A part of a header block leaves the parser waiting for more of it.
LEMMA PartOfBlock ==
  ASSUME NEW a, Grammatical(a), NEW h \in Seq(Symbols), HeaderBlock(a) = h,
         NEW b \in Seq(Symbols), Agree(b, h, Len(b)), Len(b) < Len(h)
  PROVE  Execute(Fresh, b).cs \notin {Error, Finished}
<1>1. PICK f : Trace(f, b) /\ Run(Fresh, b) = f[Len(b)]
  BY TraceExists
<1>2. PICK g : Trace(g, h)
  BY TraceExists
<1>3. PICK z \in Nat : z + 1 = Len(h) /\ g[z].cs = At("last")
  BY <1>2, BlockMeant
<1>4. PICK n : n = Len(b) /\ n \in 0 .. Len(b) /\ n \in 0 .. Len(h) /\ z \in n .. Len(h)
  BY <1>3
<1>5. g[n].cs \notin {Error, Finished}
  <2>1. At("last") \notin {Error, Finished}
    BY DEF At, Error, Finished
  <2> QED BY <1>2, <1>3, <1>4, <2>1, TraceStays
<1>6. Same(f[n], g[n])
  BY <1>1, <1>2, <1>4, TraceSame
<1>7. PICK q : q = f[n]
  OBVIOUS
<1>8. q.cs \notin {Error, Finished} /\ IsParser(q)
  <2>1. IsParser(q)
    BY <1>1, <1>4, <1>7, TraceOK DEF After
  <2> QED BY <1>5, <1>6, <1>7, <2>1 DEF Same, Alike
<1>9. Execute(Fresh, b) = Counted(q)
  BY <1>1, <1>4, <1>7 DEF Execute
<1> QED BY <1>8, <1>9, CountedIs

\* All of it, and what has come behind it, is heard.
LEMMA BlockAndMore ==
  ASSUME NEW a, Grammatical(a), NEW h \in Seq(Symbols), HeaderBlock(a) = h,
         \A m \in Meant(a) : m[1] # Body, NEW b \in Seq(Symbols), Agree(h, b, Len(h))
  PROVE  /\ Execute(Fresh, b).cs = Finished
         /\ Heard(Execute(Fresh, b).params, a, SubSeq(b, Len(h) + 1, Len(b)))
<1>1. PICK f : Trace(f, b) /\ Run(Fresh, b) = f[Len(b)]
  BY TraceExists
<1>2. PICK g : Trace(g, h)
  BY TraceExists
<1>3. PICK z \in Nat : /\ z + 1 = Len(h) /\ h[z + 1] = "LF"
                       /\ g[z].cs = At("last") /\ Said(g[z].params) = Meant(a)
  BY <1>2, BlockMeant
<1>4. z \in 0 .. Len(h) /\ z \in 0 .. Len(b) - 1 /\ b[z + 1] = "LF" /\ z + 1 \in 0 .. Len(b) /\ z < Len(b)
      /\ Len(b) \in z + 1 .. Len(b)
  BY <1>3 DEF Agree
<1>5. At("last") \notin {Error, Finished}
  BY DEF At, Error, Finished
<1>6. PICK q : q = f[z]
  OBVIOUS
<1>7. q.cs = At("last") /\ Said(q.params) = Meant(a)
  <2>1. Same(g[z], f[z])
    BY <1>1, <1>2, <1>4, TraceSame
  <2> QED BY <1>3, <1>5, <1>6, <2>1 DEF Same
<1>8. PICK does : does = <<"done">>
  OBVIOUS
<1>9. Takes(q, f[z + 1], b, z, At("finished"), does)
  <2>1. Edge(At("last"), {"LF"}, At("finished"), <<"done">>) \in Edges
    BY Zenon DEF Edges, FieldEdges
  <2>2. Edge(f[z].cs, {"LF"}, At("finished"), does) \in Edges /\ b[z + 1] \in {"LF"}
    BY <1>4, <1>6, <1>7, <1>8, <2>1
  <2>3. Takes(f[z], f[z + 1], b, z, At("finished"), does)
    BY <1>1, <1>4, <2>2, Taken, Zenon
  <2> QED BY <1>6, <2>3
<1>10. PICK r : r = Perform(q, does, b, z)
  OBVIOUS
<1>11. Body \notin DOMAIN q.params
  <2>1. <<Body, q.params[Body]>>[1] = Body
    OBVIOUS
  <2> QED BY <1>7, <2>1 DEF Said
<1>12. PICK n : n = Len(b) /\ n \in Nat
  OBVIOUS
<1>13. /\ IsParser(r) /\ DOMAIN q.params \subseteq DOMAIN r.params
       /\ DOMAIN r.params \subseteq DOMAIN q.params \cup {Body}
       /\ \A k \in DOMAIN q.params : r.params[k] = q.params[k]
       /\ IF n > z + 1 THEN Body \in DOMAIN r.params /\ r.params[Body] = SubSeq(b, z + 2, n)
          ELSE Body \notin DOMAIN r.params
  <2>1. Mid(q, z)
    BY <1>9 DEF Takes
  <2> QED BY <1>4, <1>8, <1>10, <1>11, <1>12, <2>1, DoneOK
<1>14. Heard(r.params, a, SubSeq(b, Len(h) + 1, n))
  <2>1. {m \in Said(r.params) : m[1] # Body} = Said(q.params)
    BY <1>11, <1>13 DEF Said
  <2>2. PICK rest : rest = SubSeq(b, z + 2, n) /\ rest = SubSeq(b, Len(h) + 1, n)
    <3>1. z + 2 = Len(h) + 1
      BY <1>3
    <3> QED BY <3>1
  <2>3. rest = <<>> <=> ~(n > z + 1)
    <3>1. CASE n > z + 1
      <4>1. Len(rest) = n - (z + 1)
        BY <1>4, <1>12, <2>2, <3>1
      <4> QED BY <1>4, <1>12, <3>1, <4>1
    <3>2. CASE ~(n > z + 1)
      BY <1>4, <1>12, <2>2, <3>2, SubSeqEmpty
    <3> QED BY <3>1, <3>2
  <2> QED BY <1>7, <1>13, <2>1, <2>2, <2>3 DEF Heard
<1>15. PICK s : s = f[z + 1]
  OBVIOUS
<1>16. IsParser(s) /\ s.cs = Finished /\ s.params = r.params
  <2>1. s = Moved(r, At("finished")) /\ At("finished") \in States
    BY <1>9, <1>10, <1>15 DEF Takes
  <2> QED BY <1>13, <2>1, MovedIs DEF Finished
<1>17. f[n] = s
  BY <1>1, <1>4, <1>12, <1>15, <1>16, TraceStays
<1>18. Execute(Fresh, b) = Counted(s)
  BY <1>1, <1>12, <1>17 DEF Execute
<1> QED BY <1>12, <1>14, <1>16, <1>18, CountedIs

\* What the reader takes from the parameters, it takes from what was meant.
LEMMA HeardSays ==
  ASSUME NEW params, NEW rest, Heard(params, asked, rest)
  PROVE  /\ BadLength(params) <=> \E m \in Meant(asked) : m[1] = ContentLength /\ ~IsInt(m[2])
         /\ BodyDue = IF ContentLength \in DOMAIN params THEN Number(params[ContentLength]) ELSE 0
         /\ Names.request_path \in DOMAIN params
              <=> \E m \in Meant(asked) : m[1] = Names.request_path
<1>1. PICK M : M = Meant(asked) /\ M = {m \in Said(params) : m[1] # Body}
  BY DEF Heard
<1>2. ASSUME NEW key, key # Body
      PROVE  /\ key \in DOMAIN params => <<key, params[key]>> \in M
             /\ \A m \in M : m[1] = key => key \in DOMAIN params /\ m[2] = params[key]
  <2>1. \A m \in M : \E k \in DOMAIN params : m = <<k, params[k]>>
    BY <1>1 DEF Said
  <2>2. key \in DOMAIN params => <<key, params[key]>> \in Said(params) /\ <<key, params[key]>>[1] # Body
    BY <1>2 DEF Said
  <2> QED BY <1>1, <2>1, <2>2
<1>3. PICK length, path : length = ContentLength /\ path = Names.request_path
  OBVIOUS
<1>4. length # Body /\ path # Body
  BY <1>3 DEF ContentLength, Names, Body
<1>5. path \in DOMAIN params <=> \E m \in M : m[1] = path
  <2>1. path \in DOMAIN params => <<path, params[path]>>[1] = path
    OBVIOUS
  <2> QED BY <1>2, <1>4, <2>1
<1>6. <<length, params[length]>>[1] = length /\ <<length, params[length]>>[2] = params[length]
  OBVIOUS
<1>7. (length \in DOMAIN params /\ ~IsInt(params[length])) <=> \E m \in M : m[1] = length /\ ~IsInt(m[2])
  BY <1>2, <1>4, <1>6
<1>8. BodyDue = IF length \in DOMAIN params THEN Number(params[length]) ELSE 0
  <2>1. PICK due : due = {m[2] : m \in {l \in M : l[1] = length}}
    OBVIOUS
  <2>2. BodyDue = IF due = {} THEN 0 ELSE Number(CHOOSE n \in due : TRUE)
    BY <1>1, <1>3, <2>1 DEF BodyDue
  <2>3. CASE length \in DOMAIN params
    <3>1. due = {params[length]}
      BY <1>2, <1>4, <1>6, <2>1, <2>3
    <3> QED BY <2>2, <2>3, <3>1
  <2>4. CASE length \notin DOMAIN params
    <3>1. \A m \in M : m[1] # length
      BY <1>2, <1>4, <2>4
    <3>2. due = {}
      BY <2>1, <3>1
    <3> QED BY <2>2, <2>4, <3>2
  <2> QED BY <2>3, <2>4
<1> QED BY <1>1, <1>3, <1>5, <1>7, <1>8 DEF BadLength

\* The requests of which the contract says something.
Regular ==
  /\ text = Render(asked) /\ Grammatical(asked)
  /\ ~(Len(HeaderBlock(asked)) + ChunkSize > MaxHeader)
  /\ ~\E i \in DOMAIN asked.fields : asked.fields[i].name = Body
  /\ \/ \E m \in Meant(asked) : m[1] = ContentLength /\ ~IsInt(m[2])
     \/ BodyDue - ChunkSize \in Ints

LEMMA Kinds ==
  ASSUME Kind # "any"
  PROVE  /\ Regular
         /\ Kind = IF \E m \in Meant(asked) : m[1] = ContentLength /\ ~IsInt(m[2]) THEN "badlength"
                   ELSE IF \E m \in Meant(asked) : m[1] = Names.request_path THEN "good" ELSE "nopath"
<1>1. PICK bad, path : /\ bad = (\E m \in Meant(asked) : m[1] = ContentLength /\ ~IsInt(m[2]))
                       /\ path = (\E m \in Meant(asked) : m[1] = Names.request_path)
  OBVIOUS
<1>2. (\A m \in Meant(asked) : m[1] # Names.request_path) <=> ~path
  BY <1>1
<1>3. Regular
  BY DEF Kind, Regular
<1>4. Kind = IF bad THEN "badlength"
             ELSE IF \A m \in Meant(asked) : m[1] # Names.request_path THEN "nopath" ELSE "good"
  BY <1>1 DEF Kind
<1> QED BY <1>1, <1>2, <1>3, <1>4

LEMMA NoBodyMeant == Regular => \A m \in Meant(asked) : m[1] # Body
<1> SUFFICES ASSUME Regular, NEW m \in Meant(asked) PROVE m[1] # Body
  OBVIOUS
<1>1. CASE m \in LineMeant(asked)
  <2>1. /\ Names.request_method # Body /\ Names.request_uri # Body /\ Names.http_version # Body
        /\ Names.request_path # Body /\ Names.query_string # Body /\ Names.fragment # Body
    BY DEF Names, Body
  <2> QED BY <1>1, <2>1 DEF LineMeant
<1>2. CASE m \notin LineMeant(asked)
  <2>1. PICK i \in DOMAIN asked.fields : m = <<asked.fields[i].name, asked.fields[i].value>>
    BY <1>2 DEF Meant
  <2> QED BY <2>1 DEF Regular
<1> QED BY <1>1, <1>2

\* A handler that waits for more of a body has kept what has come of it, and
\* counts what is missing.
Awaits ==
  /\ Kind = "good" /\ Len(HeaderBlock(asked)) <= read
  /\ request.length = BodyDue
  /\ request.body = SubSeq(text, Len(HeaderBlock(asked)) + 1, read)
  /\ request.remain = BodyDue - (read - Len(HeaderBlock(asked)))

Owing ==
  waits = "READ" => open /\ (request.made /\ Kind # "any" => Awaits)

\* Where the header block of an ungarbled text is.
LEMMA BlockStands ==
  ASSUME RInv, Regular
  PROVE  \E h \in Seq(Symbols) :
           /\ h = HeaderBlock(asked) /\ Len(h) \in 0 .. Len(text)
           /\ Prefix(Len(h)) = h
<1>1. PICK h, body : h = HeaderBlock(asked) /\ body = asked.body
  OBVIOUS
<1>2. h \in Seq(Symbols) /\ body \in Seq(Symbols) /\ text \in Seq(Symbols)
  BY <1>1, AskedAssumption DEF RInv, Types
<1>3. text = Joined(h, body)
  BY <1>1 DEF Render, Joined, Regular
<1>4. PICK n \in Nat : n = Len(h)
  BY <1>2
<1>5. n \in 0 .. Len(text) /\ \A j \in 1 .. n : text[j] = h[j]
  <2>1. Len(Joined(h, body)) = Len(h) + Len(body) /\ \A j \in 1 .. Len(h) : Joined(h, body)[j] = h[j]
    BY <1>2, JoinedIs, Zenon
  <2>2. Len(body) \in Nat
    BY <1>2
  <2> QED BY <1>3, <1>4, <2>1, <2>2
<1>6. PICK p \in Seq(Symbols) : p = Prefix(n) /\ Len(p) = n /\ \A j \in 1 .. n : p[j] = text[j]
  BY <1>2, <1>5, PrefixIs
<1>7. p = h
  <2>1. Len(p) = Len(h) /\ \A j \in 1 .. Len(p) : p[j] = h[j]
    BY <1>4, <1>5, <1>6
  <2> QED BY <1>2, <1>6, <2>1, SeqEqual
<1> QED BY <1>1, <1>2, <1>4, <1>5, <1>6, <1>7

\* What one call over the first n characters of an ungarbled text makes of them,
\* head of which are its header block.
PrefixMade(n, head, e) ==
  /\ n < head => e.cs \notin {Error, Finished}
  /\ n >= head => e.cs = Finished /\ Heard(e.params, asked, SubSeq(text, head + 1, n))

LEMMA PrefixHeard ==
  ASSUME RInv, Regular, NEW n \in 0 .. Len(text)
  PROVE  /\ Len(HeaderBlock(asked)) \in 0 .. Len(text)
         /\ PrefixMade(n, Len(HeaderBlock(asked)), Execute(Fresh, Prefix(n)))
<1>1. PICK h \in Seq(Symbols) : /\ h = HeaderBlock(asked) /\ Len(h) \in 0 .. Len(text)
                                /\ Prefix(Len(h)) = h
  BY BlockStands
<1>2. text \in Seq(Symbols) /\ Grammatical(asked)
  BY DEF RInv, Types, Regular
<1>3. PICK b \in Seq(Symbols) : b = Prefix(n) /\ Len(b) = n
  BY <1>2, PrefixIs
<1>4. PICK a, l : a = asked /\ l = Len(h)
  OBVIOUS
<1>5. ASSUME n < l PROVE PrefixMade(n, l, Execute(Fresh, Prefix(n)))
  <2>1. n \in 0 .. l /\ l \in 0 .. Len(text)
    BY <1>1, <1>4, <1>5
  <2>2. Agree(b, h, Len(b))
    BY <1>1, <1>2, <1>3, <1>4, <2>1, PrefixesAgree
  <2>3. Execute(Fresh, b).cs \notin {Error, Finished}
    BY <1>1, <1>2, <1>3, <1>4, <1>5, <2>2, PartOfBlock
  <2> QED BY <1>3, <1>5, <2>1, <2>3 DEF PrefixMade
<1>6. ASSUME n >= l PROVE PrefixMade(n, l, Execute(Fresh, Prefix(n)))
  <2>1. l \in 0 .. n
    BY <1>1, <1>4, <1>6
  <2>2. Agree(h, b, Len(h))
    BY <1>1, <1>2, <1>3, <1>4, <2>1, PrefixesAgree
  <2>3. \A m \in Meant(a) : m[1] # Body
    BY <1>4, NoBodyMeant
  <2>4. /\ Execute(Fresh, b).cs = Finished
        /\ Heard(Execute(Fresh, b).params, a, SubSeq(b, Len(h) + 1, Len(b)))
    BY <1>1, <1>2, <1>4, <2>2, <2>3, BlockAndMore
  <2>5. SubSeq(b, l + 1, n) = SubSeq(text, l + 1, n)
    <3>1. l + 1 \in 1 .. n + 1
      BY <2>1
    <3> QED BY <1>2, <1>3, <3>1, PieceOfPrefix DEF Prefix
  <2>6. PICK rest, e : rest = SubSeq(text, l + 1, n) /\ e = Execute(Fresh, b)
    OBVIOUS
  <2>7. SubSeq(b, Len(h) + 1, Len(b)) = rest
    BY <1>3, <1>4, <2>5, <2>6
  <2>8. e.cs = Finished /\ Heard(e.params, asked, rest)
    BY <1>4, <2>4, <2>6, <2>7
  <2>9. ~(n < l)
    BY <1>6, <2>1
  <2>10. PrefixMade(n, l, e)
    BY <2>6, <2>8, <2>9 DEF PrefixMade
  <2> QED BY <1>3, <2>6, <2>10
<1> QED BY <1>1, <1>4, <1>5, <1>6

LEMMA SameKind ==
  ASSUME UNCHANGED <<asked, text>>
  PROVE  /\ Kind' = Kind /\ BodyDue' = BodyDue
         /\ Len(HeaderBlock(asked))' = Len(HeaderBlock(asked))
<1>1. asked' = asked /\ text' = text
  OBVIOUS
<1>2. BodyDue' = BodyDue
  BY <1>1 DEF BodyDue
<1> QED BY <1>1, <1>2 DEF Kind

LEMMA OwingInit == Init => Owing
BY DEF Init, Owing

\* The stream has ended.
LEMMA ReadsNothingKeeps ==
  ASSUME RInv, Owing, ReadsNothing
  PROVE  Owing' /\ Verdict = Expected
<1>1. /\ up /\ waits = "READ" /\ open' = FALSE /\ UNCHANGED <<asked, text, read, parser, request, up>>
      /\ waits' = IF request.made /\ isComplete(request) THEN "WRITE" ELSE "none"
  BY DEF ReadsNothing, Rearm
<1>2. waits' = "none"
  BY <1>1 DEF RInv, Made
<1>3. Owing'
  BY <1>2 DEF Owing
<1>4. Verdict = "close"
  BY <1>1, <1>2 DEF Verdict
<1>5. Expected = "close"
  <2>1. PICK r : r = read /\ read' = r
    BY <1>1
  <2>2. r \in Nat
    BY <2>1 DEF RInv, Types
  <2> QED BY <2>1, <2>2 DEF Expected
<1> QED BY <1>3, <1>4, <1>5

\* More of a body: the handler answers when it is all there.
LEMMA ReadBodyKeeps ==
  ASSUME RInv, Owing, Kind # "any", NEW n, Receives(n), ReadBody(n)
  PROVE  Owing' /\ Verdict = Expected
<1>1. /\ n \in Nat \ {0} /\ n <= ChunkSize /\ read \in Nat /\ read + n \in 0 .. Len(text)
      /\ read \in 0 .. read + n
  BY ReceivesIs
<1>2. /\ parser.cs = Finished /\ UNCHANGED <<asked, text, parser, open, up>> /\ waits = "READ"
      /\ read' = read + n /\ up /\ request' = MoreBody(request, Piece(n)) /\ text \in Seq(Symbols)
  BY DEF ReadBody, Receives, is_finished, RInv, Types
<1>3. /\ request.made /\ request.length \in Ints /\ request.remain \in Ints
      /\ request.body \in Seq(Symbols) /\ ~isComplete(request)
  BY <1>2 DEF RInv, Types, Made
<1>4. open /\ Awaits
  BY <1>2, <1>3 DEF Owing
<1>5. PICK head, due : head = Len(HeaderBlock(asked)) /\ due = BodyDue
  OBVIOUS
<1>6. Regular
  BY Kinds
<1>7. head \in Nat /\ head <= read /\ due \in Int
  <2>1. head \in Nat
    BY <1>1, <1>5, <1>6, PrefixHeard
  <2> QED BY <1>3, <1>4, <1>5, <2>1 DEF Awaits, Ints
<1>8. PICK piece : piece = Piece(n) /\ Len(piece) = n
  <2>1. Len(Piece(n)) = n
    BY <1>1, <1>2 DEF Piece
  <2> QED BY <2>1
<1>9. Wrapped(request.remain - n) = request.remain - n
  <2>1. request.remain - n \in Ints /\ request.remain - n \in Int
    BY <1>1, <1>3, ReaderAssumption DEF Ints, isComplete
  <2> QED BY <2>1, WrappedIs
<1>10. /\ request'.made /\ request'.length = due
       /\ request'.remain = due - (read + n - head)
       /\ request'.body = SubSeq(text, head + 1, read + n)
  <2>1. request' = [request EXCEPT !.body = @ \o piece, !.remain = request.remain - n]
    BY <1>2, <1>8, <1>9 DEF MoreBody
  <2>2. request \in [made : BOOLEAN, length : Ints, remain : Ints, body : Seq(Symbols)]
    BY DEF RInv, Types
  <2>3. SubSeq(text, head + 1, read) \o piece = SubSeq(text, head + 1, read + n)
    <3>1. head + 1 \in 1 .. read + 1
      BY <1>1, <1>7
    <3> QED BY <1>1, <1>2, <1>8, <3>1, PiecesJoin DEF Piece
  <2>4. /\ request'.made = request.made /\ request'.length = request.length
        /\ request'.remain = request.remain - n /\ request'.body = request.body \o piece
    BY <2>1, <2>2
  <2>5. /\ request.length = due /\ request.body = SubSeq(text, head + 1, read)
        /\ request.remain = due - (read - head)
    BY <1>4, <1>5 DEF Awaits
  <2>6. due - (read - head) - n = due - (read + n - head)
    BY <1>1, <1>7
  <2> QED BY <1>3, <2>3, <2>4, <2>5, <2>6
<1>11. waits' = IF isComplete(request') THEN "WRITE" ELSE "READ"
  BY <1>2, <1>4, <1>10 DEF Receives, Rearm
<1>12. Kind = "good"
  BY <1>4 DEF Awaits
<1>13. Owing'
  <2>1. /\ Kind' = "good" /\ BodyDue' = due /\ Len(HeaderBlock(asked))' = head
    BY <1>2, <1>5, <1>12, SameKind
  <2>2. Awaits'
    BY <1>1, <1>2, <1>7, <1>10, <2>1 DEF Awaits
  <2> QED BY <1>2, <1>4, <2>2 DEF Owing
<1>14. isComplete(request') <=> read + n >= head + due
  BY <1>1, <1>7, <1>10 DEF isComplete
<1>15. Verdict = IF read + n >= head + due THEN "reply" ELSE "more"
  BY <1>2, <1>4, <1>11, <1>14 DEF Verdict
<1>16. Expected = IF read + n >= head + due THEN "reply" ELSE "more"
  <2>1. read' > read /\ ~(read' < head) /\ read' >= head /\ read' # read
    BY <1>1, <1>2, <1>7
  <2> QED BY <1>2, <1>5, <1>12, <2>1 DEF Expected
<1> QED BY <1>13, <1>15, <1>16

\* What a call of handleRead finds that reads more of the header block, and
\* makes of it: the parser comes to e, no piece meets the limit.
LEMMA HeaderGoesOn ==
  ASSUME RInv, Regular, NEW n, Receives(n), ReadHeader(n)
  PROVE  /\ Execute(parser, SubSeq(text, 1, read + n)) = Execute(Fresh, Prefix(read + n))
         /\ Len(HeaderBlock(asked)) \in 0 .. Len(text)
         /\ PrefixMade(read + n, Len(HeaderBlock(asked)), Execute(Fresh, Prefix(read + n)))
         /\ read < Len(HeaderBlock(asked)) /\ ~TooLong(n)
         /\ ~request.made
<1>1. /\ n \in Nat \ {0} /\ n <= ChunkSize /\ read \in Nat /\ read + n \in 0 .. Len(text)
      /\ Prefix(read) \in Seq(Symbols) /\ Prefix(read + n) \in Seq(Symbols)
      /\ Agree(Prefix(read), Prefix(read + n), Len(Prefix(read)))
  BY ReceivesIs
<1>2. /\ parser.cs # Finished /\ up /\ waits = "READ" /\ ~request.made
      /\ read \in 0 .. Len(text)
  BY DEF ReadHeader, Receives, is_finished, RInv, Types, Made
<1>3. parser = Run(Fresh, Prefix(read)) /\ parser.cs # Error
  BY <1>2 DEF RInv, Going
<1>4. PICK b1, b2 : b1 = Prefix(read) /\ b2 = Prefix(read + n)
  OBVIOUS
<1>5. Execute(parser, b2) = Execute(Fresh, b2)
  BY <1>1, <1>2, <1>3, <1>4, Goes
<1>6. Execute(parser, SubSeq(text, 1, read + n)) = Execute(Fresh, Prefix(read + n))
  BY <1>4, <1>5 DEF Prefix
<1>7. PICK head : head = Len(HeaderBlock(asked))
  OBVIOUS
<1>8. head \in 0 .. Len(text) /\ PrefixMade(read + n, head, Execute(Fresh, Prefix(read + n)))
  BY <1>1, <1>7, PrefixHeard
<1>9. read < head
  <2> SUFFICES ASSUME ~(read < head) PROVE FALSE
    OBVIOUS
  <2>1. PrefixMade(read, head, Execute(Fresh, Prefix(read)))
    BY <1>2, <1>7, PrefixHeard
  <2>2. Execute(Fresh, Prefix(read)).cs = Finished
    <3>1. read >= head
      BY <1>1, <1>8
    <3> QED BY <2>1, <3>1 DEF PrefixMade
  <2>3. Alike(parser, Execute(Fresh, Prefix(read)))
    BY <1>2 DEF RInv, Told
  <2> QED BY <1>2, <2>2, <2>3 DEF Alike
<1>10. ~TooLong(n)
  <2>1. ~(head + ChunkSize > MaxHeader)
    BY <1>7 DEF Regular
  <2> QED BY <1>1, <1>8, <1>9, <2>1, ReaderAssumption DEF TooLong
<1> QED BY <1>2, <1>6, <1>7, <1>8, <1>9, <1>10

\* The handler goes on to wait for the rest of the header block, ...
LEMMA PartKeeps ==
  ASSUME RInv, Owing, Regular, NEW n, Receives(n), ReadHeader(n),
         read + n < Len(HeaderBlock(asked))
  PROVE  Owing' /\ Verdict = Expected
<1>1. PICK head, e : head = Len(HeaderBlock(asked)) /\ e = Execute(Fresh, Prefix(read + n))
  OBVIOUS
<1>2. /\ Execute(parser, SubSeq(text, 1, read + n)) = e /\ e.cs \notin {Error, Finished}
      /\ ~TooLong(n) /\ ~request.made /\ head \in Nat
  BY <1>1, HeaderGoesOn DEF PrefixMade
<1>3. n \in Nat \ {0} /\ read \in Nat /\ read' = read + n /\ up
  BY ReceivesIs DEF Receives
<1>4. open' = TRUE /\ UNCHANGED <<request, up>>
  BY <1>2 DEF ReadHeader, is_finished, has_error
<1>5. waits' = "READ"
  BY <1>2, <1>4 DEF Receives, Rearm
<1>6. Owing'
  BY <1>2, <1>4 DEF Owing
<1>7. Verdict = "more"
  BY <1>3, <1>4, <1>5 DEF Verdict
<1>8. Expected = "more"
  <2>1. read' # read /\ read' > read /\ read' < head /\ ~(read' >= head)
    BY <1>1, <1>2, <1>3
  <2> QED BY <1>1, <2>1 DEF Expected
<1> QED BY <1>6, <1>7, <1>8

\* ... and once it is there, has a request or ends the process.
LEMMA BlockKeeps ==
  ASSUME RInv, Owing, Kind # "any", NEW n, Receives(n), ReadHeader(n),
         ~(read + n < Len(HeaderBlock(asked)))
  PROVE  Owing' /\ Verdict = Expected
<1>1. PICK head, due, m : head = Len(HeaderBlock(asked)) /\ due = BodyDue /\ m = read + n
  OBVIOUS
<1>2. PICK e, rest : e = Execute(Fresh, Prefix(m)) /\ rest = SubSeq(text, head + 1, m)
  OBVIOUS
<1>3. Regular
  BY Kinds
<1>4. /\ n \in Nat \ {0} /\ n <= ChunkSize /\ read \in Nat /\ m \in 0 .. Len(text)
      /\ read' = m /\ up /\ text \in Seq(Symbols) /\ UNCHANGED <<asked, text>>
  BY <1>1, ReceivesIs DEF Receives, RInv, Types
<1>5. /\ Execute(parser, SubSeq(text, 1, m)) = e /\ head \in Nat /\ ~TooLong(n) /\ ~request.made
      /\ read < head /\ PrefixMade(m, head, e)
  BY <1>1, <1>2, <1>3, HeaderGoesOn
<1>6. m >= head
  BY <1>1, <1>4, <1>5
<1>7. e.cs = Finished /\ Heard(e.params, asked, rest)
  BY <1>2, <1>5, <1>6 DEF PrefixMade
<1>8. Build(e, n)
  BY <1>1, <1>5, <1>7 DEF ReadHeader, is_finished
<1>9. /\ BadLength(e.params) <=> \E l \in Meant(asked) : l[1] = ContentLength /\ ~IsInt(l[2])
      /\ due = IF ContentLength \in DOMAIN e.params THEN Number(e.params[ContentLength]) ELSE 0
      /\ Names.request_path \in DOMAIN e.params
           <=> \E l \in Meant(asked) : l[1] = Names.request_path
  BY <1>1, <1>7, HeardSays
<1>10. Kind = IF BadLength(e.params) THEN "badlength"
              ELSE IF Names.request_path \in DOMAIN e.params THEN "good" ELSE "nopath"
  BY <1>9, Kinds
<1>11. read' > read /\ ~(read' < head) /\ read' >= head /\ read' # read
  BY <1>1, <1>4, <1>6
<1>12. /\ Kind = "good" => Expected = IF m >= head + due THEN "reply" ELSE "more"
       /\ Kind = "nopath" => Expected = IF m >= head + due THEN "revive" ELSE "close"
       /\ Kind = "badlength" => Expected = "abort"
  BY <1>1, <1>4, <1>11 DEF Expected
<1>13. Rearm
  BY DEF Receives
<1>14. CASE BadLength(e.params)
  <2>1. up' = FALSE /\ UNCHANGED <<request, open>>
    BY <1>8, <1>14 DEF Build
  <2>2. Owing'
    BY <1>5, <1>13, <2>1 DEF Owing, Rearm
  <2>3. Verdict = "abort"
    BY <2>1 DEF Verdict
  <2> QED BY <1>10, <1>12, <1>14, <2>2, <2>3
<1>15. CASE ~BadLength(e.params)
  <2>1. /\ request' = NewRequest(e.params) /\ UNCHANGED up
        /\ open' = (Names.request_path \in DOMAIN e.params)
    BY <1>5, <1>8, <1>15 DEF Build
  <2>2. Len(rest) = m - head /\ (IF Body \in DOMAIN e.params THEN e.params[Body] ELSE <<>>) = rest
    <3>1. Len(rest) = m - head
      <4>1. m - head \in Nat /\ head + 1 \in Nat /\ m <= Len(text)
        BY <1>4, <1>5, <1>6
      <4> QED BY <1>2, <1>4, <1>5, <1>6, <4>1
    <3> QED BY <1>7, <3>1 DEF Heard
  <2>3. due \in Ints /\ due \in Int
    BY <1>9, <1>15, ReaderAssumption DEF BadLength, IsInt, Ints
  <2>4. due - ChunkSize \in Ints
    BY <1>1, <1>3, <1>9, <1>15 DEF Regular
  <2>5. Wrapped(due - (m - head)) = due - (m - head)
    <3>1. m - head \in 0 .. ChunkSize
      BY <1>1, <1>4, <1>5, <1>6, ReaderAssumption
    <3>2. due - (m - head) \in Ints /\ due - (m - head) \in Int
      BY <2>3, <2>4, <3>1, ReaderAssumption DEF Ints
    <3> QED BY <3>2, WrappedIs
  <2>6. request' = [made |-> TRUE, length |-> due, remain |-> due - (m - head), body |-> rest]
    BY <1>9, <2>1, <2>2, <2>5 DEF NewRequest
  <2>7. isComplete(request') <=> m >= head + due
    BY <1>4, <1>5, <2>3, <2>6 DEF isComplete
  <2>8. waits' = IF m >= head + due THEN "WRITE" ELSE IF open' THEN "READ" ELSE "none"
    BY <1>13, <2>6, <2>7 DEF Rearm
  <2>9. Kind = IF open' THEN "good" ELSE "nopath"
    BY <1>10, <1>15, <2>1
  <2>10. open' => Awaits'
    <3>1. Kind' = Kind /\ BodyDue' = due /\ Len(HeaderBlock(asked))' = head
      BY <1>1, <1>4, SameKind
    <3> QED BY <1>2, <1>4, <1>6, <2>6, <2>9, <3>1 DEF Awaits
  <2>11. Owing'
    BY <2>8, <2>10 DEF Owing
  <2>12. Verdict = IF open' THEN (IF m >= head + due THEN "reply" ELSE "more")
                   ELSE IF m >= head + due THEN "revive" ELSE "close"
    BY <1>4, <2>1, <2>8 DEF Verdict
  <2> QED BY <1>12, <2>9, <2>11, <2>12
<1> QED BY <1>14, <1>15

LEMMA OwingNext == RInv /\ Owing /\ [Next]_vars => Owing' /\ [Kind = "any" \/ Verdict = Expected]_vars
<1> SUFFICES ASSUME RInv, Owing, [Next]_vars
             PROVE  Owing' /\ [Kind = "any" \/ Verdict = Expected]_vars
  OBVIOUS
<1>1. CASE handleRead
  <2>1. PICK n : Receives(n) /\ (ReadBody(n) \/ ReadHeader(n))
    BY <1>1 DEF handleRead, Receives
  <2>2. CASE Kind = "any"
    <3>1. Kind' = "any"
      BY <2>1, <2>2, SameKind DEF Receives
    <3>2. waits' = "READ" => open'
      BY <2>1 DEF Receives, Rearm
    <3> QED BY <2>2, <3>1, <3>2 DEF Owing
  <2>3. CASE Kind # "any" /\ ReadBody(n)
    BY <2>1, <2>3, ReadBodyKeeps
  <2>4. CASE Kind # "any" /\ ReadHeader(n)
    BY <2>1, <2>4, Kinds, PartKeeps, BlockKeeps
  <2> QED BY <2>1, <2>2, <2>3, <2>4
<1>2. CASE ReadsNothing
  BY <1>2, ReadsNothingKeeps
<1>3. CASE UNCHANGED vars
  <2>1. UNCHANGED <<asked, text, read, request, open, waits>>
    BY <1>3 DEF vars
  <2>2. Owing'
    BY <2>1, SameKind DEF Owing, Awaits
  <2> QED BY <1>3, <2>2
<1> QED BY <1>1, <1>2, <1>3 DEF Next

\* Every call of handleRead ends as the reactors' model takes it to: more of a
\* header block or body is waited for until it is all there, then the request is
\* answered, refused or the end of the process, whatever pieces it has come in.
THEOREM ContractKept == Spec => KeepsContract
BY OwingInit, OwingNext, Invariant, PTL DEF Spec, KeepsContract
============================================================================
