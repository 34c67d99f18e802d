----------------------------- MODULE HttpParser -----------------------------
(***************************************************************************)
(* The incremental parser of a request's header block (http/parser.c,      *)
(* generated from http/common.rl and parser.rl) and the callbacks that     *)
(* store what it finds (parser_callbacks.cpp).                             *)
(*                                                                         *)
(* One symbol stands for each class of characters the machine tells apart; *)
(* "HTTP/" and the names of the fields the server looks up are one symbol  *)
(* each.  Offsets are those of the code, counted from zero.                *)
(***************************************************************************)
EXTENDS Integers, Sequences, SequencesExt

CONSTANT MaxMethod   \* the longest method, 20 in common.rl

ASSUME ParserAssumption == MaxMethod \in Nat \ {0}

----------------------------------------------------------------------------
(* The alphabet (common.rl).                                               *)

Digits == {"0", "2", "8"}
Upper == {"G"}
HexDigits == Digits
Words == {"Content-Length", "Body"}
Params == {"REQUEST_PATH", "PATH_INFO"}   \* as names of fields only
CTL == {"CR", "LF"}

Symbols == Digits \cup Upper \cup Words \cup Params \cup CTL \cup
           {"x", ".", "-", "/", "*", ":", "?", ";", "#", "%", "SP", "HTTP/"}

MethodChars == Upper \cup Digits \cup {".", "-"}
SchemeChars == Upper \cup Digits \cup Words \cup {"x", ".", "-"}
UriChars    == Symbols \ (CTL \cup {"SP", "#", "%"})
TokenChars  == Upper \cup Digits \cup Words \cup Params \cup {"x", ".", "-", "*", "#", "%"}
ValueChars  == Symbols \ {"CR"}

----------------------------------------------------------------------------
(* The machine.  A state is a name and a count: the letters of the method  *)
(* so far, or the hexadecimal digits a "%" still needs.                    *)

At(name) == <<name, 0>>

Edge(from, on, to, does) == [from |-> from, on |-> on, to |-> to, does |-> does]

MethodEdgesToo ==   \* a mutant: one letter more than there are states for
  {Edge(At("start"), MethodChars, <<"method", 1>>, <<"mark">>)}
  \cup {Edge(<<"method", n>>, MethodChars, <<"method", n + 1>>, <<>>) : n \in 1 .. MaxMethod}
  \cup {Edge(<<"method", n>>, {"SP"}, At("uri"), <<"request_method">>) : n \in 1 .. MaxMethod}

MethodEdges ==
  {Edge(At("start"), MethodChars, <<"method", 1>>, <<"mark">>)}
  \cup {Edge(<<"method", n>>, MethodChars, <<"method", n + 1>>, <<>>) : n \in 1 .. MaxMethod - 1}
  \cup {Edge(<<"method", n>>, {"SP"}, At("uri"), <<"request_method">>) : n \in 1 .. MaxMethod}

\* What is stored where the URI ends, at a space or at the "#" of a fragment.
UriEnds ==
  [star |-> <<"request_uri">>, opaque |-> <<"request_uri">>, params |-> <<"request_uri">>,
   path |-> <<"request_path", "request_uri">>, query |-> <<"query_string", "request_uri">>,
   query0 |-> <<"start_query", "query_string", "request_uri">>]

UriEdges ==
  {Edge(At("uri"), {"*"}, At("star"), <<"mark">>),
   Edge(At("uri"), {"/"}, At("path"), <<"mark">>),
   Edge(At("uri"), {":"}, At("opaque"), <<"mark">>),
   Edge(At("uri"), SchemeChars, At("scheme"), <<"mark">>),
   Edge(At("scheme"), SchemeChars, At("scheme"), <<>>),
   Edge(At("scheme"), {":"}, At("opaque"), <<>>),
   Edge(At("opaque"), UriChars, At("opaque"), <<>>),
   Edge(At("path"), UriChars \ {";", "?"}, At("path"), <<>>),
   Edge(At("path"), {";"}, At("params"), <<"request_path">>),
   Edge(At("path"), {"?"}, At("query0"), <<"request_path">>),
   Edge(At("params"), UriChars \ {"?"}, At("params"), <<>>),
   Edge(At("params"), {"?"}, At("query0"), <<>>),
   Edge(At("query0"), UriChars, At("query"), <<"start_query">>),
   Edge(At("query0"), {"%"}, <<"query", 2>>, <<"start_query">>),
   Edge(At("query"), UriChars, At("query"), <<>>)}
  \cup {Edge(At(part), {"SP"}, At("version"), UriEnds[part]) : part \in DOMAIN UriEnds}
  \cup {Edge(At(part), {"#"}, At("fragment0"), UriEnds[part]) : part \in DOMAIN UriEnds}

FragmentEdges ==
  {Edge(At("fragment0"), {"SP"}, At("version"), <<"mark", "fragment">>),
   Edge(At("fragment0"), {"%"}, <<"fragment", 2>>, <<"mark">>),
   Edge(At("fragment0"), UriChars, At("fragment"), <<"mark">>),
   Edge(At("fragment"), UriChars, At("fragment"), <<>>),
   Edge(At("fragment"), {"SP"}, At("version"), <<"fragment">>)}

EscapeEdges ==
  LET parts == {"opaque", "path", "params", "query", "fragment"} IN
  {Edge(At(part), {"%"}, <<part, 2>>, <<>>) : part \in parts}
  \cup {Edge(<<part, n>>, HexDigits, <<part, n - 1>>, <<>>) : part \in parts, n \in {1, 2}}

VersionEdges ==
  {Edge(At("version"), {"HTTP/"}, At("major0"), <<"mark">>),
   Edge(At("major0"), Digits, At("major"), <<>>),
   Edge(At("major"), Digits, At("major"), <<>>),
   Edge(At("major"), {"."}, At("minor0"), <<>>),
   Edge(At("minor0"), Digits, At("minor"), <<>>),
   Edge(At("minor"), Digits, At("minor"), <<>>),
   Edge(At("minor"), {"CR"}, At("eol"), <<"http_version">>)}

FieldEdges ==
  {Edge(At("eol"), {"LF"}, At("header"), <<>>),
   Edge(At("header"), {"CR"}, At("last"), <<>>),
   Edge(At("header"), TokenChars, At("name"), <<"start_field">>),
   Edge(At("name"), TokenChars, At("name"), <<>>),
   Edge(At("name"), {":"}, At("value0"), <<"write_field">>),
   Edge(At("value0"), {"SP"}, At("value0"), <<"start_value">>),
   Edge(At("value0"), {"CR"}, At("eol"), <<"start_value", "write_value">>),
   Edge(At("value0"), ValueChars \ {"SP"}, At("value"), <<"start_value">>),
   Edge(At("value"), ValueChars, At("value"), <<>>),
   Edge(At("value"), {"CR"}, At("eol"), <<"write_value">>),
   Edge(At("last"), {"LF"}, At("finished"), <<"done">>)}

Edges == MethodEdges \cup UriEdges \cup FragmentEdges \cup EscapeEdges
         \cup VersionEdges \cup FieldEdges

Error == At("error")
Finished == At("finished")
States == {e.from : e \in Edges} \cup {Error, Finished}

\* The transition tables: where no edge leads on, the machine is in error.
Transition ==
  [s \in States |-> [c \in Symbols |->
     LET ways == {e \in Edges : e.from = s /\ c \in e.on}
     IN IF ways = {} THEN [to |-> Error, does |-> <<>>]
        ELSE LET way == CHOOSE e \in ways : TRUE IN [to |-> way.to, does |-> way.does]]]

\* No two edges of a state share a symbol: the CHOOSE above chooses nothing.
ASSUME Deterministic ==
  \A e, d \in Edges : e.from = d.from /\ e.on \cap d.on # {} => e = d

----------------------------------------------------------------------------
(* The parser and its callbacks.                                           *)

\* http_parser_init, and the empty parameters it will fill.
Fresh ==
  [cs |-> At("start"), nread |-> 0, mark |-> 0, field_start |-> 0, field_len |-> 0,
   query_start |-> 0, body_start |-> 0, params |-> <<>>]

has_error(parser) == parser.cs = Error
is_finished(parser) == parser.cs = Finished

PutAnyway(params, key, value) ==   \* a mutant: the last field of a name wins
  [k \in DOMAIN params \cup {key} |-> IF k = key THEN value ELSE params[k]]

\* std::map::insert: a parameter that is there already stays as it is.
Put(params, key, value) ==
  [k \in DOMAIN params \cup {key} |-> IF k \in DOMAIN params THEN params[k] ELSE value]

\* The text of length len from offset from on.
Text(buffer, from, len) == SubSeq(buffer, from + 1, from + len)

\* The parameter each element callback stores under.
Names == [request_method |-> <<"REQUEST_METHOD">>, request_uri |-> <<"REQUEST_URI">>,
          fragment |-> <<"Fragment">>, request_path |-> <<"REQUEST_PATH">>,
          query_string |-> <<"Query-String">>, http_version |-> <<"Version">>]

Body == <<"Body">>   \* HTTP_BODY

\* The body is what has come behind the header block, if anything has.
header_done(parser, buffer, p) ==
  IF Len(buffer) > p + 1
  THEN [parser EXCEPT !.params = Put(@, Body, Text(buffer, p + 1, Len(buffer) - p - 1)),
                      !.body_start = p + 1]
  ELSE [parser EXCEPT !.body_start = p + 1]

\* One action of the machine, at offset p of the buffer.
Act(parser, action, buffer, p) ==
  CASE action \in {"mark", "start_value"} -> [parser EXCEPT !.mark = p]
    [] action = "start_field" -> [parser EXCEPT !.field_start = p]
    [] action = "write_field" -> [parser EXCEPT !.field_len = p - parser.field_start]
    [] action = "start_query" -> [parser EXCEPT !.query_start = p]
    [] action = "write_value" ->
         [parser EXCEPT !.params = Put(@, Text(buffer, parser.field_start, parser.field_len),
                                       Text(buffer, parser.mark, p - parser.mark))]
    [] action = "query_string" ->
         [parser EXCEPT !.params = Put(@, Names[action],
                                       Text(buffer, parser.query_start, p - parser.query_start))]
    [] action \in DOMAIN Names \ {"query_string"} ->
         [parser EXCEPT !.params = Put(@, Names[action],
                                       Text(buffer, parser.mark, p - parser.mark))]
    [] action = "done" -> header_done(parser, buffer, p)

\* The actions of an edge, one after the other.
Perform(parser, does, buffer, p) ==
  LET after[i \in 0 .. Len(does)] ==
        IF i = 0 THEN parser ELSE Act(after[i - 1], does[i], buffer, p)
  IN after[Len(does)]

AdvanceFirst(parser, c, buffer) ==   \* a mutant: marks are set behind the character
  IF has_error(parser) \/ is_finished(parser) THEN parser
  ELSE LET way == Transition[parser.cs][c]
           at  == parser.nread + (IF way.to = Error THEN 0 ELSE 1)
       IN Perform([parser EXCEPT !.cs = way.to, !.nread = at], way.does, buffer, at)

\* One character: off an edge the machine stays where it is, in error.
Advance(parser, c, buffer) ==
  IF has_error(parser) \/ is_finished(parser) THEN parser
  ELSE LET way == Transition[parser.cs][c]
       IN [Perform(parser, way.does, buffer, parser.nread) EXCEPT
             !.cs = way.to, !.nread = IF way.to = Error THEN @ ELSE @ + 1]

\* The characters of the buffer that the parser has not seen, one by one.
Run(parser, buffer) ==
  LET at[i \in parser.nread .. Len(buffer)] ==
        IF i = parser.nread THEN parser ELSE Advance(at[i - 1], buffer[i], buffer)
  IN at[Len(buffer)]

\* Past the end of the header block nread counts one character too many.
Counted(run) == IF run.body_start # 0 THEN [run EXCEPT !.nread = @ + 1] ELSE run

ExecuteRestarted(parser, buffer) ==   \* a mutant: marks do not outlive a call
  Counted(Run([parser EXCEPT !.mark = parser.nread], buffer))

\* http_parser_execute from where the last call stopped: the offset it is
\* given is the nread it returned.
Execute(parser, buffer) == Counted(Run(parser, buffer))
============================================================================
