-------------------------- MODULE MCRequestReader --------------------------
(* Instances of RequestReader for TLC: one request per way a part can be   *)
(* there, be empty or be missing, and the combinations that meet.          *)
EXTENDS RequestReader

Field(name, pad, value) == [name |-> name, pad |-> pad, value |-> value]

Plain ==
  [method |-> <<"G">>, path |-> <<"/", "x">>, params |-> <<>>, query |-> <<>>,
   fragment |-> <<>>, version |-> <<"HTTP/", "2", ".", "0">>, fields |-> <<>>, body |-> <<>>]

Length(value) == Field(<<"Content-Length">>, <<"SP">>, value)

Uris ==
  {[Plain EXCEPT !.path = path] : path \in {<<"*">>, <<"x", ":", "?">>, <<"/", "%", "2", "0">>}}
  \cup {[Plain EXCEPT !.params = params, !.query = query, !.fragment = fragment] :
          params \in {<<>>, <<";", "x">>},
          query \in {<<>>, <<"?", "?", "%", "0", "0">>},
          fragment \in {<<>>, <<"#", "%", "2", "2", "x">>}}

Fields ==
  {<<>>, <<Length(<<"2">>)>>, <<Length(<<"0", "2">>), Length(<<"0">>)>>, <<Length(<<"x">>)>>,
   <<Length(<<"8">>)>>, <<Length(<<"-", "2">>)>>, <<Length(<<"-", "8">>)>>, <<Length(<<"-">>)>>,
   <<Field(<<"x", "G">>, <<>>, <<>>), Field(<<"Body">>, <<"SP", "SP">>, <<"x">>), Length(<<"2">>)>>}

Bodies == {<<>>, <<"x">>, <<"x", "CR", "LF">>}

MCAsked ==
  Uris \cup {[Plain EXCEPT !.method = <<"G", "G">>, !.fields = fields, !.body = body] :
               fields \in Fields, body \in Bodies}
       \cup {[Plain EXCEPT !.path = <<"*">>, !.fields = <<Length(<<"2">>)>>, !.body = body] :
               body \in Bodies}
       \cup {[Plain EXCEPT !.path = path, !.fields = <<Field(<<param>>, <<>>, <<"/", "G">>)>>] :
               path \in {<<"*">>, <<"/", "x">>}, param \in Params}
       \cup {[Plain EXCEPT !.path = <<"/">> \o [i \in 1 .. 24 |-> "x"]]}
============================================================================
