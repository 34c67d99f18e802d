--------------------------- MODULE RequestReader ---------------------------
(***************************************************************************)
(* ClientEventHandler::handleRead: how the bytes of one connection become  *)
(* an HttpRequest, whatever pieces they arrive in.  The client renders the *)
(* request it means as text (and may damage one character of it); every    *)
(* call of handleRead receives the next piece of that text.                *)
(*                                                                         *)
(* While the header block is parsed, m_data holds the first `read'         *)
(* characters, so m_dataLength is `read' and m_nparsed is parser.nread.    *)
(***************************************************************************)
EXTENDS HttpParser

CONSTANTS
  Asked,      \* the requests clients send, as records of their parts
  Damages,    \* characters one character of the text may be replaced by
  ChunkSize,  \* CHUNK_SIZE, the most one recv() returns
  MaxHeader,  \* MAX_HEADER_LENGTH, the size of m_data
  IntMax      \* the largest int

ASSUME ReaderAssumption ==
  /\ Damages \subseteq Symbols
  /\ ChunkSize \in Nat \ {0}
  /\ MaxHeader \in Nat \ {0}
  /\ IntMax \in Nat /\ ChunkSize <= IntMax

VARIABLES
  asked,    \* the parts of the request the client means
  text,     \* what it sends
  read,     \* how many characters have been received
  parser,   \* m_parser and m_params
  request,  \* m_request: made, m_contentLength, m_remain, m_body
  open,     \* the descriptor is open
  waits,    \* what the handler is registered for: READ, WRITE or none
  up        \* the process has not been aborted

vars == <<asked, text, read, parser, request, open, waits, up>>

Ints == -IntMax - 1 .. IntMax

TypeOK ==
  /\ asked \in Asked
  /\ text \in Seq(Symbols)
  /\ read \in 0 .. Len(text)
  /\ parser.cs \in States
  /\ \A key \in DOMAIN parser.params : parser.params[key] \in Seq(Symbols)
  /\ request \in [made : BOOLEAN, length : Ints, remain : Ints, body : Seq(Symbols)]
  /\ open \in BOOLEAN
  /\ waits \in {"READ", "WRITE", "none"}
  /\ up \in BOOLEAN

----------------------------------------------------------------------------
(* What the client sends.                                                  *)

Line(field) == field.name \o <<":">> \o field.pad \o field.value \o <<"CR", "LF">>

\* The parts of the URI, in its order.
Uri(a) == a.path \o a.params \o (IF a.query = <<>> THEN <<>> ELSE <<"?">> \o Tail(a.query))

HeaderBlock(a) ==
  a.method \o <<"SP">> \o Uri(a)
  \o (IF a.fragment = <<>> THEN <<>> ELSE <<"#">> \o Tail(a.fragment))
  \o <<"SP">> \o a.version \o <<"CR", "LF">>
  \o FlattenSeq([i \in DOMAIN a.fields |-> Line(a.fields[i])]) \o <<"CR", "LF">>

Render(a) == HeaderBlock(a) \o a.body

\* What clients send is text.
ASSUME AskedAssumption ==
  \A a \in Asked : HeaderBlock(a) \in Seq(Symbols) /\ a.body \in Seq(Symbols)

\* The grammar of a request (common.rl).  A "%" begins an escape, behind the
\* first n characters of t.
Escaped(t, n, chars) ==
  \A i \in n + 1 .. Len(t) :
    IF t[i] = "%" THEN i + 2 <= Len(t) /\ {t[i + 1], t[i + 2]} \subseteq HexDigits
    ELSE t[i] \in chars

AbsoluteUri(t) ==
  \E k \in DOMAIN t :
    t[k] = ":" /\ (\A i \in 1 .. k - 1 : t[i] \in SchemeChars) /\ Escaped(t, k, UriChars)

PathChars == UriChars \ {";", "?"}
ParamChars == UriChars \ {"?"}

RequestUri(a) ==
  \/ (a.path = <<"*">> \/ AbsoluteUri(a.path)) /\ a.params = <<>> /\ a.query = <<>>
  \/ /\ a.path # <<>> /\ a.path[1] = "/" /\ Escaped(a.path, 1, PathChars)
     /\ a.params # <<>> => a.params[1] = ";" /\ Escaped(a.params, 1, ParamChars)
     /\ a.query # <<>> => Escaped(Tail(a.query), 0, UriChars)

HttpVersion(t) ==
  /\ t # <<>> /\ t[1] = "HTTP/"
  /\ \E k \in 3 .. Len(t) - 1 : t[k] = "." /\ \A i \in (2 .. Len(t)) \ {k} : t[i] \in Digits

MessageHeader(field) ==
  /\ field.name \in Seq(TokenChars) \ {<<>>} /\ field.pad \in Seq({"SP"})
  /\ field.value \in Seq(ValueChars) /\ (field.value # <<>> => field.value[1] # "SP")

Grammatical(a) ==
  /\ a.method \in Seq(MethodChars) /\ Len(a.method) \in 1 .. MaxMethod
  /\ {a.path, a.params, a.query, a.fragment, a.version} \subseteq Seq(Symbols)
  /\ RequestUri(a) /\ HttpVersion(a.version)
  /\ a.fragment # <<>> => Escaped(Tail(a.fragment), 0, UriChars)
  /\ a.fields \in Seq(ToSet(a.fields)) /\ \A i \in DOMAIN a.fields : MessageHeader(a.fields[i])

Init ==
  /\ asked \in Asked
  /\ \/ text = Render(asked)
     \/ \E i \in DOMAIN HeaderBlock(asked), c \in Damages : text = ReplaceAt(Render(asked), i, c)
  /\ read = 0
  /\ parser = Fresh
  /\ request = [made |-> FALSE, length |-> 0, remain |-> 0, body |-> <<>>]
  /\ open = TRUE
  /\ waits = "READ"
  /\ up = TRUE

----------------------------------------------------------------------------
(* HttpRequest.                                                            *)

DigitValue == [d \in Digits |-> CASE d = "0" -> 0 [] d = "2" -> 2 [] d = "8" -> 8]

\* lexical_cast<int>, which throws when the text is no number or no int.
Signed(value) == value # <<>> /\ Head(value) = "-"
DigitsOf(value) == IF Signed(value) THEN Tail(value) ELSE value
Number(value) ==
  LET n == FoldLeft(LAMBDA m, d : 10 * m + DigitValue[d], 0, DigitsOf(value))
  IN IF Signed(value) THEN -n ELSE n
IsInt(value) ==
  DigitsOf(value) # <<>> /\ ToSet(DigitsOf(value)) \subseteq Digits /\ Number(value) \in Ints

\* A result stored in an int.
Wrapped(n) == ((n + IntMax + 1) % (2 * (IntMax + 1))) - IntMax - 1

ContentLength == <<"Content-Length">>

BadLength(params) == ContentLength \in DOMAIN params /\ ~IsInt(params[ContentLength])

\* The constructor.  m_remain is negative when more than the body has come.
NewRequest(params) ==
  LET length == IF ContentLength \in DOMAIN params THEN Number(params[ContentLength]) ELSE 0
      body   == IF Body \in DOMAIN params THEN params[Body] ELSE <<>>
  IN [made |-> TRUE, length |-> length, remain |-> Wrapped(length - Len(body)), body |-> body]

setParamOnce(params, key, value) ==   \* a mutant: as the parser's callbacks do it
  Put(params, key, value)

\* Unlike the callbacks' insertions it overwrites.
setParam(params, key, value) == [k \in DOMAIN params \cup {key} |-> IF k = key THEN value ELSE params[k]]

isCompleteExactly(r) == r.remain = 0   \* a mutant: bytes past the body count too

isComplete(r) == r.remain <= 0

\* HttpRequest::handleRead, of a request that is not complete.
MoreBodyCounted(r, piece) ==   \* a mutant: the piece is counted, not kept
  [r EXCEPT !.remain = Wrapped(@ - Len(piece))]

MoreBody(r, piece) == [r EXCEPT !.body = @ \o piece, !.remain = Wrapped(@ - Len(piece))]

----------------------------------------------------------------------------
(* ClientEventHandler::handleRead.  closeConnection does not end the call. *)

Piece(n) == SubSeq(text, read + 1, read + n)

TooLong(n) == read + n >= MaxHeader

\* The last statement: the handler waits for WRITE once the request is there,
\* even when the call has closed the connection.
Rearm == waits' = IF request'.made /\ isComplete(request') THEN "WRITE"
                  ELSE IF open' THEN "READ" ELSE "none"

\* The header block is already there.
ReadBody(n) ==
  /\ is_finished(parser)
  /\ request' = MoreBody(request, Piece(n))
  /\ UNCHANGED <<parser, open, up>>

\* The parameters the server adds; getpeername() may fail by now.
RemoteAddr == <<"REMOTE_ADDR">>
ScriptName == <<"SCRIPT_NAME">>
PathInfo == <<"PATH_INFO">>
Slash == <<"/">>

WithServerParams(params, address) ==
  LET remote == setParam(params, RemoteAddr, address)
      script == setParam(remote, ScriptName, Slash)
  IN setParam(script, PathInfo, script[Names.request_uri])

\* What a finished parser makes of the handler.
Build(parsed, n) ==
  IF BadLength(parsed.params)
  THEN up' = FALSE /\ parser' = parsed /\ UNCHANGED <<request, open>>
  ELSE /\ request' = NewRequest(parsed.params)
       /\ open' = (Names.request_path \in DOMAIN parsed.params /\ ~TooLong(n))
       /\ \E address \in {<<"2">>, <<"?">>} :
            parser' = [parsed EXCEPT !.params = WithServerParams(@, address)]
       /\ UNCHANGED up

\* The piece joins m_data and the parser goes on.  Past MAX_HEADER_LENGTH the
\* memcpy leaves m_data and the parser looks at what lies behind it: the
\* process is aborted, or nothing happens.
ReadHeader(n) ==
  LET parsed == Execute(parser, SubSeq(text, 1, read + n)) IN
  /\ ~is_finished(parser)
  /\ \/ TooLong(n) /\ up' = FALSE /\ parser' = parsed /\ UNCHANGED <<request, open>>
     \/ IF is_finished(parsed) THEN Build(parsed, n)
        ELSE /\ parser' = parsed
             /\ open' = (~has_error(parsed) /\ ~TooLong(n))
             /\ UNCHANGED <<request, up>>

handleRead ==
  \E n \in 1 .. ChunkSize :
    /\ up /\ waits = "READ" /\ read + n <= Len(text)
    /\ ReadBody(n) \/ ReadHeader(n)
    /\ read' = read + n
    /\ Rearm
    /\ UNCHANGED <<asked, text>>

\* recv() returns 0: the client has sent all it will.
ReadsNothing ==
  /\ up /\ waits = "READ"
  /\ open' = FALSE
  /\ UNCHANGED <<asked, text, read, parser, request, up>>
  /\ Rearm

Next == handleRead \/ ReadsNothing

Spec == Init /\ [][Next]_vars

----------------------------------------------------------------------------
(* Properties.                                                             *)

\* What the parser knows of a request, apart from how much of the body came
\* with it.
ServerParams == {RemoteAddr, ScriptName, PathInfo}
Known(p) == [p EXCEPT !.params = [k \in DOMAIN @ \ ({Body} \cup ServerParams) |-> @[k]]]

\* The header block is understood the same way whatever pieces it arrives in:
\* the parser stands where one call over all of it would have left it.
PiecesDoNotMatter ==
  up => Known(parser) = Known(Execute(Fresh, SubSeq(text, 1, read)))

\* What a request says, by what its client meant: of two fields of one name
\* the first counts, and none is heard whose name is a parameter of its line.
LineMeant(a) ==
  {<<Names.request_method, a.method>>, <<Names.request_uri, Uri(a)>>,
   <<Names.http_version, a.version>>}
  \cup (IF Head(a.path) = "/" THEN {<<Names.request_path, a.path>>} ELSE {})
  \cup (IF a.query = <<>> THEN {} ELSE {<<Names.query_string, Tail(a.query)>>})
  \cup (IF a.fragment = <<>> THEN {} ELSE {<<Names.fragment, Tail(a.fragment)>>})

Meant(a) ==
  LET field(i) == <<a.fields[i].name, a.fields[i].value>>
      heard(i) == /\ \A m \in LineMeant(a) : m[1] # a.fields[i].name
                  /\ \A j \in 1 .. i - 1 : a.fields[j].name # a.fields[i].name
  IN LineMeant(a) \cup {field(i) : i \in {i \in DOMAIN a.fields : heard(i)}}

\* A grammatical request has the parameters its client meant, each with its value; but
\* the server's own are what the server says, whatever fields there are: a
\* request is always answered by the URI of its first line.
SaysWhatWasMeant ==
  (request.made /\ text = Render(asked) /\ Grammatical(asked)) =>
    /\ {<<k, parser.params[k]>> : k \in DOMAIN parser.params \ ({Body} \cup ServerParams)}
         = {m \in Meant(asked) : m[1] \notin {Body} \cup ServerParams}
    /\ parser.params[PathInfo] = Uri(asked) /\ parser.params[ScriptName] = Slash

\* The offsets parser.c asserts to lie inside the buffer do, after every call.
OffsetsInside ==
  read > 0 =>
    /\ parser.mark < read /\ parser.field_start < read
    /\ parser.field_len <= read /\ parser.body_start <= read
    /\ parser.nread <= read + (IF is_finished(parser) THEN 1 ELSE 0)

\* The body of a request is exactly what came behind its header block, and it
\* is complete when its length is reached; unless a field named "Body" has
\* taken its place, or the length is so near the least int that what is left
\* of it is none (one piece at most comes with the header block).
BodyIsTheRest ==
  (/\ request.made
   /\ \A i \in 1 .. parser.body_start - 1 : text[i] = "Body" => text[i + 1] # ":"
   /\ request.length - ChunkSize \in Ints) =>
    /\ request.body = SubSeq(text, parser.body_start + 1, read)
    /\ waits = "WRITE" <=> Len(request.body) >= request.length

\* What EventHandlers takes a request of each kind to do to its handler.
BodyDue ==
  LET due == {m[2] : m \in {l \in Meant(asked) : l[1] = ContentLength}}
  IN IF due = {} THEN 0 ELSE Number(CHOOSE n \in due : TRUE)

Kind ==
  IF \/ text # Render(asked) \/ ~Grammatical(asked)
     \/ Len(HeaderBlock(asked)) + ChunkSize > MaxHeader
     \/ \E i \in DOMAIN asked.fields : asked.fields[i].name = Body THEN "any"
  ELSE IF \E m \in Meant(asked) : m[1] = ContentLength /\ ~IsInt(m[2]) THEN "badlength"
  ELSE IF BodyDue - ChunkSize \notin Ints THEN "any"
  ELSE IF \A m \in Meant(asked) : m[1] # Names.request_path THEN "nopath" ELSE "good"

Verdict ==
  IF ~up' THEN "abort"
  ELSE IF open' THEN (IF waits' = "WRITE" THEN "reply" ELSE "more")
  ELSE IF waits' = "WRITE" THEN "revive" ELSE "close"

Expected ==
  LET head   == Len(HeaderBlock(asked))
      enough == read' >= head + BodyDue
  IN CASE read' = read -> "close"
       [] read' > read /\ read' < head -> "more"
       [] read' > read /\ read' >= head ->
            CASE Kind = "good" -> IF enough THEN "reply" ELSE "more"
              [] Kind = "nopath" -> IF enough THEN "revive" ELSE "close"
              [] Kind = "badlength" -> "abort"

\* Every call of handleRead ends as EventHandlers!ReadVerdicts says: a good
\* request is answered when, and only when, all of it has come.  Left out are
\* damaged and other texts that are no requests, header blocks that meet the limit, fields named "Body" and
\* lengths near the least int.
KeepsContract == [][Kind = "any" \/ Verdict = Expected]_vars
============================================================================
