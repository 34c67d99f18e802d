--------------------------- MODULE ResponseSender ---------------------------
(***************************************************************************)
(* How one request is answered: DirectorySender looks for what the path    *)
(* names and decides, HttpResponse sends status, headers and body, at most *)
(* one chunk per handleWrite.  The server runs one callback at a time, but *)
(* the disk is not the server's: files are created, replaced and changed   *)
(* between the calls that look at them.  Bytes are counted, not named.     *)
(***************************************************************************)
EXTENDS Integers

CONSTANTS
  ChunkSize,    \* CHUNK_SIZE
  HeaderSizes,  \* sizes of the status line and headers
  TextSizes,    \* sizes of a body the server makes up (m_response->out)
  FileSizes,    \* sizes a file may have
  MaxChanges    \* bound: how often the disk changes during the exchange

ASSUME ResponseAssumption ==
  /\ ChunkSize \in Nat \ {0}
  /\ HeaderSizes \subseteq Nat \ {0}
  /\ TextSizes \subseteq Nat \ {0}
  /\ FileSizes \subseteq Nat
  /\ MaxChanges \in Nat

VARIABLES
  asked,     \* the request, and how the server is set up for it
  disk,      \* what the path names now
  changes,   \* how often the disk has changed
  stage,     \* how far the exchange is
  target,    \* what canServe returned: none, the path, or its index file
  response,  \* HttpResponse: status, whether its body is made up, announced
             \* length, what its streams still hold
  file,      \* m_file; bad when reading it fails
  sent,      \* bytes sent, of the header block and of the body
  touched    \* the disk changed after the length was announced

vars == <<asked, disk, changes, stage, target, response, file, sent, touched>>

MaxCalls == 2   \* bound: calls of handleWrite are counted up to two

\* asked.method: OTHER is POST, PUT or DELETE; an unknown method counts as GET.
\* Nodes: what there is at a path below the directory that is served; a path
\* that leads out of it is none.  Readings: how what is there can be read.
Nodes == {"none", "file", "dir"}
Readings == {"fine", "denied", "broken"}
Disks == [path : Nodes, index : Nodes, size : FileSizes, io : Readings]
Statuses == {200, 403, 404, 405}
Responses == [status : Statuses, made : BOOLEAN, length : Nat, head : Nat,
              headEof : BOOLEAN, text : Nat, textEof : BOOLEAN, calls : 0 .. MaxCalls]
Files == [open : BOOLEAN, bad : BOOLEAN, eof : BOOLEAN, pos : Nat]
Stages == {"locate", "decide", "size", "open", "write", "done", "aborted"}

TypeOK ==
  /\ asked \in [method : {"GET", "HEAD", "OTHER"}, listing : BOOLEAN,
                header : HeaderSizes, text : TextSizes]
  /\ disk \in Disks
  /\ changes \in 0 .. MaxChanges
  /\ stage \in Stages
  /\ target \in {"none", "path", "index"}
  /\ response \in Responses
  /\ file \in Files
  /\ sent \in [head : Nat, body : Nat]
  /\ touched \in BOOLEAN

Smaller(a, b) == IF a < b THEN a ELSE b

Counted == Smaller(MaxCalls, response.calls + 1)

\* What a target names at this moment.
Node(t) ==
  CASE t = "none"  -> "none"
    [] t = "path"  -> disk.path
    [] t = "index" -> IF disk.path = "dir" THEN disk.index ELSE "none"

Init ==
  /\ asked \in [method : {"GET", "HEAD", "OTHER"}, listing : BOOLEAN,
                header : HeaderSizes, text : TextSizes]
  /\ disk \in Disks
  /\ changes = 0
  /\ stage = "locate"
  /\ target = "none"
  /\ response = [status |-> 404, made |-> FALSE, length |-> 0, head |-> 0, headEof |-> FALSE,
                 text |-> 0, textEof |-> FALSE, calls |-> 0]
  /\ file = [open |-> FALSE, bad |-> FALSE, eof |-> FALSE, pos |-> 0]
  /\ sent = [head |-> 0, body |-> 0]
  /\ touched = FALSE

----------------------------------------------------------------------------
(* DirectorySender.                                                        *)

\* canServe: the path, its index file when it is a directory, or the directory
\* itself when it has none and directories may be listed.
CanServe ==
  IF disk.path = "file" THEN "path"
  ELSE IF disk.path = "dir" /\ disk.index # "none" THEN "index"
  ELSE IF disk.path = "dir" /\ asked.listing THEN "path"
  ELSE "none"

Locate ==
  /\ stage = "locate"
  /\ target' = CanServe
  /\ stage' = "decide"
  /\ UNCHANGED <<asked, disk, changes, response, file, sent, touched>>

\* A status with a made-up body, sent as a whole: its length is announced.
Text(status) ==
  /\ response' = [response EXCEPT !.status = status, !.made = TRUE, !.length = asked.text,
                                  !.head = asked.header, !.text = asked.text]
  /\ stage' = "write"

\* sendDirectoryListing; the iterator throws on a directory it cannot read.
SendDirectoryListingAnyway ==   \* a mutant: canServe has already decided
  IF disk.io = "denied" THEN stage' = "aborted" /\ UNCHANGED response ELSE Text(200)

SendDirectoryListing ==
  IF ~asked.listing THEN Text(403)
  ELSE IF disk.io = "denied" THEN stage' = "aborted" /\ UNCHANGED response
  ELSE Text(200)

DecideFileFirst ==   \* a mutant: the method is looked at before the directory
  /\ stage = "decide"
  /\ IF target = "none" THEN Text(404)
     ELSE IF asked.method \in {"GET", "HEAD"}
     THEN response' = [response EXCEPT !.status = 200] /\ stage' = "size"
     ELSE IF Node(target) = "dir" THEN SendDirectoryListing ELSE Text(405)
  /\ UNCHANGED <<asked, disk, changes, target, file, sent, touched>>

\* process, once canServe has returned.
Decide ==
  /\ stage = "decide"
  /\ CASE target = "none"         -> Text(404)
       [] target # "none" /\ Node(target) = "dir" -> SendDirectoryListing
       [] target # "none" /\ Node(target) # "dir" ->
            IF asked.method \in {"GET", "HEAD"}
            THEN /\ response' = [response EXCEPT !.status = 200]
                 /\ stage' = "size"
            ELSE Text(405)
  /\ UNCHANGED <<asked, disk, changes, target, file, sent, touched>>

\* sendFile: sendStatus(file_size()) and sendHeaders.  file_size throws when
\* there is no file any more; a length of zero is not announced.
SendStatus ==
  /\ stage = "size"
  /\ IF Node(target) = "file"
     THEN /\ response' = [response EXCEPT !.length = disk.size, !.head = asked.header]
          /\ stage' = "open"
     ELSE stage' = "aborted" /\ UNCHANGED response
  /\ UNCHANGED <<asked, disk, changes, target, file, sent, touched>>

\* HttpResponse::sendFile, for GET only.  A failed open is only logged; a
\* directory can be opened, and then not be read.
OpenFile ==
  /\ stage = "open"
  /\ file' = [file EXCEPT !.open = /\ asked.method = "GET"
                                   /\ Node(target) # "none"
                                   /\ disk.io # "denied",
                          !.bad = Node(target) = "dir" \/ disk.io = "broken"]
  /\ stage' = "write"
  /\ UNCHANGED <<asked, disk, changes, target, response, sent, touched>>

----------------------------------------------------------------------------
(* HttpResponse::handleWrite: one read() of a chunk and one send().  A     *)
(* stream is at its end only when a read asked for more than it had.       *)

FromHeaderButRest ==   \* a mutant: eof is judged by what is left
  LET n == Smaller(ChunkSize, response.head) IN
  /\ ~response.headEof
  /\ response' = [response EXCEPT !.head = @ - n, !.headEof = response.head - n < ChunkSize,
                                  !.calls = Counted]
  /\ sent' = [sent EXCEPT !.head = @ + n]
  /\ UNCHANGED file

FromHeader ==
  LET n == Smaller(ChunkSize, response.head) IN
  /\ ~response.headEof
  /\ response' = [response EXCEPT !.head = @ - n, !.headEof = response.head < ChunkSize,
                                  !.calls = Counted]
  /\ sent' = [sent EXCEPT !.head = @ + n]
  /\ UNCHANGED file

\* What is left of the file; a read that fails brings nothing and does not
\* reach the end.
FileLeft == IF disk.size > file.pos /\ ~file.bad THEN disk.size - file.pos ELSE 0

FromFileUnlessEnd ==   \* a mutant: the chunk that meets the end is not sent
  /\ response.headEof /\ file.open /\ ~file.eof
  /\ file' = [file EXCEPT !.pos = @ + Smaller(ChunkSize, FileLeft),
                          !.eof = FileLeft < ChunkSize /\ ~file.bad]
  /\ sent' = [sent EXCEPT !.body = IF FileLeft < ChunkSize THEN @ ELSE @ + ChunkSize]
  /\ response' = [response EXCEPT !.calls = Counted]

FromFile ==
  LET n == Smaller(ChunkSize, FileLeft)
  IN /\ response.headEof /\ file.open /\ ~file.eof
     /\ file' = [file EXCEPT !.pos = @ + n, !.eof = FileLeft < ChunkSize /\ ~file.bad]
     /\ sent' = [sent EXCEPT !.body = @ + n]
     /\ response' = [response EXCEPT !.calls = Counted]

FromTextWholeChunk ==   \* a mutant: gcount() is taken to be the chunk
  /\ response.headEof /\ ~file.open /\ ~response.textEof
  /\ response' = [response EXCEPT !.text = @ - ChunkSize, !.textEof = response.text < ChunkSize,
                                  !.calls = Counted]
  /\ sent' = [sent EXCEPT !.body = @ + ChunkSize]
  /\ UNCHANGED file

FromText ==
  LET n == Smaller(ChunkSize, response.text) IN
  /\ response.headEof /\ ~file.open /\ ~response.textEof
  /\ response' = [response EXCEPT !.text = @ - n, !.textEof = response.text < ChunkSize,
                                  !.calls = Counted]
  /\ sent' = [sent EXCEPT !.body = @ + n]
  /\ UNCHANGED file

ExhaustedFile == file'.open /\ file'.eof   \* a mutant: made-up bodies never end

ExhaustedByCount ==   \* a mutant: bytes left in place of eof()
  IF file'.open THEN file'.pos >= disk.size ELSE response'.text = 0

\* The stream the body comes from is at its end.
Exhausted == IF file'.open THEN file'.eof ELSE response'.textEof

HandleWrite ==
  /\ stage = "write"
  /\ FromHeader \/ FromFile \/ FromText
  /\ stage' = IF Exhausted THEN "done" ELSE "write"
  /\ UNCHANGED <<asked, disk, changes, target, touched>>

----------------------------------------------------------------------------
\* Somebody else changes what the path names.  A file that is open stays, and
\* can grow or be cut; how it is read does not change any more.
ChangeDisk ==
  /\ stage \notin {"done", "aborted"}
  /\ changes < MaxChanges
  /\ \/ \E size \in FileSizes : disk' = [disk EXCEPT !.size = size]
     \/ ~file.open /\ \E node \in Nodes : disk' = [disk EXCEPT !.path = node]
     \/ ~file.open /\ \E node \in Nodes : disk' = [disk EXCEPT !.index = node]
     \/ ~file.open /\ \E io \in Readings : disk' = [disk EXCEPT !.io = io]
  /\ disk' # disk
  /\ changes' = changes + 1
  /\ touched' = (touched \/ stage \in {"open", "write"})
  /\ UNCHANGED <<asked, stage, target, response, file, sent>>

Step == Locate \/ Decide \/ SendStatus \/ OpenFile \/ HandleWrite

Next == Step \/ ChangeDisk

Spec == Init /\ [][Next]_vars

\* The socket stays writable, so the dispatcher calls handleWrite again.
FairSpec == Spec /\ WF_vars(Step)

----------------------------------------------------------------------------
(* What an exchange promises.                                              *)

\* handleWrite reads into an uninitialised count when none of its streams has
\* anything to read; whenever it can be called, exactly one of them has.
SourceLeft ==
  stage = "write" =>
    \/ ~response.headEof
    \/ file.open /\ ~file.eof
    \/ ~file.open /\ ~response.textEof

\* No byte of a body is sent before the last byte of the header block, however
\* the chunks fall (a header block may end exactly with a chunk).
HeaderFirst == sent.body > 0 => sent.head = asked.header

\* The body that was sent is as long as the Content-Length that was announced,
\* which for HEAD is the length of the file that is not sent: unless the file
\* changed after its length was taken or could not be opened or read.
AnnouncedIsSent ==
  (stage = "done" /\ ~touched /\ disk.io = "fine") =>
    /\ sent.head = asked.header
    /\ sent.body = IF response.made \/ asked.method = "GET" THEN response.length ELSE 0

\* ClientEventHandler needs at least two handleWrite calls per response: the
\* header block and the body never share one (EventHandlers relies on it).
TwoWrites == stage = "done" => response.calls >= 2

\* A directory is listed only if listing is allowed, although canServe and
\* process look at the disk separately, and an index may be a directory.
ListsOnlyIfAllowed == (response.made /\ response.status = 200) => asked.listing

\* The process ends over a request (an exception of the file system library
\* that nobody catches) only if the disk changed meanwhile or a directory
\* cannot be read.
AbortsOnlyOnRace == stage = "aborted" => changes > 0 \/ disk.io = "denied"

\* Every exchange comes to its end, unless its file cannot be read.
Finishes == <>(stage \in {"done", "aborted"} \/ file.bad)
============================================================================
