# custer in TLA+

custer is a small HTTP server: one process, one thread, an event loop that calls
event handlers when the operating system says that a socket can be accepted
from, read, written or is closed. It answers each connection's one request with
a file, a directory listing or an error, and closes it. This directory models
that program in TLA+, checks the models with TLC and proves parts of them with
TLAPS.

All paths below are relative to `src/` of the repository (so `KQueueDispatcher.cpp`
is `src/src/KQueueDispatcher.cpp` there).

## 1. The system

| component | state it keeps | operations | talks to |
|---|---|---|---|
| `KQueueDispatcher` | map of handlers and their events; vector of pending changes and its capacity; the list of events under dispatch | `registerHandler`, `removeHandler`, `handleEvents` | the kernel (`kevent`), handlers (callbacks) |
| `SelectDispatcher` | the map; read and write sets and their copies; `m_sockets` | the same | the kernel (`select`, `getpeername`, a peeking `recv`), handlers |
| `Dispatcher` | none | forwards to the native dispatcher | one of the two above |
| `ListenEventHandler` | the listening socket | `handleAccept` | the dispatcher (registers a new handler) |
| `ClientEventHandler` | socket, header buffer, parser, parameters, request, response | `handleRead`, `handleWrite`, `handleClose` | parser, request, response, `DirectorySender`, the dispatcher |
| HTTP parser (`http/`) | machine state, `nread`, marks | `http_parser_execute` on a growing buffer | callbacks |
| parser callbacks | the parameter map | `std::map::insert` | - |
| `HttpRequest` | length, what remains, body, the parameters | construction, `handleRead`, `isComplete`, `setParam`, `escape`, `unescape` | - |
| `HttpResponse` | status, headers, message stream, body stream, file | `send*`, `handleWrite`, `done` | the socket, the file system (the file takes a descriptor) |
| `DirectorySender` | directory, index name, listing allowed | `process` | the file system, `HttpResponse` |
| `CusterServer`, `main` | port, directory | `run` | everything |

Nothing runs in parallel inside the process. What is hard is that the world moves
between any two of its system calls:

* **stale events**: an event says what was true when `kevent()`/`select()` returned.
  By the time it is handled an earlier callback may have closed its descriptor,
  destroyed its handler, or accepted another connection on the same number; and
  the client may have finished or reset.
* **callbacks that change what is being walked**: registrations made in a callback
  grow the vector that `handleEvents` is walking.
* **early returns that are not there**: `closeConnection` does not end `handleRead`.
* **split input**: a request arrives in any pieces; the parser keeps offsets, not
  pointers, between calls.
* **streams that are at their end only once a read failed**: sizes that are whole
  numbers of chunks, empty files.
* **a disk that is not ours**: a file is looked at four times before and while it
  is sent.
* **one table of descriptors**: connections, files being sent and directories being
  listed draw on it together; `accept` at the limit ends the process, a listing throws,
  a file is sent as if it were empty.
* **text that is decoded twice**: a path is unescaped on its way in, links are built
  from the unescaped path, and a client decodes them again.
* **one bad connection ends all**: `fatal()` and uncaught exceptions end the process.

What makes each part correct:

* reactors: a raw `udata` pointer is never dangling; the map and the kernel agree
  on who waits for what; each open descriptor has exactly one handler; the
  response sent on a connection is that of the request it carried; a client that
  does its part is answered; the process ends for known reasons only;
* reader: the request does not depend on the pieces it came in, says what the
  client meant, and its body is exactly what followed the header block;
* listings: a client is shown what it asks for, however it is written, and links
  lead to what they name;
* sender: the header block precedes the body, the announced length is the sent
  one, there is always something to read when a write is due, and it ends.

`PROJECT.json` lists the components, and under `hazards` every place of the code
that is hard to test, with the properties aimed at it.

## 2. The modules

```
Sockets  <-  EventHandlers  <-  KQueueReactor   <-  MCKQueueReactor
   (external)     |         <-  SelectReactor   <-  MCSelectReactor
                  |  INSTANCE
          ConnectionService (abstract)

EventHandlers  <-  EventHandlersProofs
KQueueReactor, EventHandlersProofs  <-  KQueueReactorProofs
SelectReactor, EventHandlersProofs  <-  SelectReactorProofs

HttpParser  <-  RequestReader   <-  MCRequestReader
RequestReader, SharedLemmas     <-  RequestReaderProofs  <-  RequestMeaningProofs
ResponseSender  <-  MCResponseSender, ResponseSenderProofs
UriCoding  <-  DirectoryListing  <-  MCDirectoryListing
DirectoryListing, SharedLemmas  <-  DirectoryListingProofs
```

**Sockets** is not code of the repository. It has the clients (connect, send a
segment, finish, reset, stop reading, abort in the backlog) and what `recv`,
`send` and `getpeername` meet. The table of descriptors is finite, which
`SocketsAssumption` says. A request is a record: its kind, and in how many
segments header block and body arrive. The kinds are those that `handleRead`
treats differently.

**EventHandlers** has the effects of the callbacks on sockets and handlers:
`Accept`, `Read` (with the verdict `handleRead` comes to), `ReadFails`, `Write`,
`Close`, `Fatal`. Connections and the files of responses take their descriptors from one
table (`FreeFds`, `file`): the first `Write` of a handler opens the file it sends, if a
descriptor is left, or lists a directory, which throws if none is; either throws if the disk
fails it (`ProcessThrows`: what `process()` throws, nobody catches). The last
`Write`, and `Close`, give the file's descriptor back. `ReadVerdicts` is where uncertainty of the C++ code enters:
past the header limit, `handleRead` copies beyond its buffer, so any outcome is
possible, and so it is for a handler whose descriptor is not its own any more.
Whether the disk can fail is one of the `Faults` of Sockets (`"disk"`); when it can, each
answer from it may be the one that fails, since a directory may be unreadable from the start and
a file may vanish between any two looks at it. `MayEnd` lists, callback by callback, what may end
the process. It also has the refinement mapping to ConnectionService.

**KQueueReactor** composes them with `KQueueDispatcher` under `CusterServer::run`.
`kq` is the dispatcher (`map` = `m_eventHandlerMap`, `changes` =
`m_keventChanges[0 .. m_keventUsed)`, `size` = `m_keventSize`), `knote` the
kernel's side. One call of `handleEvents` is `Submit` (the kernel takes the
changes), `Collect` (events come back), and for each event `Advance` and one of
`HandleAccept`, `HandleRead`, `HandleWrite`, `HandleClose`, `NothingToDo`.
A callback is one step with all its registrations; clients move between any two
steps. A change the kernel refuses only makes it log an error, so `Submit` takes
the others. `moved` records that the list was reallocated
during the walk; from then on `LoseRest` (the pointer is past the new end) and
`WalkFreed` (the memory is not the list any more) are possible besides the
lucky case. Order in a batch is the kernel's, so `batch` is a set.

**SelectReactor** does the same for `SelectDispatcher`. `Select` takes the copies
and the queue; a turn is `Take` (`getpeername`), `Peek`/`PeekFails` (the peeking
`recv`), then `HandleWrite` and `HandleAccept`/`HandleRead`/`NothingToRead`.
Several steps, because the client may reset between those calls. It is the
non-Windows variant of that file (with `m_sockets`), although the build scripts
only use it on Windows, where the bound it computes is ignored. `std::map` orders
handlers by address, so the queue is a set as well.

**ConnectionService** is what either reactor promises, with no descriptor, event
or handler in sight: connections arrive, are admitted, told the chunks of their
response, and dropped only for their own doing; a client may also give up before
it is admitted (`Vanish`, a connection aborted in the backlog). The service may end when it is full,
over a client that left, and, before the first chunk of an answer from a disk that may fail, for
that (`EndUnread`). Both reactors implement it
(`ImplementsService`, the mapping is in EventHandlers: a connection's phase is
read off the backlog and the descriptor table, `told` is `wrote`).

**HttpParser** is the Ragel machine: one edge per alternative of `common.rl`, one
symbol per class of characters it tells apart, the actions with the offsets of
`parser.rl`. An `ASSUME` that TLC evaluates says that it is deterministic, as
the generated tables are. **RequestReader** puts `ClientEventHandler::handleRead`
and `HttpRequest` around it: a client renders a request as text, possibly with
one character damaged, and every call receives a next piece. That what it renders is text is
all that `AskedAssumption` asks of the requests; `Grammatical` says which of them follow
`common.rl`, rule by rule, and only of those `SaysWhatWasMeant` and `KeepsContract` say something.

The two views of `handleRead` are tied: `KeepsContract` (checked and proved in RequestReader)
says that each call ends with the verdict that `ReadVerdicts` gives in EventHandlers.
Likewise `TwoWrites` (checked and proved in ResponseSender) is the assumption
`Writes >= 2` of EventHandlers. RequestReader has the lengths of bodies as `int`s that
wrap at `IntMax`, and the parameters the server adds (`WithServerParams`), which
overwrite where the parser's callbacks do not.

**ResponseSender** is one exchange: `Locate` (canServe), `Decide` (process),
`SendStatus` (file_size and the header block), `OpenFile`, then one `HandleWrite`
per chunk, with `ChangeDisk` at any point. Sizes are numbers, streams are what is
left of them and their eof flag. `aborted` is an exception of the file system
library, which nobody catches.

**UriCoding** has `escape` and `unescape` on strings of bytes, with the arithmetic of
the code (a nibble from a character's low bits, a shift in eight bits), and
**DirectoryListing** what `canServe`, `process` and `sendDirectoryListing` make of a URI
on a tree of names. Its environment is a client that asks for a node it knows, in any
spelling, or follows a link of the listing it sees, as browsers resolve links; `meant`
is what the client wants to see, and `from` the directories whose listings it came through
since it last typed. `ListingAssumption` says that `Tree` is one: the root is in it, a node's
parent is a directory of it, and names are what file systems have (not empty, no slash and no NUL,
not `.` or `..`). The two are checked together, as a round trip through
the client, and not as functions: the question is whether a client gets what it means
after any number of links. PATH_INFO is the whole URI with its query, as in the code
(which marks it with a "FIX"), so a link whose query is not empty leads nowhere.

## 3. The runs

| run | instance | what it shows |
|---|---|---|
| `kq_safety` | 3 connections, 2 descriptors, files and malformed requests in 1-2 segments, fin and reset | pointers, registrations, descriptors of connections and files, own responses, refinement |
| `kq_growth` | 3 connections, 2 descriptors, vectors for 3, any two of the seven kinds of requests, reset, abort and a failing disk | vectors never overflow, when the list moves, why the process ends, when `accept` blocks |
| `kq_liveness` | 2 connections, 3 descriptors, every answerable kind, fairness | `Served`, `Released` |
| `select_safety` | as `kq_safety`, with listings for files and a failing disk | sets and queue are consistent, the count covers every ready descriptor of the queue and of the turn under way, refinement |
| `select_revived` | 3 connections, 2 descriptors, any two of the seven kinds of requests, reset, stall and a failing disk | the bound given to `select()`, why the process ends |
| `select_liveness` | 2 connections, 2 descriptors, every answerable kind, fairness | `HalfClosedServed`, `Released` |
| `response` | chunk of 2; header of 2, 3; texts of 1, 2; files of 0, 2, 3; 2 changes | all of ResponseSender, with `Finishes` |
| `reader` | requests of every shape, pieces of 1 to 5, a header limit of 38, ints up to 7, one damaged character | all of RequestReader |
| `listing` | a tree of odd names below directories with plain and odd names, one of them reading as an encoded slash, one with an index | `ShowsWhatIsMeant` |

Bounds. Two descriptors for three connections is the least at which a descriptor
is reused while another connection lives and at which `accept` finds none free;
a segment is the unit in which a `recv` can be short, so one header and one body
segment give every order of short reads that the verdicts distinguish. `Writes = 2`
is the least number of chunks a response takes. `KeventSize` is 64 in the code: 8
is more than these instances can fill, 3 or 4 makes the vectors grow. `ChunkSize`
2 has sizes below, at and above one chunk and one above; in `reader` a piece of 5
spans at least two tokens, and the limit of 38 is met both within the header block
and by a piece that also carries body; with `IntMax` 7 the lengths `8`, `-8` and `-2` are
no int, the least int and one that leaves its rest negative. Two descriptors for two connections
and their files is the least at which a file or a listing finds none left; three is
the least at which all of them fit and at which they do not, both in one run. The names of
`listing` have one byte of each kind `escape`, `unescape` and clients tell apart,
alone and in pairs, and one that reads as an encoded byte. Symmetry over connections and descriptors
is used in safety runs only. `TwoKindsSpec` bounds `kq_growth` and `select_revived` to clients
whose requests are of two kinds at most (any two of the seven that may meet): what a request does
to the process or to another connection takes one of either kind, the third client being of one of
them. Bounds in the models themselves: `MaxChanges`
(changes of the disk) and `MaxCalls` (calls of `handleWrite` are counted up to
two); each connection is opened once; `RevivedMeetNoFiles` (section 5).

Deadlock is not checked: the reactors rightly stop when every client was served,
and when the process has ended.

Fairness. `FairSpec` of the reactors is `WF_vars(ServerStep)`: the process keeps
running unless it is blocked in a call, in which case no server step is enabled. It
is weak, over all steps of the server together, since one thread takes them one
after another. Nothing is assumed of clients. `FairSpec` of ResponseSender asks
the same of the exchange: the socket stays writable, so the dispatcher calls
`handleWrite` again. Liveness is checked where no client stalls: a blocking
`send()` to a client that stopped reading does block every other one. Stalls are part of
`select_revived`.

Where the code and what it says of itself part, a run shows it (`findings`):

| run | what is said | what happens |
|---|---|---|
| `kq_closed_stays` | `closeConnection` closes and deregisters (`ClientEventHandler.h:71`) | `handleRead` goes on and registers the closed handler again |
| `kq_events_lost` | `handleEvents` sends the events to the handlers (`IDispatcher.h:56-57`) | events are lost when the list moves |
| `listing_links` | the base of a listing is there "para que los enlaces funcionen" (`DirectorySender.cpp:120`, `.h:57`) | it is written unescaped: links below a directory with a `+`, `%`, `#`, `"` or `?` in its name do not lead to what they name |

What the properties say of the rest is conditional where the code is weak, and
the condition is in the property: `DiesForCause` says of each step that ends the process that
it has a cause in the very callback (no descriptor for `accept`; a reset of that client, a header block of that
client with a bad Content-Length or too long, its complete request whose answer does not get a descriptor or a disk,
a revived handler that took its descriptor or bytes) or is the walk over a list that moved, or a `select()` over
a revived handler's descriptor, and so that, the want of descriptors apart, no step ends it for what only happened to another connection. What
the C++ library throws for want of memory is not among them (section 5). `AcceptBlocksForAbort` that
`accept`, which "no debería bloquear", does so only for an aborted connection, `Finishes` and
`AnnouncedIsSent` except a file that cannot be read (or, the second, opened), `Served` asks only for clients
that stay open on kqueue (a half-closed client is closed with its request unread;
on select it is answered, `HalfClosedServed`), `BodyIsTheRest` excepts a field
named as the server's own body parameter and lengths so near the least int that the
rest of the body wraps, `ShowsWhatIsMeant` asks links to work when all the directories a client
came through are plainly named. That the last one is plain is not enough: in the listing of a
directory named `%2F` the base of the links reads as `//`, so the listing below it, of a plain
directory, has a base that begins with two slashes, and its links lead to another server.

Each property of a passing run has a mutant in `PROJECT.json`: a plausible bug
in a definition of the code, next to that definition in its module, that makes the
run fail on that property.

## 4. The proofs

Proved by TLAPS for all values of the constants that meet the named assumptions
(`SocketsAssumption`, `EventHandlersAssumption`, `KeventSizeAssumption`,
`ResponseAssumption`, `ParserAssumption`, `ReaderAssumption`, `AskedAssumption`,
`ListingAssumption`). Every safety property that a run checks is proved: all invariants, both refinements
and the contract of `handleRead`.

**EventHandlersProofs** has what both reactors share. A step of a reactor, seen from
the handlers, is one of nine things (`HandlersStep(M, N)`, where `M` and `N` are the
dispatcher's map before and after): a client's step, a callback with what it leaves in
the map, the end of the process, or nothing. `HInv(M)` is an invariant of those steps
(`HandlersKeep`): a handler waits for nothing, for bytes or for room and has a
descriptor while it does (`InvBase`), and, *while the state is clean*, the map holds
exactly the handlers whose descriptor is their own, connections and files share no
descriptor, what was read, received and is still unsent makes up the request, and what
was sent was sent to its own client after its whole request (`InvClean`).

`Clean` says that no request was read so far that can revive its handler: one
without a path, or beyond the header limit. Such a request leaves a handler registered on a closed
descriptor (`kq_closed_stays`), after which another connection's bytes may be read into it;
it is the one thing after which the properties below, as they stand, are
false of the code. They are therefore proved as `Spec => [](Clean => P)`, for any
mix of requests and up to the moment one of that kind was read. `Clean` holds for ever if there is no
such request (`PlainIsClean`), as in the runs `kq_safety` and `select_safety`, where the
properties are checked without a condition. `DiesForCause`, `AcceptBlocksForAbort`, `BoundCovers`, `UdataAlive`,
`ChangesFit`, `ListMovesLate` and the types need no such condition. All of them are about the mixes of requests
that `HandlersInit` allows: no reviving request together with one that is answered from the disk
(`RevivedMeetNoFiles`, section 5).

The refinement is proved on the same steps: `HandlersServe` says that each of them is a
step of ConnectionService or a stutter while `HInv` and `Clean` hold, with one lemma per kind of
step. It needs to count: a place of the service is a descriptor, so `Full` says that
`FreeFds` is empty, since connections and files take one descriptor each (`Places`).
What is left for a reactor is to show that its actions are such steps.

**KQueueReactorProofs.** `TypeOK`, `UdataAlive`, `ChangesFit` and
`ListMovesLate` of `Spec`, for any number of connections and descriptors, all
kinds of requests and all faults, vectors of any initial capacity. None of them
is inductive. For `UdataAlive` the argument is: a handler is removed only by its
own callback; it never has two events in one list, since it waits for one filter
at a time (`InvHandlers`, `InvEvents`: the events in flight are of registered
handlers that still have the descriptor, and of different ones); a handler with an
`EV_ADD` pending has no event left in the list (`InvChanges`); a knote is wanted by its
registered handler or has a change pending that takes it away (`InvKnotes`), and closing
a descriptor takes all of them (`InvClosed`). `ChangesFit` needs that one call fills
at most one kevent, since each set of events that occurs takes one filter.
`ListMovesLate` needs that the vector never holds more than two changes per
event dispatched (`InvVectors`), so it cannot fill up before half its initial capacity
was dispatched. The inductive invariant is the conjunction of these (`IInv`,
theorem `Invariance`), with one lemma per action below it.

Its second part adds to `IInv` and `HInv(kq.map)`: an event in flight is one its handler
waits for, and reports what still holds of its connection (`InvReported`: a reset or a finished
stream stays so, which is why a stale event is harmless); what a handler waits for, the
kernel reports once it has the pending changes (`InvSync`); a pending `EV_DELETE` finds what
it takes away, in the kernel or in an earlier change (`InvPending`); a list has at most
one event per descriptor, and two once a handler was revived (`InvBatch`, `InvBatchAny`). From that follow, under `Clean`, `InterestInSync`, `ChangesSucceed`,
`NoLeak` and `OwnResponse`, and, without it, `AcceptBlocksForAbort` and `DiesForCause`. `EndsKnown` (`DiesForCause`) goes callback by
callback: an event in flight has a branch of `handleEvents` left that fits it, since its handler still waits
for it, unless `getpeername` fails, and then its own connection was reset or its handler revived
(`NothingFits`); what `handleRead` and `handleWrite` end the process for is in `ReadVerdicts`,
`ReadFails` and `ProcessThrows`, and each of them is a cause of `MayEnd` (`EndsFor`). `StaysPut` and `StaysPutForAny`
have no run of their own. If the vectors start with room for more than twice as many
changes as there are descriptors (`Roomy`; 64 in the code, so up to 30 of them besides the
listening one), the list does not move while it is walked, as long as the state is clean. With more than four
times as many (`RoomyForAny`; up to 14) it never does, for a revived handler can give its descriptor a second event
in one list but not a third. `Implements` is the refinement, from two
hypotheses: `Roomy`, since a list that moved loses events (`kq_events_lost`) or is read
from freed memory, and `PlainRequestsOnly`, every request is answered or refused as malformed
(the kinds it excludes end the process or revive a handler, neither of which the service
allows).

**SelectReactorProofs.** The invariant `SInv` is `HInv(sel.map)` with: a pair of the queue is what
the map still says (`InvQueue`; a callback only touches its own handler, and a handler is
once in the queue), so does the turn under way until its callbacks ran, and no handler
reads and writes in one turn (`InvTurn`); the bound covers the sets
also inside a turn (`InvBound`); and, under `Clean`, the two sets are those of the map
(`InvSets`), although `READ`, `ACCEPT` and `CLOSE` share a bit that `removeHandler` clears, because whoever still
waits registers again in the same call; `readySockets` is at least the number of
bits of the queue and of the turn that are not looked at yet (`InvCount`). Proved are `TypeOK`, `BoundCovers` and
`DiesForCause` without a condition, `QueueNotStale`, `SetsInSync`, `EveryReadyServed`, `NoLeak` and
`OwnResponse` under `Clean`, and the refinement for `PlainRequestsOnly`. The map's part of
`QueueNotStale` is proved without a condition too.

**ResponseSenderProofs.** All safety properties of `response` for every chunk
size, every size of header block, text and file and any number of changes. The
inductive invariant relates what was sent to what the streams hold: `Head` (sent
plus left is the header block, and the body waits for it), `MadeUp` and `FromDisk` (the same for
the two kinds of body), `Ended` (an exchange that goes on has something left, one
that is done has not), `FoundIsThere` (what canServe found is there while the disk has not
changed) and `NothingYet`.

**SharedLemmas.** What a fold over a text computes is an induction over the text, and the
library's induction theorems cannot be instantiated. What can be cited is that every set of natural numbers
has a least one (`LeastNumber`, from the well-foundedness of `<`). From that follow `Upward`
and `Downward`: a set that has the first number of an interval and, with each, the next one
has all of them. A property of the places of a text is then the set of those places. The recursive operators are
functions (`Perform`, `Run`, `Segments`, `unescape`, ...): a function with the defining equation
is built place by place, and is unique, in the same way. `Joined` and its lemmas are about
sequences put together from others, and what stands where in them.

**RequestReaderProofs.** All of the parser and reader that does not say what a request
means, for any requests, any damage, pieces and limits of any size, and ints of any width.
Edges are taken by their shape (`EdgeShape`: where values are stored, that a name ends at a colon,
that the URI is stored before anything behind it). `After(q, b, i)` is what holds of a parser
that has seen `i` characters of `b`: its marks and lengths lie behind `i`, the field whose value it
reads has its name, and when it is finished the body is what follows. It holds along the
whole trace of a call (`TraceOK`). Two buffers that begin alike leave a parser `Same`: equal, or
finished and equal but for the body and the server's parameters (`TraceSame`). From that follows that a
resumed parser stands where one call over the whole text would stand. The inductive
invariant `RInv` has seven parts: `Types`; `Offsets`; `Going` (while more of the header block is waited for,
the parser is the one a single call would have left, and has not failed); `Told` (it is alike to that one ever
after); `Made` (a request is there if and only if the parser has finished, and the handler writes when it is complete);
`Rest` (the body is what followed the header block) and `Left` (what remains is the length less the body). Proved are
`TypeOK`, `OffsetsInside`, `PiecesDoNotMatter` and `BodyIsTheRest`.

**RequestMeaningProofs.** What a request says, for every request that follows the grammar. `Here`
says that a part of the header block stands at some places of a text; a lemma per part of
the grammar says that a parser which stands before it in the state that part begins in stands
behind it in the state the next one begins in, with what the part tells added to what
it was told before (`Said`, `Told1`: the first value of a name counts). A part of any length is
read by induction over its characters, since every state inside it has an edge back for each of
them (`Loops`, `Spells`), and the fields by induction over their number. Put
together (`BlockMeant`), one call over the header block of a request finishes at its last
character and knows what `Meant` says. RequestReaderProofs already says that any pieces leave the
parser alike to that one; `Answers` adds that a finished parser was given the server's
parameters, and the URI is one of those. `SaysMeant` is `SaysWhatWasMeant` for any number of
fields of any length and every split. `ContractKept` is `KeepsContract`, the tie between the two models of
`handleRead`. A part of a header block leaves the parser waiting (`PartOfBlock`), all of it and what
follows leave it with what was meant and the rest as body (`BlockAndMore`), and from these the
handler takes the length, the path and the verdict (`HeardSays`, `Kinds`). The invariant it
needs besides `RInv` is `Owing`: a handler that waits for `READ` is open, and if it has a request, this
is a good one, its body is what came behind the header block and what remains is the length less that
(`Awaits`). It is its own because `Rest` and `Left` are stated with offsets, for every text without
the name of the body in its header block, and this one with what the client meant.

**DirectoryListingProofs.** `Spells(u, s)` says that `u`, wherever it stands in a longer
text, is read by `unescape` as `s`. It composes, so that it is enough to show it of one byte: of a
plain one, of `+` and of `%` with two digits (`ReadsPlain`, `ReadsPlus`, `ReadsHex`). From that
follow that `unescape` undoes `escape` (`EscapedReadsTheSame`) and whatever spelling a client
chose (`TypedLeads`). A path put together from names is cut and normalized to the same names
(`SegmentsOfPath`, `NormalizedOfPath`), because each of these folds over a text
that is one element longer is one step more (`FoldSteps`). The inductive
invariant `LInv`: the client means a node, an answer is the one to its
request, and as long as the directories it came through are plain what it asks for `Leads` to what it means,
that is, is read as the path of that node, with or without a slash at its end. The step that needs
care is `LinksLead`: the base of a listing is then the very path of its directory, of which a
browser keeps every byte or encodes it in a way that is read back, while the entry's name is
escaped and passes unchanged; the second byte is no slash, so the link stays on the
server; and `..` is resolved to the parent. `ShowsMeant` is `ShowsWhatIsMeant` for every tree and every index name.

Only model-checked:

* liveness (`Served`, `HalfClosedServed`, `Released`, `Finishes`): it rests on fairness and `ENABLED`,
  which the prover does not reach.

## 5. Not modelled

`Dispatcher` (forwards), command line, WinSock, logging, allocation, build files:
no state or no interaction. `VALIDATE_MAX_LENGTH` only logs. The texts of dates,
reasons, headers and content types are abstracted to sizes. A path that leads out of the
served directory is no node of the tree of DirectoryListing; how `canServe` compares
paths is not modelled. `handleEvents` with a timeout: `run` never gives one. Descriptors
beyond `FD_SETSIZE`: the instances are far smaller, and what a set does with such a
descriptor is not defined. A handler revived on a closed descriptor together
with files and listings: its descriptor may by then be the number of a file, which `recv` and `send` refuse,
and a further close takes it from the file; `RevivedMeetNoFiles`, a conjunct of `HandlersInit`, keeps the two sorts
of requests apart, and neither `nopath` nor `toolong` requests name anything on the disk. Exceptions
of the C++ library for want of memory, and those of the file system library in `canServe` (a path that may
not be looked at). The client of DirectoryListing takes a link as it stands in the page: character
references of HTML (`&amp;` in a name) and the ways of browsers with backslashes are left out. Short sends: the
sockets block. The getters of `HttpRequest` but for the method.

## 6. Plan

Done: the modules above, in the order EventHandlers and KQueueReactor,
ConnectionService, SelectReactor, ResponseSender, HttpParser and RequestReader, the first two
proof modules, then the shared table of descriptors, the server's parameters and the
width of lengths, UriCoding and DirectoryListing; then the proofs of everything both reactors
promise short of liveness (EventHandlersProofs, SelectReactorProofs, KQueueReactorProofs); then
those of the reader and of the listings, by induction over texts (SharedLemmas,
RequestReaderProofs, DirectoryListingProofs), and what a request says and
becomes of it (RequestMeaningProofs).

Next, a proof: the kqueue reactor after a revived handler, that is, what is left of
`InterestInSync` and `ChangesSucceed` for the handlers that were not touched.
