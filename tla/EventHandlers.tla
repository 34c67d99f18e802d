--------------------------- MODULE EventHandlers ---------------------------
(***************************************************************************)
(* The event handlers: ListenEventHandler and one ClientEventHandler per   *)
(* accepted connection.  This module has what their callbacks do to the    *)
(* sockets and to the handlers themselves.  What the same callbacks ask of *)
(* the dispatcher (registerHandler, removeHandler) is stated in the        *)
(* reactor modules, once per dispatcher, next to these effects.            *)
(*                                                                         *)
(* The handler made for connection c is named c.  The listening handler    *)
(* and its descriptor are both named Listener.                             *)
(***************************************************************************)
EXTENDS Sockets, FiniteSets

CONSTANTS
  Listener,  \* the listening handler, and its descriptor
  Writes     \* handleWrite calls it takes to send one response

ASSUME EventHandlersAssumption ==
  /\ Listener \notin Conns \cup Fds \cup {None}
  /\ Writes \in Nat \ {0, 1}   \* the header block and the body are never one chunk

VARIABLES
  handle,     \* handle[h]: m_handle of handler h, None before it exists
  got,        \* got[h]: segments h has read (m_data and the request's body)
  wrote,      \* wrote[h]: handleWrite calls h has answered with a chunk
  delivered,  \* delivered[c]: handlers whose chunks were sent on connection c
  file,       \* file[h]: the descriptor of the file h sends (m_file), or None
  server      \* the process: running, exited (fatal) or aborted

handlerVars == <<handle, got, wrote, delivered, file, server>>

Handlers == Conns \cup {Listener}

\* IDispatcher.h: the members of EventType; NO_EVENT is the empty set.
ALL_EVENTS == {"ACCEPT", "READ", "WRITE", "CLOSE"}

HandlersTypeOK ==
  /\ handle \in [Handlers -> Fds \cup {Listener, None}]
  /\ got \in [Conns -> Nat]
  /\ wrote \in [Conns -> Nat]
  /\ delivered \in [Conns -> SUBSET Conns]
  /\ file \in [Conns -> Fds \cup {None}]
  /\ server \in {"running", "exited", "aborted"}

\* The requests after which closeConnection can be followed, in the same call,
\* by a registration of the closed handler.
Revivers == {"nopath", "toolong"}

\* A bound of the model: what a handler revived on a closed descriptor does to
\* a file or a directory that has the same number by then is left out, so that
\* no client sends such a request when another one takes a descriptor for its
\* answer.
RevivedMeetNoFiles ==
  (\E c \in Conns : request[c].kind \in Revivers) =>
    \A c \in Conns : request[c].kind \notin {"file", "list"}

HandlersInit ==
  /\ RevivedMeetNoFiles
  /\ handle = [h \in Handlers |-> IF h = Listener THEN Listener ELSE None]
  /\ got = [c \in Conns |-> 0]
  /\ wrote = [c \in Conns |-> 0]
  /\ delivered = [c \in Conns |-> {}]
  /\ file = [c \in Conns |-> None]
  /\ server = "running"

\* Connections and files take their descriptors from one table.
FreeFds == {f \in Fds : owner[f] = None /\ \A h \in Conns : file[h] # f}

\* Handler h still owns the descriptor it was made for.
Holds(h) == handle[h] \in Fds /\ owner[handle[h]] = h

\* closeConnection ran for h, or another handler closed its descriptor.
Closed(h) == handle[h] \in Fds /\ owner[handle[h]] # h

----------------------------------------------------------------------------
(* ListenEventHandler.                                                     *)

\* handleAccept: accept() returned c on descriptor f and its handler is made.
Accept(c, f) ==
  /\ backlog' = backlog \ {c}
  /\ owner' = [owner EXCEPT ![f] = c]
  /\ handle' = [handle EXCEPT ![c] = f]
  /\ UNCHANGED <<request, peer, unsent, inbox, got, wrote, delivered, file, server>>

----------------------------------------------------------------------------
(* ClientEventHandler.                                                     *)

\* h has read nothing but its own client's bytes, and all that were received.
Intact(h) == Holds(h) /\ got[h] + inbox[h] + unsent[h] = Total(h)

Answerable == {"good", "file", "list"}

\* handleRead when recv() returned n segments: "more" waits for the rest,
\* "reply" has a complete request, "close" is closeConnection, "revive" is
\* closeConnection followed, in the same call, by the registration of a
\* handler whose request is complete, "abort" ends the process (an exception
\* nobody catches, or memory overwritten past m_data).
Verdicts == {"more", "reply", "close", "revive", "abort"}

ReadVerdictsWithoutBody(h, n) ==   \* a mutant: the body is not waited for
  IF n > 0 /\ Intact(h) /\ got[h] + n >= request[h].head
    THEN {IF request[h].kind \in Answerable THEN "reply" ELSE "close"}
  ELSE {IF n = 0 THEN "close" ELSE "more"}

ReadVerdicts(h, n) ==
  LET r   == request[h]
      now == got[h] + n
      enough == now >= Total(h)
  IN CASE n = 0                        -> {"close"}
       [] n > 0 /\ ~Intact(h)          -> Verdicts
       [] n > 0 /\ Intact(h) /\ now < r.head -> {"more"}
       [] n > 0 /\ Intact(h) /\ now >= r.head ->
            CASE r.kind \in Answerable -> {IF enough THEN "reply" ELSE "more"}
              [] r.kind = "nopath"     -> {IF enough THEN "revive" ELSE "close"}
              [] r.kind = "malformed"  -> {"close"}
              [] r.kind = "badlength"  -> {"abort"}
              [] r.kind = "toolong"    -> {"close", "revive", "abort"}

\* handleRead of h, given the verdict.
Read(h, n, v) ==
  LET f == handle[h] IN
  /\ got' = [got EXCEPT ![h] = @ + n]
  /\ inbox' = [inbox EXCEPT ![owner[f]] = @ - n]
  /\ owner' = IF v \in {"close", "revive"} THEN [owner EXCEPT ![f] = None] ELSE owner
  /\ server' = IF v = "abort" THEN "aborted" ELSE server
  /\ UNCHANGED <<request, peer, unsent, backlog, handle, wrote, delivered, file>>

\* recv() fails: the connection was reset, perhaps after the dispatcher looked
\* at it, or the descriptor is closed.  closeConnection runs, and the call goes
\* on with n = -1 as a length.
ReadFails(h) ==
  LET f == handle[h] IN
  /\ owner[f] = None \/ "reset" \in Faults
  /\ peer' = [c \in Conns |-> IF c = owner[f] THEN "reset" ELSE peer[c]]
  /\ inbox' = [c \in Conns |-> IF c = owner[f] THEN 0 ELSE inbox[c]]
  /\ owner' = [owner EXCEPT ![f] = None]
  /\ server' = "aborted"
  /\ UNCHANGED <<request, unsent, backlog, handle, got, wrote, delivered, file>>

\* The first handleWrite of a handler has its request processed.  Listing a
\* directory opens it for a moment, and throws when no descriptor is free;
\* sending a file opens it, and goes on with an empty body when it cannot.
First(h) == wrote[h] = 0

CannotList(h) == First(h) /\ request[h].kind = "list" /\ FreeFds = {}

\* directory_iterator throws too if the directory may not be read or is gone
\* since canServe saw it, and file_size if the file is.
OnFaultyDisk(h) == "disk" \in Faults /\ request[h].kind \in {"file", "list"}

DiskMayFail(h) == First(h) /\ OnFaultyDisk(h)

\* Nobody catches what process() throws.
ProcessThrows(h) ==
  /\ CannotList(h) \/ DiskMayFail(h)
  /\ server' = "aborted"
  /\ UNCHANGED sockVars
  /\ UNCHANGED <<handle, got, wrote, delivered, file>>

\* What m_file is after this chunk's start: an open that fails leaves it as it was.
Opened(h) ==
  IF First(h) /\ request[h].kind = "file" /\ FreeFds # {}
    THEN FreeFds \cup {g \in {file[h]} : "disk" \in Faults}
  ELSE {file[h]}

\* handleWrite: this chunk is the last one.  The request is complete: WRITE
\* is only registered when it is, and m_remain never grows.
LastChunkTooSoon(h) == wrote[h] + 2 >= Writes   \* a mutant: an off-by-one

LastChunk(h) == wrote[h] + 1 >= Writes

Write(h) ==
  LET f == handle[h] IN
  /\ ~CannotList(h)
  /\ wrote' = [wrote EXCEPT ![h] = @ + 1]
  /\ delivered' = [delivered EXCEPT ![owner[f]] = @ \cup {h}]
  /\ owner' = IF LastChunk(h) THEN [owner EXCEPT ![f] = None] ELSE owner
  /\ \E g \in Opened(h) : file' = [file EXCEPT ![h] = IF LastChunk(h) THEN None ELSE g]
  /\ UNCHANGED <<request, peer, unsent, inbox, backlog, handle, got, server>>

CloseDeregistersOnly(h) ==   \* a mutant: socketClose() is forgotten
  UNCHANGED sockVars /\ UNCHANGED handlerVars

CloseKeepsFile(h) ==   \* a mutant: the file outlives its handler
  /\ owner' = [owner EXCEPT ![handle[h]] = None]
  /\ UNCHANGED <<request, peer, unsent, inbox, backlog>>
  /\ UNCHANGED handlerVars

\* handleClose: closeConnection.  A descriptor that is already closed stays so,
\* and the handler, its response and its file go with its place in the map.
Close(h) ==
  /\ owner' = [owner EXCEPT ![handle[h]] = None]
  /\ file' = [file EXCEPT ![h] = None]
  /\ UNCHANGED <<request, peer, unsent, inbox, backlog, handle, got, wrote, delivered, server>>

\* fatal() anywhere.
Fatal ==
  /\ server' = "exited"
  /\ UNCHANGED sockVars
  /\ UNCHANGED <<handle, got, wrote, delivered, file>>

----------------------------------------------------------------------------
(* What may end the process.                                               *)

\* No request was read so far after which a closed handler can be registered.
Clean == \A c \in Conns : request[c].kind \in Revivers => got[c] < request[c].head

\* The callback under way, of handler h, may end the process.  For the listener:
\* there is no descriptor for the connection that waits.  For a client: its
\* connection was reset, at the latest in this very call; it completes with this
\* call a header block that the server cannot take; its answer, the whole
\* request being read, needs a descriptor or a disk and does not get it; or, and
\* this only after a closed handler was registered again, h lost its descriptor
\* to another handler, or bytes of its request.
MayEnd(h) ==
  IF h = Listener THEN server' = "exited" /\ backlog # {} /\ FreeFds = {}
  ELSE \/ peer'[h] = "reset"
       \/ /\ server' = "aborted"
          /\ request[h].kind \in {"badlength", "toolong"}
          /\ got[h] < got'[h] /\ request[h].head <= got'[h]
       \/ /\ server' = "aborted"
          /\ CannotList(h) \/ DiskMayFail(h)
          /\ got[h] = Total(h)
       \/ ~Clean /\ ~Intact(h)

----------------------------------------------------------------------------
(* What the clients see of the handlers, in the terms of                   *)
(* ConnectionService.                                                      *)

Phase(c) ==
  CASE peer[c] = "away"                      -> "away"
    [] c \in backlog                         -> "waiting"
    [] Holds(c)                              -> "serving"
    [] Closed(c) /\ wrote[c] = Writes        -> "done"
    [] OTHER                                 -> "dropped"

Service == INSTANCE ConnectionService WITH
  Capacity <- Cardinality(Fds),
  Chunks <- Writes,
  phase <- [c \in Conns |-> Phase(c)],
  told <- wrote,
  reads <- [c \in Conns |-> file[c] # None],
  client <- [c \in Conns |-> [asked |-> unsent[c] = 0,
                              good |-> request[c].kind \in Answerable,
                              disk |-> OnFaultyDisk(c),
                              gone |-> peer[c] \in {"fin", "reset"}]],
  up <- (server = "running")

\* The reactor implements the service: each of its steps is one step of the
\* service or none.  No request is answered before it is complete, none is
\* answered twice or by halves while its client stays, and no client is
\* dropped but for its own doing, whatever the other connections do.
ImplementsService == Service!Spec
============================================================================
