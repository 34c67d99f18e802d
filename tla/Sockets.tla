------------------------------ MODULE Sockets ------------------------------
(***************************************************************************)
(* What is outside the server: its clients, the operating system's stream  *)
(* sockets, as the calls in src/src see them, and what may go wrong there. *)
(* Nothing here is code of the repository.                                 *)
(*                                                                         *)
(* A client opens one connection and sends one request.  Bytes are counted *)
(* in segments: request[c] says in how many segments the header block and  *)
(* the body arrive, and of which kind the request is.                      *)
(***************************************************************************)
EXTENDS Naturals, FiniteSets

CONSTANTS
  Conns,     \* connections; each is opened at most once
  Fds,       \* the descriptors the process can still open
  None,      \* no connection, no descriptor, no handler
  Requests,  \* requests a client may send: [kind, head, body]
  Faults     \* what may go wrong: a subset of PeerFaults and DiskFaults

PeerFaults == {"fin", "reset", "abort", "stall"}

\* A file or a directory that may not be read, or is gone when it is looked at
\* for the second time.
DiskFaults == {"disk"}

\* good: a request the server answers from memory; file: it answers with a
\* file; list: with the listing of a directory; nopath: its URI is "*" or
\* absolute, so the grammar reports no REQUEST_PATH; malformed: the grammar
\* refuses it; badlength: its Content-Length is not an int; toolong: its header
\* block does not fit in the header buffer.  Neither a nopath nor a toolong
\* request names anything on the disk.
Kinds == {"good", "file", "list", "nopath", "malformed", "badlength", "toolong"}

ASSUME SocketsAssumption ==
  /\ IsFiniteSet(Fds)   \* the descriptor table is finite
  /\ None \notin Conns \cup Fds
  /\ Requests \subseteq [kind : Kinds, head : Nat \ {0}, body : Nat]
  /\ Faults \subseteq PeerFaults \cup DiskFaults

VARIABLES
  request,   \* request[c]: the request client c sends
  peer,      \* peer[c]: what the client's end of the connection has done
  unsent,    \* unsent[c]: segments the client has still to send
  inbox,     \* inbox[c]: segments in the server's receive buffer
  backlog,   \* connections that wait for accept()
  owner      \* owner[f]: the connection descriptor f stands for, or None

sockVars == <<request, peer, unsent, inbox, backlog, owner>>

PeerStates == {"away", "open", "fin", "stalled", "reset"}

SocketsTypeOK ==
  /\ request \in [Conns -> Requests]
  /\ peer \in [Conns -> PeerStates]
  /\ unsent \in [Conns -> Nat]
  /\ inbox \in [Conns -> Nat]
  /\ backlog \subseteq Conns
  /\ owner \in [Fds -> Conns \cup {None}]

Total(c) == request[c].head + request[c].body

SocketsInit ==
  /\ request \in [Conns -> Requests]
  /\ peer = [c \in Conns |-> "away"]
  /\ unsent = [c \in Conns |-> Total(c)]
  /\ inbox = [c \in Conns |-> 0]
  /\ backlog = {}
  /\ owner = [f \in Fds |-> None]

\* The server's end of c exists: what the client does still reaches it.
Attached(c) == c \in backlog \/ \E f \in Fds : owner[f] = c

----------------------------------------------------------------------------
Connect(c) ==
  /\ peer[c] = "away"
  /\ peer' = [peer EXCEPT ![c] = "open"]
  /\ backlog' = backlog \cup {c}
  /\ UNCHANGED <<request, unsent, inbox, owner>>

Send(c) ==
  /\ Attached(c)
  /\ peer[c] = "open"
  /\ unsent[c] > 0
  /\ unsent' = [unsent EXCEPT ![c] = @ - 1]
  /\ inbox' = [inbox EXCEPT ![c] = @ + 1]
  /\ UNCHANGED <<request, peer, backlog, owner>>

\* The client shuts its sending side down; what it sent stays readable.
Fin(c) ==
  /\ "fin" \in Faults
  /\ Attached(c)
  /\ peer[c] = "open"
  /\ peer' = [peer EXCEPT ![c] = "fin"]
  /\ UNCHANGED <<request, unsent, inbox, backlog, owner>>

\* The connection is reset: the unread segments are lost.
Reset(c) ==
  /\ "reset" \in Faults
  /\ Attached(c)
  /\ peer[c] \in {"open", "fin", "stalled"}
  /\ peer' = [peer EXCEPT ![c] = "reset"]
  /\ inbox' = [inbox EXCEPT ![c] = 0]
  /\ UNCHANGED <<request, unsent, backlog, owner>>

\* The client stops reading with its window all but closed: there is still
\* room for some bytes, not for a whole chunk of a response.
Stall(c) ==
  /\ "stall" \in Faults
  /\ Attached(c)
  /\ peer[c] = "open"
  /\ peer' = [peer EXCEPT ![c] = "stalled"]
  /\ UNCHANGED <<request, unsent, inbox, backlog, owner>>

\* The connection is aborted before it was accepted and leaves the backlog.
Abort(c) ==
  /\ "abort" \in Faults
  /\ c \in backlog
  /\ peer' = [peer EXCEPT ![c] = "reset"]
  /\ inbox' = [inbox EXCEPT ![c] = 0]
  /\ backlog' = backlog \ {c}
  /\ UNCHANGED <<request, unsent, owner>>

ClientStep ==
  \E c \in Conns :
    Connect(c) \/ Send(c) \/ Fin(c) \/ Reset(c) \/ Stall(c) \/ Abort(c)

----------------------------------------------------------------------------
\* What the calls of the server meet.

\* getpeername() on descriptor f fails: closed, or no longer connected.
PeerNameFails(f) == IF owner[f] = None THEN TRUE ELSE peer[owner[f]] = "reset"

\* The numbers of segments recv() may return on an open, unreset descriptor.
\* Empty when the call would block.
Receivable(f) ==
  LET x == owner[f] IN
  IF inbox[x] = 0 THEN {n \in {0} : peer[x] = "fin"} ELSE 1 .. inbox[x]

\* send() on the blocking descriptor f returns, with all the bytes accepted.
SendReturns(f) == owner[f] # None /\ peer[owner[f]] \in {"open", "fin"}

\* send() on f returns an error.
SendFails(f) == IF owner[f] = None THEN TRUE ELSE peer[owner[f]] = "reset"

\* recv() on f sees the end of the stream once the inbox is empty.
AtEof(f) == owner[f] # None /\ peer[owner[f]] \in {"fin", "reset"}
============================================================================
