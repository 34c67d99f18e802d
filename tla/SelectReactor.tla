--------------------------- MODULE SelectReactor ---------------------------
(***************************************************************************)
(* CusterServer's loop over SelectDispatcher, the dispatcher of systems    *)
(* without kqueue: the map of registered handlers with the two sets of     *)
(* descriptors given to select(), and the walk over a copy of the map with *)
(* what select() left in copies of the sets.  The clients move between the *)
(* system calls of one turn of that walk: getpeername(), the recv() that   *)
(* only peeks, and the callbacks.                                          *)
(***************************************************************************)
EXTENDS EventHandlers, Integers, FiniteSets

VARIABLES
  sel,     \* SelectDispatcher: [map, read, write, sockets]
  copies,  \* m_readSocketsCopy and m_writeSocketsCopy after select(): [read, write]
  ready,   \* readySockets
  queue,   \* handlerQueue: pairs [handler, events] still to have their turn
  turn     \* the turn under way: [handler, events, connected, at], or None

selectVars == <<sel, copies, ready, queue, turn>>
vars == <<sockVars, handlerVars, selectVars>>

Idents == Fds \cup {Listener}

TypeOK ==
  /\ SocketsTypeOK
  /\ HandlersTypeOK
  /\ sel \in [map : [Handlers -> SUBSET ALL_EVENTS], read : SUBSET Idents,
              write : SUBSET Idents, sockets : SUBSET Idents]
  /\ copies \in [read : SUBSET Idents, write : SUBSET Idents]
  /\ ready \in Int
  /\ queue \subseteq [handler : Handlers, events : SUBSET ALL_EVENTS]
  /\ turn \in [handler : Handlers, events : SUBSET ALL_EVENTS, connected : BOOLEAN,
               at : {"peek", "write", "read"}] \cup {None}

----------------------------------------------------------------------------
(* SelectDispatcher: registration.  CLOSE shares the read set with ACCEPT  *)
(* and READ; sockets is m_sockets, whose greatest member bounds select().  *)

ReadBits == {"ACCEPT", "READ", "CLOSE"}

RegisterHandlerOnce(d, h, fd, et) ==   \* a mutant: m_sockets is for new handlers
  IF et = {} THEN d
  ELSE [map |-> [d.map EXCEPT ![h] = @ \cup et],
        read |-> d.read \cup {f \in {fd} : et \cap ReadBits # {}},
        write |-> d.write \cup {f \in {fd} : "WRITE" \in et},
        sockets |-> d.sockets \cup {f \in {fd} : d.map[h] = {}}]

RegisterHandler(d, h, fd, et) ==
  IF et = {} THEN d
  ELSE [map |-> [d.map EXCEPT ![h] = @ \cup et],
        read |-> d.read \cup {f \in {fd} : et \cap ReadBits # {}},
        write |-> d.write \cup {f \in {fd} : "WRITE" \in et},
        sockets |-> d.sockets \cup {fd}]

RemoveHandlerFromSets(d, h, fd, et) ==   \* a mutant: the map keeps its entry
  [d EXCEPT !.read = @ \ {fd}, !.write = @ \ {fd}, !.sockets = @ \ {fd}]

RemoveHandler(d, h, fd, et) ==
  IF et = {} \/ d.map[h] = {} THEN d
  ELSE [map |-> [d.map EXCEPT ![h] = @ \ et],
        read |-> d.read \ {f \in {fd} : et \cap ReadBits # {}},
        write |-> d.write \ {f \in {fd} : "WRITE" \in et},
        sockets |-> d.sockets \ {fd}]

CloseConnectionForReading(d, h) ==   \* a mutant: the write set is forgotten
  RemoveHandler(d, h, handle[h], {"ACCEPT", "READ", "CLOSE"})

\* ClientEventHandler::closeConnection, its part in the dispatcher.
CloseConnection(d, h) == RemoveHandler(d, h, handle[h], ALL_EVENTS)

\* What handleRead asks of the dispatcher, per verdict.
AfterRead(d, h, v) ==
  LET fd == handle[h]
      ReplyNow(x) == RegisterHandler(RemoveHandler(x, h, fd, {"READ"}),
                                     h, fd, {"WRITE", "CLOSE"})
  IN CASE v \in {"more", "abort"} -> d
       [] v = "reply"             -> ReplyNow(d)
       [] v = "close"             -> CloseConnection(d, h)
       [] v = "revive"            -> ReplyNow(CloseConnection(d, h))

----------------------------------------------------------------------------
(* The kernel's side of select().                                          *)

Open(i) == i = Listener \/ (i \in Fds /\ owner[i] # None)

Readable(i) ==
  IF i = Listener THEN backlog # {} ELSE inbox[owner[i]] > 0 \/ AtEof(i)

NoPeer(i) == IF i = Listener THEN TRUE ELSE PeerNameFails(i)

----------------------------------------------------------------------------
Init ==
  /\ SocketsInit
  /\ HandlersInit
  /\ sel = RegisterHandler([map |-> [h \in Handlers |-> {}], read |-> {}, write |-> {},
                            sockets |-> {}],
                           Listener, Listener, {"ACCEPT", "CLOSE"})
  /\ copies = [read |-> {}, write |-> {}]
  /\ ready = 0
  /\ queue = {}
  /\ turn = None

AtSelect == server = "running" /\ queue = {} /\ turn = None

\* select() returns, and the map is copied.  Write readiness is level-triggered
\* and permanent.  A handler with neither bit set is left out of the queue: its
\* turn does nothing.
Select ==
  /\ AtSelect
  /\ \A i \in sel.read \cup sel.write : Open(i)
  /\ LET r == {i \in sel.read \cap sel.sockets : Readable(i)}
         w == sel.write \cap sel.sockets
     IN /\ r \cup w # {}
        /\ copies' = [read |-> r, write |-> w]
        /\ ready' = Cardinality(r) + Cardinality(w)
        /\ queue' = {[handler |-> h, events |-> sel.map[h]] :
                       h \in {x \in Handlers : sel.map[x] # {} /\ handle[x] \in r \cup w}}
  /\ UNCHANGED <<sockVars, handlerVars, sel, turn>>

\* A closed descriptor in a set: select() fails with EBADF.
SelectFails ==
  /\ AtSelect
  /\ \E i \in sel.read \cup sel.write : ~Open(i)
  /\ Fatal
  /\ UNCHANGED selectVars

\* The rest of a turn is over: k descriptors fewer are ready.  The loop ends
\* with the queue or with the count, and its copies are not used again.
EndTurn(k) ==
  /\ turn' = None
  /\ ready' = ready - k
  /\ queue' = IF ready - k > 0 THEN queue ELSE {}
  /\ copies' = IF queue' = {} THEN [read |-> {}, write |-> {}] ELSE copies

\* Where a turn goes on once the peek is over.
AfterPeek(t) ==
  IF handle[t.handler] \in copies.write /\ "WRITE" \in t.events THEN "write" ELSE "read"

\* The next pair has its turn, which begins with getpeername().
Take ==
  /\ server = "running" /\ turn = None
  /\ \E p \in queue :
       LET f == handle[p.handler]
           connected == ~NoPeer(f)
       IN /\ queue' = queue \ {p}
          /\ turn' = [handler |-> p.handler, events |-> p.events, connected |-> connected,
                      at |-> IF connected /\ f \in copies.read THEN "peek" ELSE AfterPeek(p)]
  /\ UNCHANGED <<sockVars, handlerVars, sel, copies, ready>>

AtStage(s) == server = "running" /\ turn # None /\ turn.at = s

PeekFailsUnpopped ==   \* a mutant: the early continue forgets handlerQueue.pop()
  /\ AtStage("peek")
  /\ LET h == turn.handler IN
     /\ PeerNameFails(handle[h])
     /\ Close(h)
     /\ sel' = CloseConnection(sel, h)
     /\ queue' = queue \cup {[handler |-> h, events |-> turn.events]}
  /\ turn' = None
  /\ ready' = ready - 1
  /\ UNCHANGED copies

PeekFailsAtEnd ==   \* a mutant: result <= 0 in place of result == SOCKET_ERROR
  /\ AtStage("peek")
  /\ LET h == turn.handler IN
     /\ PeerNameFails(handle[h]) \/ Receivable(handle[h]) = {0}
     /\ Close(h)
     /\ sel' = CloseConnection(sel, h)
  /\ EndTurn(1)

\* The peek finds an error: handleClose, and the turn is over.
PeekFails ==
  /\ AtStage("peek")
  /\ LET h == turn.handler IN
     /\ PeerNameFails(handle[h])
     /\ Close(h)
     /\ sel' = CloseConnection(sel, h)
  /\ EndTurn(1)

\* It finds bytes, or the end of the stream.
Peek ==
  /\ AtStage("peek")
  /\ ~PeerNameFails(handle[turn.handler])
  /\ Receivable(handle[turn.handler]) # {}
  /\ turn' = [turn EXCEPT !.at = AfterPeek(turn)]
  /\ UNCHANGED <<sockVars, handlerVars, sel, copies, ready, queue>>

HandleWriteCountsBoth ==   \* a mutant: the count goes down by both bits at once
  /\ AtStage("write")
  /\ LET h == turn.handler IN
     /\ SendReturns(handle[h])
     /\ Write(h)
     /\ sel' = IF LastChunk(h) THEN CloseConnection(sel, h) ELSE sel
  /\ ready' = ready - 2
  /\ turn' = [turn EXCEPT !.at = "read"]
  /\ UNCHANGED <<copies, queue>>

HandleWrite ==
  /\ AtStage("write")
  /\ LET h == turn.handler
         f == handle[h]
     IN \/ ProcessThrows(h) /\ UNCHANGED sel
        \/ /\ SendReturns(f)
           /\ Write(h)
           /\ sel' = IF LastChunk(h) THEN CloseConnection(sel, h) ELSE sel
        \/ SendFails(f) /\ ~CannotList(h) /\ Fatal /\ UNCHANGED sel
  /\ ready' = ready - 1
  /\ turn' = [turn EXCEPT !.at = "read"]
  /\ UNCHANGED <<copies, queue>>

HasReadBit == handle[turn.handler] \in copies.read
Accepts == ~turn.connected /\ "ACCEPT" \in turn.events
Reads == ~Accepts /\ "READ" \in turn.events

HandleAcceptTooSoon ==   \* a mutant: the handler is registered before it has m_handle
  /\ AtStage("read") /\ HasReadBit /\ Accepts
  /\ \E c \in backlog, f \in FreeFds :
       Accept(c, f) /\ sel' = RegisterHandler(sel, c, handle[c], {"READ", "CLOSE"})
  /\ EndTurn(1)

HandleAccept ==
  /\ AtStage("read") /\ HasReadBit /\ Accepts
  /\ \/ \E c \in backlog, f \in FreeFds :
          /\ Accept(c, f)
          /\ sel' = RegisterHandler(sel, c, f, {"READ", "CLOSE"})
     \/ backlog # {} /\ FreeFds = {} /\ Fatal /\ UNCHANGED sel
  /\ EndTurn(1)

HandleRead ==
  /\ AtStage("read") /\ HasReadBit /\ Reads
  /\ LET h == turn.handler
         f == handle[h]
     IN \/ /\ owner[f] # None
           /\ \E n \in Receivable(f) : \E v \in ReadVerdicts(h, n) :
                Read(h, n, v) /\ sel' = AfterRead(sel, h, v)
        \/ ReadFails(h) /\ sel' = CloseConnection(sel, h)
  /\ EndTurn(1)

\* The read bit stands for CLOSE only, or is not set: no callback.
NothingToRead ==
  /\ AtStage("read")
  /\ HasReadBit => ~Accepts /\ ~Reads
  /\ EndTurn(IF HasReadBit THEN 1 ELSE 0)
  /\ UNCHANGED <<sockVars, handlerVars, sel>>

----------------------------------------------------------------------------
ServerStep ==
  \/ Select \/ SelectFails \/ Take \/ PeekFails \/ Peek
  \/ HandleWrite \/ HandleAccept \/ HandleRead \/ NothingToRead

\* Once the process has ended its sockets are closed: nothing more happens.
Outside ==
  /\ server = "running"
  /\ ClientStep
  /\ UNCHANGED <<handlerVars, selectVars>>

Next == ServerStep \/ Outside

Spec == Init /\ [][Next]_vars

\* The process runs whenever it is not blocked in a call.
FairSpec == Spec /\ WF_vars(ServerStep)

----------------------------------------------------------------------------
(* What the reactor promises.                                              *)

Registered(h) == sel.map[h] # {}

\* Each time select() is called its two sets hold the descriptors of the
\* registered handlers and no other, and each of them is open (or the process
\* ends with EBADF), although removing READ takes away the bit that CLOSE needs.
SetsInSync ==
  AtSelect =>
    /\ sel.read = {handle[h] : h \in {x \in Handlers : sel.map[x] \cap ReadBits # {}}}
    /\ sel.write = {handle[h] : h \in {x \in Handlers : "WRITE" \in sel.map[x]}}
    /\ \A i \in sel.read \cup sel.write : Open(i)

\* No descriptor of the two sets is above the bound that select() gets from
\* m_sockets, although removeHandler erases the descriptor from m_sockets
\* while other events, or another handler, still need it.
BoundCovers == AtSelect => sel.read \cup sel.write \subseteq sel.sockets

\* The process ends in no other step than these: in a turn that may end it for
\* a reason of its own handler or client (MayEnd), or in select(), over the
\* descriptor of a handler that was registered again after it was closed.  In
\* particular it never ends because a turn, a set or a count was wrong.
DiesForCause ==
  [][server' # server =>
       IF turn = None THEN ~Clean /\ \E c \in Conns : Registered(c) /\ ~Holds(c)
       ELSE MayEnd(turn.handler)]_vars

\* The queue is a copy of the map, and every callback of the walk may close a
\* descriptor, accept one or change a registration: a pair whose turn has not
\* come is still what the map says, and its handler still owns its descriptor.
QueueNotStale ==
  server = "running" =>
    \A p \in queue :
      /\ sel.map[p.handler] = p.events
      /\ p.handler # Listener => Holds(p.handler)

\* readySockets counts at least the bits that select() reported and that are
\* still to be looked at, of the pairs in the queue and of the turn under way:
\* it does not run out before each of them has had its turn.
EveryReadyServed ==
  LET Bits(p) == {s \in {"read", "write"} : handle[p.handler] \in copies[s]}
      Left(t) == IF t.at = "read" THEN Bits(t) \ {"write"} ELSE Bits(t)
      OfTurn  == IF turn = None THEN {} ELSE Left(turn)
  IN ready >= Cardinality(UNION {Bits(p) \X {p} : p \in queue}) + Cardinality(OfTurn)

\* A client handler is in the map exactly while it owns an open descriptor, and
\* its file is open no longer than that.
NoLeak ==
  \A c \in Conns : (Registered(c) <=> Holds(c)) /\ (file[c] # None => Holds(c))

\* What is sent on a connection is the response to the request it carried, and
\* it is sent only once that request was read whole.
OwnResponse ==
  \A c \in Conns : delivered[c] # {} => delivered[c] = {c} /\ got[c] = Total(c)

\* A client that has sent a whole good request gets its response, all of it,
\* also when it has shut its sending side down by then, or the process ends.
HalfClosedServed ==
  \A c \in Conns :
    (request[c].kind \in Answerable /\ peer[c] \in {"open", "fin"} /\ unsent[c] = 0)
      ~> (wrote[c] = Writes \/ peer[c] \notin {"open", "fin"} \/ server # "running")

\* The server releases the connection of a client that has gone.
Released ==
  \A c \in Conns :
    (peer[c] \in {"fin", "reset"} /\ Attached(c))
      ~> (~Attached(c) \/ server # "running")

============================================================================
