--------------------------- MODULE KQueueReactor ---------------------------
(***************************************************************************)
(* CusterServer's loop over KQueueDispatcher: the map of registered        *)
(* handlers, the pending changes, the kernel's kqueue, and the walk over   *)
(* the events one kevent() call returned, with the callbacks each event    *)
(* leads to.  Only the callbacks are atomic: the clients move between any  *)
(* two of them, so what an event reported may be stale when it is handled. *)
(***************************************************************************)
EXTENDS EventHandlers, Sequences, FiniteSets

CONSTANT KeventSize   \* capacity of the two kevent vectors at the start (64)

ASSUME KeventSizeAssumption == KeventSize \in Nat \ {0}

VARIABLES
  kq,          \* KQueueDispatcher: [map, changes, size]
  knote,       \* the kernel's kqueue: knote[ident][filter] is a udata or None
  batch,       \* events returned by kevent() and not dispatched yet
  current,     \* the event being dispatched, or None
  dispatched,  \* how many events of this batch were dispatched
  moved        \* m_keventList was reallocated while it was being walked

reactorVars == <<kq, knote, batch, current, dispatched, moved>>
vars == <<sockVars, handlerVars, reactorVars>>

Idents  == Fds \cup {Listener}
Filters == {"EVFILT_READ", "EVFILT_WRITE"}
Change  == [flags : {"EV_ADD", "EV_DELETE"}, ident : Idents, filter : Filters,
            udata : Handlers \cup {None}]
Kevent  == [ident : Idents, filter : Filters, udata : Handlers, eof : BOOLEAN]

\* One type invariant for the whole reactor; map[h] = {} stands for a handler
\* that is not in m_eventHandlerMap.
TypeOK ==
  /\ SocketsTypeOK
  /\ HandlersTypeOK
  /\ kq \in [map : [Handlers -> SUBSET ALL_EVENTS], changes : Seq(Change),
             size : Nat \ {0}]
  /\ knote \in [Idents -> [Filters -> Handlers \cup {None}]]
  /\ batch \subseteq Kevent
  /\ current \in Kevent \cup {None}
  /\ dispatched \in Nat
  /\ moved \in BOOLEAN

----------------------------------------------------------------------------
(* KQueueDispatcher: registration.  Each operator maps the dispatcher d to *)
(* the one the call leaves.                                                *)

ResizeKeventsVectorsLate(d) ==   \* a mutant: an off-by-one
  IF Len(d.changes) > d.size THEN [d EXCEPT !.size = 2 * @] ELSE d

ResizeKeventsVectorsEarly(d) ==   \* a mutant: room is made for two changes
  IF Len(d.changes) + 2 >= d.size THEN [d EXCEPT !.size = 2 * @] ELSE d

ResizeKeventsVectors(d) ==
  IF Len(d.changes) = d.size THEN [d EXCEPT !.size = 2 * @] ELSE d

\* A mutant: CLOSE takes a filter of its own next to other events.
FiltersOfEach(et) ==
  (IF et \cap {"ACCEPT", "READ"} # {} THEN <<"EVFILT_READ">> ELSE <<>>)
    \o (IF et \cap {"WRITE", "CLOSE"} # {} THEN <<"EVFILT_WRITE">> ELSE <<>>)

\* The filters modifyKevents fills a kevent for, in its order.  CLOSE comes
\* with any other event, and alone it takes EVFILT_WRITE.
FiltersOf(et) ==
  LET Accepts == IF "ACCEPT" \in et THEN <<"EVFILT_READ">> ELSE <<>>
      Reads   == IF "READ" \in et THEN <<"EVFILT_READ">> ELSE <<>>
      Writing == IF "WRITE" \in et \/ et = {"CLOSE"} THEN <<"EVFILT_WRITE">> ELSE <<>>
  IN Accepts \o Reads \o Writing

ModifyKevents(d, et, ident, flags, udata) ==
  LET filters == FiltersOf(et)
      new == [i \in 1 .. Len(filters) |->
                [flags |-> flags, ident |-> ident, filter |-> filters[i], udata |-> udata]]
  IN [d EXCEPT !.changes = @ \o new]

RegisterHandler(d, h, fd, et) ==
  IF et = {} THEN d
  ELSE LET m == ModifyKevents(ResizeKeventsVectors(d), et, fd, "EV_ADD", h)
       IN [m EXCEPT !.map[h] = @ \cup et]

RemoveHandlerFromMap(d, h, fd, et) ==   \* a mutant: the kernel is not told
  [d EXCEPT !.map[h] = @ \ et]

RemoveHandler(d, h, fd, et) ==
  IF et = {} \/ d.map[h] = {} THEN d
  ELSE IF et = ALL_EVENTS THEN [d EXCEPT !.map[h] = {}]
  ELSE LET m == ModifyKevents(ResizeKeventsVectors(d), et, fd, "EV_DELETE", None)
       IN [m EXCEPT !.map[h] = @ \ et]

----------------------------------------------------------------------------
(* The kernel's side of kevent().                                          *)

Open(i) == i = Listener \/ (i \in Fds /\ owner[i] # None)

NoKnotes == [flt \in Filters |-> None]

\* The last pending change for a filter of a descriptor; empty without one.
LastChange(i, flt) ==
  LET For == {k \in 1 .. Len(kq.changes) :
                kq.changes[k].ident = i /\ kq.changes[k].filter = flt}
  IN {kq.changes[k] : k \in {x \in For : \A j \in For : j <= x}}

\* The udata a filter of a descriptor has once the pending changes are taken
\* in order: the last one decides, and adding to a closed descriptor fails.
Applied(i, flt) ==
  LET last == LastChange(i, flt) IN
  IF \A k \in 1 .. Len(kq.changes) : kq.changes[k].ident # i \/ kq.changes[k].filter # flt
  THEN knote[i][flt]
  ELSE IF \E c \in last : c.flags = "EV_ADD"
  THEN IF Open(i) THEN (CHOOSE c \in last : c.flags = "EV_ADD").udata ELSE knote[i][flt]
  ELSE None

\* The kernel has something to report, level-triggered: the listener while the
\* backlog is not empty, a connection while there is something to read or the
\* stream has ended, and always that it can be written to.
Reports(i, flt) ==
  /\ knote[i][flt] # None
  /\ IF i = Listener THEN flt = "EVFILT_READ" /\ backlog # {}
     ELSE /\ owner[i] # None
          /\ flt = "EVFILT_WRITE" \/ inbox[owner[i]] > 0 \/ AtEof(i)

\* EV_EOF: for reading after any end of the stream, for writing after a reset.
Eof(i, flt) ==
  IF i = Listener THEN FALSE
  ELSE IF flt = "EVFILT_READ" THEN AtEof(i)
  ELSE owner[i] # None /\ peer[owner[i]] = "reset"

EventOf(i, flt) ==
  [ident |-> i, filter |-> flt, udata |-> knote[i][flt], eof |-> Eof(i, flt)]

Ready ==
  {EventOf(p[1], p[2]) : p \in {q \in Idents \X Filters : Reports(q[1], q[2])}}

----------------------------------------------------------------------------
Init ==
  /\ SocketsInit
  /\ HandlersInit
  /\ kq = RegisterHandler(
             [map |-> [h \in Handlers |-> {}], changes |-> <<>>, size |-> KeventSize],
             Listener, Listener, {"ACCEPT", "CLOSE"})
  /\ knote = [i \in Idents |-> NoKnotes]
  /\ batch = {}
  /\ current = None
  /\ dispatched = 0
  /\ moved = FALSE

\* handleEvents has left its loop over the list and calls kevent() again.
AtKevent == server = "running" /\ batch = {} /\ current = None

\* kevent(), first half: the kernel takes the changes and m_keventUsed = 0.
\* A change that fails comes back as an EV_ERROR event, which is only logged.
Submit ==
  /\ AtKevent
  /\ kq.changes # <<>>
  /\ knote' = [i \in Idents |-> [flt \in Filters |-> Applied(i, flt)]]
  /\ kq' = [kq EXCEPT !.changes = <<>>]
  /\ moved' = FALSE
  /\ UNCHANGED <<sockVars, handlerVars, batch, current, dispatched>>

\* kevent(), second half: it returns as many events as there are, up to the
\* capacity of m_keventList.
Collect ==
  /\ AtKevent
  /\ kq.changes = <<>>
  /\ \E b \in SUBSET Ready :
       /\ b # {}
       /\ b = Ready \/ Cardinality(b) = kq.size
       /\ Cardinality(b) <= kq.size
       /\ batch' = b
  /\ dispatched' = 0
  /\ moved' = FALSE
  /\ UNCHANGED <<sockVars, handlerVars, kq, knote, current>>

AdvanceInPlace ==   \* a mutant: the event is not taken off the list
  /\ server = "running"
  /\ current = None
  /\ \E e \in batch : current' = e
  /\ dispatched' = dispatched + 1
  /\ UNCHANGED <<sockVars, handlerVars, kq, knote, batch, moved>>

\* activeKevent moves to the next event of the list.
Advance ==
  /\ server = "running"
  /\ current = None
  /\ \E e \in batch : current' = e /\ batch' = batch \ {e}
  /\ dispatched' = dispatched + 1
  /\ UNCHANGED <<sockVars, handlerVars, kq, knote, moved>>

\* The list was reallocated under activeKevent.  The loop may go on as if
\* nothing had happened (the block grew in place: Advance), find its pointer
\* past the new end, or walk through memory that is no longer the list.
LoseRest ==
  /\ server = "running" /\ moved /\ current = None
  /\ batch # {}
  /\ batch' = {}
  /\ UNCHANGED <<sockVars, handlerVars, kq, knote, current, dispatched, moved>>

WalkFreed ==
  /\ server = "running" /\ moved /\ current = None
  /\ server' = "aborted"
  /\ UNCHANGED <<sockVars, handle, got, wrote, delivered, file, reactorVars>>

----------------------------------------------------------------------------
(* handleEvents: what the event under dispatch leads to.  The interest is  *)
(* the one the map has now, not the one it had when kevent() returned.     *)

Interest(e) == kq.map[e.udata]

\* getpeername() fails: the descriptor listens, or is not connected any more.
NoPeer(i) == IF i = Listener THEN TRUE ELSE PeerNameFails(i)

ToClose(e)  == e.eof /\ "CLOSE" \in Interest(e)
ToAccept(e) == /\ ~ToClose(e)
               /\ e.filter = "EVFILT_READ"
               /\ NoPeer(e.ident)
               /\ "ACCEPT" \in Interest(e)
ToRead(e)   == /\ ~ToClose(e)
               /\ e.filter = "EVFILT_READ"
               /\ ~NoPeer(e.ident)
               /\ "READ" \in Interest(e)
ToWrite(e)  == /\ ~ToClose(e)
               /\ e.filter = "EVFILT_WRITE"
               /\ "WRITE" \in Interest(e)

\* The rest of a dispatch: the loop is free to advance, and it is remembered
\* whether the callback made the list move.
Dispatched ==
  /\ current' = None
  /\ moved' = (moved \/ kq'.size # kq.size)
  /\ UNCHANGED <<batch, dispatched>>

CloseConnectionByEvent(d, h) ==   \* a mutant: the changes outlive the descriptor
  RemoveHandler(d, h, handle[h], d.map[h])

\* ClientEventHandler::closeConnection, its part in the dispatcher.
CloseConnection(d, h) == RemoveHandler(d, h, handle[h], ALL_EVENTS)

\* Closing a descriptor destroys its knotes.
CloseKnotes(f) == [knote EXCEPT ![f] = NoKnotes]

AfterReadStopsOnly(d, h, v) ==   \* a mutant: WRITE is never registered
  CASE v \in {"more", "abort"}     -> d
    [] v = "reply"                 -> RemoveHandler(d, h, handle[h], {"READ"})
    [] v \in {"close", "revive"}   -> CloseConnection(d, h)

\* What handleRead asks of the dispatcher, per verdict.
AfterRead(d, h, v) ==
  LET fd == handle[h]
      ReplyNow(x) == RegisterHandler(RemoveHandler(x, h, fd, {"READ"}),
                                     h, fd, {"WRITE", "CLOSE"})
  IN CASE v \in {"more", "abort"} -> d
       [] v = "reply"             -> ReplyNow(d)
       [] v = "close"             -> CloseConnection(d, h)
       [] v = "revive"            -> ReplyNow(CloseConnection(d, h))

HandleAcceptTooSoon ==   \* a mutant: the handler is registered before it has m_handle
  /\ server = "running" /\ current # None /\ ToAccept(current)
  /\ \E c \in backlog, f \in FreeFds :
       /\ Accept(c, f)
       /\ kq' = RegisterHandler(kq, c, handle[c], {"READ", "CLOSE"})
  /\ UNCHANGED knote
  /\ Dispatched

HandleAccept ==
  /\ server = "running" /\ current # None /\ ToAccept(current)
  /\ \/ \E c \in backlog, f \in FreeFds :
          /\ Accept(c, f)
          /\ kq' = RegisterHandler(kq, c, f, {"READ", "CLOSE"})
     \/ backlog # {} /\ FreeFds = {} /\ Fatal /\ UNCHANGED kq
  /\ UNCHANGED knote
  /\ Dispatched

HandleRead ==
  /\ server = "running" /\ current # None /\ ToRead(current)
  /\ LET h == current.udata
         f == handle[h]
     IN \/ \E n \in Receivable(f) : \E v \in ReadVerdicts(h, n) :
             /\ Read(h, n, v)
             /\ kq' = AfterRead(kq, h, v)
             /\ knote' = IF v \in {"close", "revive"} THEN CloseKnotes(f) ELSE knote
        \/ /\ ReadFails(h)
           /\ kq' = CloseConnection(kq, h)
           /\ knote' = CloseKnotes(f)
  /\ Dispatched

HandleWrite ==
  /\ server = "running" /\ current # None /\ ToWrite(current)
  /\ LET h == current.udata
         f == handle[h]
     IN \/ ProcessThrows(h) /\ UNCHANGED <<kq, knote>>
        \/ /\ SendReturns(f)
           /\ Write(h)
           /\ kq' = IF LastChunk(h) THEN CloseConnection(kq, h) ELSE kq
           /\ knote' = IF LastChunk(h) THEN CloseKnotes(f) ELSE knote
        \/ SendFails(f) /\ ~CannotList(h) /\ Fatal /\ UNCHANGED <<kq, knote>>
  /\ Dispatched

HandleCloseKeepsKnotes ==   \* a mutant: shutdown() in place of close()
  /\ server = "running" /\ current # None /\ ToClose(current)
  /\ CloseDeregistersOnly(current.udata)
  /\ kq' = CloseConnection(kq, current.udata)
  /\ UNCHANGED knote
  /\ Dispatched

\* ClientEventHandler::handleClose.  The listening descriptor never reports
\* an end of stream, so ListenEventHandler::handleClose is never reached.
HandleClose ==
  /\ server = "running" /\ current # None /\ ToClose(current)
  /\ LET h == current.udata IN
     /\ Close(h)
     /\ kq' = CloseConnection(kq, h)
     /\ knote' = CloseKnotes(handle[h])
  /\ Dispatched

\* The end of the loop's body: "No hemos podido hacer nada?".
NothingToDo ==
  /\ server = "running" /\ current # None
  /\ ~ToClose(current) /\ ~ToAccept(current) /\ ~ToRead(current) /\ ~ToWrite(current)
  /\ Fatal
  /\ UNCHANGED <<kq, knote>>
  /\ Dispatched

----------------------------------------------------------------------------
Callback == HandleAccept \/ HandleRead \/ HandleWrite \/ HandleClose \/ NothingToDo

ServerStep == Submit \/ Collect \/ Advance \/ LoseRest \/ WalkFreed \/ Callback

\* Once the process has ended its sockets are closed: nothing more happens.
Outside ==
  /\ server = "running"
  /\ ClientStep
  /\ UNCHANGED <<handlerVars, reactorVars>>

Next == ServerStep \/ Outside

Spec == Init /\ [][Next]_vars

\* The process runs whenever it is not blocked in a call.
FairSpec == Spec /\ WF_vars(ServerStep)

----------------------------------------------------------------------------
(* What the reactor promises.                                              *)

Registered(h) == kq.map[h] # {}

Wants(h, flt) ==
  IF flt = "EVFILT_READ" THEN kq.map[h] \cap {"ACCEPT", "READ"} # {}
                         ELSE "WRITE" \in kq.map[h]

\* handleEvents turns the raw udata pointer of an event back into a handler.
\* Every event of the list still to be dispatched, and every knote that can
\* produce one, names a handler that is registered, and alive for that, and
\* that still has the descriptor of the event, whatever the callbacks of the
\* earlier events of the same list have closed, accepted or registered.
UdataAlive ==
  /\ \A e \in batch \cup ({current} \ {None}) :
       Registered(e.udata) /\ handle[e.udata] = e.ident
  /\ \A i \in Idents, flt \in Filters :
       LET u == knote[i][flt] IN u # None => Registered(u) /\ handle[u] = i

\* The map and the kernel agree: once the pending changes are taken, a
\* descriptor has a filter for exactly the interests its handler is registered
\* for.  A missing filter is a client that waits for ever; a spare one is an
\* event that no handler wants, which ends the process.
InterestInSync ==
  server = "running" =>
    /\ \A h \in Handlers, flt \in Filters :
         Registered(h) => (Applied(handle[h], flt) = h <=> Wants(h, flt))
    /\ \A i \in Idents, flt \in Filters :
         LET u == Applied(i, flt) IN u # None => Registered(u) /\ handle[u] = i

\* No change fails when it is submitted: what closeConnection avoids by asking
\* for ALL_EVENTS before it closes (ClientEventHandler.cpp:161-163), whatever
\* else the same batch did with that descriptor.
ChangesSucceed ==
  AtKevent =>
    \A k \in 1 .. Len(kq.changes) :
      LET c == kq.changes[k] IN
      IF c.flags = "EV_ADD" THEN Open(c.ident)
      ELSE \/ knote[c.ident][c.filter] # None
           \/ \E j \in 1 .. k - 1 :
                /\ kq.changes[j].flags = "EV_ADD"
                /\ kq.changes[j].ident = c.ident
                /\ kq.changes[j].filter = c.filter

\* A client handler is in the map exactly while it owns an open descriptor, and
\* its file is open no longer than that: no descriptor, of a connection or of
\* a file, is left open without a handler to close it, and no handler is kept
\* for a descriptor that was closed.
NoLeak ==
  \A c \in Conns : (Registered(c) <=> Holds(c)) /\ (file[c] # None => Holds(c))

\* closeConnection closes and deregisters (ClientEventHandler.h:71): a handler
\* whose connection was closed is not in the map.
ClosedStaysClosed == \A c \in Conns : Closed(c) => ~Registered(c)

\* Descriptors are reused at once, and responses are sent by descriptor: what
\* is sent on a connection is the response to the request it carried, and it
\* is sent only once that request was read whole.
OwnResponse ==
  \A c \in Conns : delivered[c] # {} => delivered[c] = {c} /\ got[c] = Total(c)

\* The vectors have room for every change: modifyKevents never writes past the
\* end of m_keventChanges.
ChangesFit == Len(kq.changes) <= kq.size

\* The reallocation that invalidates the walk cannot happen before half as
\* many events as the initial capacity were dispatched: a batch that small is
\* never lost.
ListMovesLate == moved => 2 * dispatched >= KeventSize

\* The process ends in no other step than these: in a callback that may end it
\* for a reason of its own handler or client (MayEnd), or in the walk over a list
\* that moved.  In particular handleEvents never runs out of things to do with
\* an event for any other reason, whatever became of other connections, and the
\* failure of one client is never met in another one's callback.
DiesForCause ==
  [][server' # server => IF current = None THEN moved ELSE MayEnd(current.udata)]_vars

\* "This should not block" (ListenEventHandler.cpp:57): accept() is called
\* with a connection to return, unless some client aborted its connection before
\* it was accepted.
AcceptBlocksForAbort ==
  (server = "running" /\ current # None /\ ToAccept(current)) =>
    backlog # {} \/ \E c \in Conns : peer[c] = "reset" /\ handle[c] = None

\* A client that stays and has sent a whole good request gets its response,
\* all of it, or the process ends.
Served ==
  \A c \in Conns :
    (request[c].kind \in Answerable /\ peer[c] = "open" /\ unsent[c] = 0)
      ~> (wrote[c] = Writes \/ peer[c] # "open" \/ server # "running")

\* The server releases the connection of a client that has gone.
Released ==
  \A c \in Conns :
    (peer[c] \in {"fin", "reset"} /\ Attached(c))
      ~> (~Attached(c) \/ server # "running")

----------------------------------------------------------------------------
(* What the repository says of itself, and the code does not always do.    *)

\* handleEvents sends the events it captured to their handlers
\* (IDispatcher.h:56-57): an event leaves the list by being dispatched.
EventsReachHandlers == [][\A e \in batch : e \in batch' \/ current' = e]_vars
============================================================================
