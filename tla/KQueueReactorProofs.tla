------------------------ MODULE KQueueReactorProofs ------------------------
(***************************************************************************)
(* Proofs about KQueueReactor, for every number of connections and         *)
(* descriptors, every set of requests and faults, and every capacity of    *)
(* the kevent vectors.                                                     *)
(*                                                                         *)
(* The argument.  A udata pointer comes back from the kernel in an event   *)
(* and must still be a registered handler, although callbacks of earlier   *)
(* events of the same list have run in between.  It is, because a handler  *)
(* is removed only by its own callback, a handler never has two events in  *)
(* one list (it waits for one filter at a time), and a handler with a      *)
(* change pending that mentions it has no event left in the list.          *)
(***************************************************************************)
EXTENDS KQueueReactor, EventHandlersProofs

\* The events of the list that are not done with.
InFlight == batch \cup ({current} \ {None})

HasChange(i, flt) ==
  \E k \in 1 .. Len(kq.changes) :
    kq.changes[k].ident = i /\ kq.changes[k].filter = flt

\* Handlers wait for one thing at a time, and have a descriptor while they do.
InvHandlers ==
  /\ handle[Listener] = Listener
  /\ kq.map[Listener] = {"ACCEPT", "CLOSE"}
  /\ \A c \in Conns :
       /\ handle[c] \in Fds \cup {None}
       /\ kq.map[c] \in {{}, {"READ", "CLOSE"}, {"WRITE", "CLOSE"}}
       /\ handle[c] = None => kq.map[c] = {}
       /\ peer[c] = "away" \/ c \in backlog => handle[c] = None
       /\ c \in backlog => peer[c] # "away"

InvEvents ==
  /\ current # None => current \notin batch
  /\ \A e \in InFlight :
       /\ Registered(e.udata)
       /\ handle[e.udata] = e.ident
       /\ e.udata = Listener => ~e.eof
  /\ \A e1, e2 \in InFlight : e1.udata = e2.udata => e1 = e2

InvChanges ==
  \A k \in 1 .. Len(kq.changes) :
    LET c == kq.changes[k] IN
    c.flags = "EV_ADD" =>
      /\ c.udata \in Handlers
      /\ Registered(c.udata)
      /\ handle[c.udata] = c.ident
      /\ Wants(c.udata, c.filter)
      /\ \A e \in InFlight : e.udata # c.udata

InvKnotes ==
  \A i \in Idents, flt \in Filters :
    LET u == knote[i][flt] IN
    u # None =>
      /\ Registered(u)
      /\ handle[u] = i
      /\ Wants(u, flt) \/ HasChange(i, flt)

InvClosed == \A f \in Fds : owner[f] = None => knote[f] = NoKnotes

\* The vectors: at most two changes per event dispatched, besides the one that
\* registers the listener before the first kevent().
InvVectors ==
  /\ Len(kq.changes) <= kq.size
  /\ kq.size >= KeventSize
  /\ moved => 2 * dispatched >= KeventSize
  /\ \/ Len(kq.changes) <= 2 * (dispatched - (IF current = None THEN 0 ELSE 1))
     \/ Len(kq.changes) = 1 /\ InFlight = {} /\ dispatched = 0

IInv ==
  /\ TypeOK
  /\ InvHandlers
  /\ InvEvents
  /\ InvChanges
  /\ InvKnotes
  /\ InvClosed
  /\ InvVectors

----------------------------------------------------------------------------
(* The dispatcher's operators.                                             *)

Dispatcher == [map : [Handlers -> SUBSET ALL_EVENTS], changes : Seq(Change),
               size : Nat \ {0}]

\* Each call of the handlers asks for one filter, so it adds one change.
LEMMA OneFilter ==
  /\ FiltersOf({"ACCEPT", "CLOSE"}) = <<"EVFILT_READ">>
  /\ FiltersOf({"READ", "CLOSE"}) = <<"EVFILT_READ">>
  /\ FiltersOf({"READ"}) = <<"EVFILT_READ">>
  /\ FiltersOf({"WRITE", "CLOSE"}) = <<"EVFILT_WRITE">>
<1>1. FiltersOf({"ACCEPT", "CLOSE"}) = <<"EVFILT_READ">> \o <<>> \o <<>>
  <2>1. /\ "ACCEPT" \in {"ACCEPT", "CLOSE"} /\ "READ" \notin {"ACCEPT", "CLOSE"}
        /\ "WRITE" \notin {"ACCEPT", "CLOSE"} /\ {"ACCEPT", "CLOSE"} # {"CLOSE"}
    OBVIOUS
  <2> QED BY ONLY <2>1 DEF FiltersOf
<1>2. FiltersOf({"READ", "CLOSE"}) = <<>> \o <<"EVFILT_READ">> \o <<>>
  <2>1. /\ "ACCEPT" \notin {"READ", "CLOSE"} /\ "READ" \in {"READ", "CLOSE"}
        /\ "WRITE" \notin {"READ", "CLOSE"} /\ {"READ", "CLOSE"} # {"CLOSE"}
    OBVIOUS
  <2> QED BY ONLY <2>1 DEF FiltersOf
<1>3. FiltersOf({"READ"}) = <<>> \o <<"EVFILT_READ">> \o <<>>
  <2>1. /\ "ACCEPT" \notin {"READ"} /\ "READ" \in {"READ"}
        /\ "WRITE" \notin {"READ"} /\ {"READ"} # {"CLOSE"}
    OBVIOUS
  <2> QED BY ONLY <2>1 DEF FiltersOf
<1>4. FiltersOf({"WRITE", "CLOSE"}) = <<>> \o <<>> \o <<"EVFILT_WRITE">>
  <2>1. /\ "ACCEPT" \notin {"WRITE", "CLOSE"} /\ "READ" \notin {"WRITE", "CLOSE"}
        /\ "WRITE" \in {"WRITE", "CLOSE"}
    OBVIOUS
  <2> QED BY ONLY <2>1 DEF FiltersOf
<1> QED
  BY <1>1, <1>2, <1>3, <1>4

\* modifyKevents, for a set of events that takes one filter, appends one change.
LEMMA ModifyAppends ==
  ASSUME NEW d \in Dispatcher, NEW et, NEW ident \in Idents,
         NEW flags \in {"EV_ADD", "EV_DELETE"}, NEW udata \in Handlers \cup {None},
         NEW flt \in Filters, FiltersOf(et) = <<flt>>
  PROVE  LET c == [flags |-> flags, ident |-> ident, filter |-> flt, udata |-> udata] IN
         /\ c \in Change
         /\ ModifyKevents(d, et, ident, flags, udata)
              = [d EXCEPT !.changes = Append(@, c)]
<1> DEFINE c == [flags |-> flags, ident |-> ident, filter |-> flt, udata |-> udata]
           new == [i \in 1 .. Len(<<flt>>) |->
                     [flags |-> flags, ident |-> ident, filter |-> <<flt>>[i],
                      udata |-> udata]]
<1>1. c \in Change
  BY DEF Change
<1>2. new = <<c>>
  OBVIOUS
<1>3. d.changes \in Seq(Change)
  BY DEF Dispatcher
<1>4. d.changes \o <<c>> = Append(d.changes, c)
  BY <1>1, <1>3
<1>5. ModifyKevents(d, et, ident, flags, udata) = [d EXCEPT !.changes = @ \o new]
  BY DEF ModifyKevents
<1> QED
  BY <1>1, <1>2, <1>4, <1>5

\* The vectors after one more change: n changes in room for s.
Grown(n, s) == IF n = s THEN 2 * s ELSE s

\* What a registration adds, for the sets of events the handlers register for.
LEMMA Registers ==
  ASSUME NEW d \in Dispatcher, NEW h \in Handlers, NEW fd \in Idents,
         NEW et \in SUBSET ALL_EVENTS, et # {},
         NEW flt \in Filters, FiltersOf(et) = <<flt>>
  PROVE  LET r == RegisterHandler(d, h, fd, et)
             c == [flags |-> "EV_ADD", ident |-> fd, filter |-> flt, udata |-> h]
         IN /\ r \in Dispatcher
            /\ c \in Change
            /\ r.map = [d.map EXCEPT ![h] = @ \cup et]
            /\ r.changes = Append(d.changes, c)
            /\ r.size = Grown(Len(d.changes), d.size)
<1> DEFINE c == [flags |-> "EV_ADD", ident |-> fd, filter |-> flt, udata |-> h]
           z == ResizeKeventsVectors(d)
<1>1. /\ z \in Dispatcher /\ z.map = d.map /\ z.changes = d.changes
      /\ z.size = Grown(Len(d.changes), d.size)
  BY DEF Dispatcher, ResizeKeventsVectors, Grown
<1>2. /\ c \in Change
      /\ ModifyKevents(z, et, fd, "EV_ADD", h) = [z EXCEPT !.changes = Append(@, c)]
  BY <1>1, ModifyAppends
<1>3. Append(z.changes, c) \in Seq(Change)
  BY <1>1, <1>2 DEF Dispatcher
<1> DEFINE y == [z EXCEPT !.changes = Append(@, c)]
<1>4. /\ y \in Dispatcher /\ y.map = d.map /\ y.changes = Append(d.changes, c)
      /\ y.size = z.size
  BY <1>1, <1>3 DEF Dispatcher
<1>5. RegisterHandler(d, h, fd, et) = [y EXCEPT !.map[h] = @ \cup et]
  BY <1>2 DEF RegisterHandler
<1>6. d.map[h] \cup et \in SUBSET ALL_EVENTS
  BY DEF Dispatcher
<1> HIDE DEF y, c, z
<1>7. /\ [y EXCEPT !.map[h] = @ \cup et] \in Dispatcher
      /\ [y EXCEPT !.map[h] = @ \cup et].map = [y.map EXCEPT ![h] = @ \cup et]
      /\ [y EXCEPT !.map[h] = @ \cup et].changes = y.changes
      /\ [y EXCEPT !.map[h] = @ \cup et].size = y.size
  BY <1>4, <1>6 DEF Dispatcher
<1> QED
  BY <1>1, <1>2, <1>4, <1>5, <1>7 DEF c

\* What a removal of some of the events of a registered handler adds.
LEMMA Removes ==
  ASSUME NEW d \in Dispatcher, NEW h \in Handlers, NEW fd \in Idents,
         NEW et \in SUBSET ALL_EVENTS, et # {}, et # ALL_EVENTS, d.map[h] # {},
         NEW flt \in Filters, FiltersOf(et) = <<flt>>
  PROVE  LET r == RemoveHandler(d, h, fd, et)
             c == [flags |-> "EV_DELETE", ident |-> fd, filter |-> flt, udata |-> None]
         IN /\ r \in Dispatcher
            /\ c \in Change
            /\ r.map = [d.map EXCEPT ![h] = @ \ et]
            /\ r.changes = Append(d.changes, c)
            /\ r.size = Grown(Len(d.changes), d.size)
<1> DEFINE c == [flags |-> "EV_DELETE", ident |-> fd, filter |-> flt, udata |-> None]
           z == ResizeKeventsVectors(d)
<1>1. /\ z \in Dispatcher /\ z.map = d.map /\ z.changes = d.changes
      /\ z.size = Grown(Len(d.changes), d.size)
  BY DEF Dispatcher, ResizeKeventsVectors, Grown
<1>2. /\ c \in Change
      /\ ModifyKevents(z, et, fd, "EV_DELETE", None) = [z EXCEPT !.changes = Append(@, c)]
  BY <1>1, ModifyAppends
<1>3. Append(z.changes, c) \in Seq(Change)
  BY <1>1, <1>2 DEF Dispatcher
<1> DEFINE y == [z EXCEPT !.changes = Append(@, c)]
<1>4. /\ y \in Dispatcher /\ y.map = d.map /\ y.changes = Append(d.changes, c)
      /\ y.size = z.size
  BY <1>1, <1>3 DEF Dispatcher
<1>5. RemoveHandler(d, h, fd, et) = [y EXCEPT !.map[h] = @ \ et]
  BY <1>2 DEF RemoveHandler
<1>6. d.map[h] \ et \in SUBSET ALL_EVENTS
  BY DEF Dispatcher
<1> HIDE DEF y, c, z
<1>7. /\ [y EXCEPT !.map[h] = @ \ et] \in Dispatcher
      /\ [y EXCEPT !.map[h] = @ \ et].map = [y.map EXCEPT ![h] = @ \ et]
      /\ [y EXCEPT !.map[h] = @ \ et].changes = y.changes
      /\ [y EXCEPT !.map[h] = @ \ et].size = y.size
  BY <1>4, <1>6 DEF Dispatcher
<1> QED
  BY <1>1, <1>2, <1>4, <1>5, <1>7 DEF c

\* Asking for all events only takes the handler out of the map.
LEMMA RemovesAll ==
  ASSUME NEW d \in Dispatcher, NEW h \in Handlers, NEW fd
  PROVE  RemoveHandler(d, h, fd, ALL_EVENTS) = [d EXCEPT !.map[h] = {}]
<1>1. ALL_EVENTS # {}
  BY DEF ALL_EVENTS
<1>2. CASE d.map[h] = {}
  BY <1>1, <1>2 DEF RemoveHandler, Dispatcher
<1>3. CASE d.map[h] # {}
  BY <1>1, <1>3 DEF RemoveHandler, Dispatcher
<1> QED
  BY <1>2, <1>3

----------------------------------------------------------------------------
(* The invariant holds at the start.                                       *)

LEMMA InitIInv == Init => IInv
<1> SUFFICES ASSUME Init PROVE IInv
  OBVIOUS
<1> DEFINE d == [map |-> [h \in Handlers |-> {}], changes |-> <<>>, size |-> KeventSize]
           c == [flags |-> "EV_ADD", ident |-> Listener, filter |-> "EVFILT_READ",
                 udata |-> Listener]
<1>1. /\ d \in Dispatcher /\ Listener \in Handlers /\ Listener \in Idents
      /\ "EVFILT_READ" \in Filters /\ {"ACCEPT", "CLOSE"} \in SUBSET ALL_EVENTS
  BY KeventSizeAssumption DEF Dispatcher, Handlers, Idents, Filters, ALL_EVENTS
<1>2. /\ kq \in Dispatcher /\ c \in Change
      /\ kq.map = [d.map EXCEPT ![Listener] = @ \cup {"ACCEPT", "CLOSE"}]
      /\ kq.changes = Append(d.changes, c)
      /\ kq.size = Grown(Len(d.changes), d.size)
  <2>1. kq = RegisterHandler(d, Listener, Listener, {"ACCEPT", "CLOSE"})
    BY DEF Init
  <2> HIDE DEF d
  <2> QED BY <1>1, <2>1, OneFilter, Registers
<1>3. /\ kq.map = [h \in Handlers |-> IF h = Listener THEN {"ACCEPT", "CLOSE"} ELSE {}]
      /\ kq.changes = <<c>>
      /\ kq.size = KeventSize
  <2>1. kq.changes = Append(<<>>, c)
    BY <1>2
  <2>2. kq.changes = <<c>>
    BY <2>1
  <2>3. Len(d.changes) = 0 /\ d.size = KeventSize
    OBVIOUS
  <2>4. kq.size = KeventSize
    BY <1>2, <2>3, KeventSizeAssumption DEF Grown
  <2>5. kq.map = [h \in Handlers |-> IF h = Listener THEN {"ACCEPT", "CLOSE"} ELSE {}]
    BY <1>1, <1>2
  <2> QED BY <2>2, <2>4, <2>5
<1>4. TypeOK
  <2>1. SocketsTypeOK
    BY SocketsAssumption DEF Init, SocketsInit, SocketsTypeOK, PeerStates, Total
  <2>2. HandlersTypeOK
    BY DEF Init, HandlersInit, HandlersTypeOK, Handlers
  <2>3. knote \in [Idents -> [Filters -> Handlers \cup {None}]]
    BY DEF Init, NoKnotes
  <2> QED BY <1>2, <2>1, <2>2, <2>3 DEF Init, TypeOK, Dispatcher
<1>5. InvHandlers
  BY <1>3, EventHandlersAssumption DEF Init, HandlersInit, SocketsInit, InvHandlers, Handlers
<1>6. InFlight = {}
  BY DEF Init, InFlight
<1>7. InvEvents
  BY <1>6 DEF InvEvents, Init
<1>8. InvChanges
  <2>1. Len(kq.changes) = 1 /\ kq.changes[1] = c
    BY <1>3
  <2>2. Registered(Listener) /\ Wants(Listener, "EVFILT_READ") /\ handle[Listener] = Listener
    BY <1>5 DEF InvHandlers, Registered, Wants
  <2> QED BY <1>1, <1>6, <2>1, <2>2 DEF InvChanges
<1>9. InvKnotes /\ InvClosed
  BY DEF Init, InvKnotes, InvClosed, NoKnotes, Idents
<1>10. InvVectors
  <2>1. Len(kq.changes) = 1 /\ dispatched = 0 /\ moved = FALSE
    BY <1>3 DEF Init
  <2> QED BY <1>3, <1>6, <2>1, KeventSizeAssumption DEF InvVectors
<1> QED
  BY <1>4, <1>5, <1>7, <1>8, <1>9, <1>10 DEF IInv

----------------------------------------------------------------------------
(* What the invariant says of the kernel's side.                           *)

\* A handler waits for one filter at most.
LEMMA OneWait ==
  ASSUME IInv, NEW h \in Handlers, NEW a \in Filters, NEW b \in Filters,
         Wants(h, a), Wants(h, b)
  PROVE  a = b
<1>1. \/ kq.map[h] = {"ACCEPT", "CLOSE"}
      \/ kq.map[h] = {}
      \/ kq.map[h] = {"READ", "CLOSE"}
      \/ kq.map[h] = {"WRITE", "CLOSE"}
  BY DEF IInv, InvHandlers, Handlers
<1> QED
  BY <1>1 DEF Wants, Filters

\* The udata that a filter has after the pending changes is a handler that
\* is registered for that filter of that descriptor.
LEMMA AppliedIsWanted ==
  ASSUME IInv, NEW i \in Idents, NEW flt \in Filters
  PROVE  LET u == Applied(i, flt) IN
         /\ u \in Handlers \cup {None}
         /\ u # None => Registered(u) /\ handle[u] = i /\ Wants(u, flt)
         /\ i \in Fds /\ owner[i] = None => u = None
<1> DEFINE u == Applied(i, flt)
           last == LastChange(i, flt)
<1>1. i \in Fds /\ owner[i] = None => ~Open(i)
  BY EventHandlersAssumption DEF Open
<1>2. ~Open(i) => knote[i][flt] = None
  BY DEF Open, Idents, IInv, InvClosed, NoKnotes
<1>3. knote[i][flt] \in Handlers \cup {None}
  BY DEF IInv, TypeOK
<1>4. CASE ~HasChange(i, flt)
  <2>1. u = knote[i][flt]
    BY <1>4 DEF Applied, HasChange
  <2> QED BY <1>1, <1>2, <1>3, <1>4, <2>1 DEF IInv, InvKnotes
<1>5. CASE HasChange(i, flt) /\ \E c \in last : c.flags = "EV_ADD"
  <2> DEFINE ch == CHOOSE c \in last : c.flags = "EV_ADD"
  <2>1. u = IF Open(i) THEN ch.udata ELSE knote[i][flt]
    BY <1>5 DEF Applied, HasChange
  <2>2. ch \in last /\ ch.flags = "EV_ADD"
    BY <1>5
  <2>3. PICK k \in 1 .. Len(kq.changes) :
          ch = kq.changes[k] /\ kq.changes[k].ident = i /\ kq.changes[k].filter = flt
    BY <2>2 DEF LastChange
  <2>4. /\ ch.udata \in Handlers /\ Registered(ch.udata) /\ handle[ch.udata] = i
        /\ Wants(ch.udata, flt)
    BY <2>2, <2>3 DEF IInv, InvChanges
  <2> QED BY <1>1, <1>2, <2>1, <2>4
<1>6. CASE HasChange(i, flt) /\ ~(\E c \in last : c.flags = "EV_ADD")
  <2>1. u = None
    BY <1>6 DEF Applied, HasChange
  <2> QED BY <2>1
<1> QED
  BY <1>4, <1>5, <1>6

\* What the kernel can report.
LEMMA ReadyIsWanted ==
  ASSUME IInv, kq.changes = <<>>, NEW e \in Ready
  PROVE  /\ e \in Kevent
         /\ Registered(e.udata) /\ handle[e.udata] = e.ident
         /\ Wants(e.udata, e.filter)
         /\ e.udata = Listener => ~e.eof
         /\ e = EventOf(e.ident, e.filter)
<1>1. PICK i \in Idents, flt \in Filters : e = EventOf(i, flt) /\ Reports(i, flt)
  BY DEF Ready
<1>2. e.ident = i /\ e.filter = flt /\ e.udata = knote[i][flt] /\ e.eof = Eof(i, flt)
  BY <1>1 DEF EventOf
<1>3. Eof(i, flt) \in BOOLEAN
  BY DEF Eof, AtEof
<1>4. knote[i][flt] # None /\ knote[i][flt] \in Handlers \cup {None}
  BY <1>1 DEF Reports, IInv, TypeOK
<1>5. ~HasChange(i, flt)
  BY DEF HasChange
<1>6. Registered(e.udata) /\ handle[e.udata] = i /\ Wants(e.udata, flt)
  BY <1>2, <1>4, <1>5 DEF IInv, InvKnotes
<1>7. e.udata = Listener => ~e.eof
  BY <1>2, <1>6 DEF Eof, IInv, InvHandlers
<1>8. e \in Kevent
  BY <1>1, <1>3, <1>4 DEF EventOf, Kevent
<1> QED
  BY <1>1, <1>2, <1>6, <1>7, <1>8

----------------------------------------------------------------------------
(* The steps outside the callbacks.                                        *)

LEMMA SubmitStep == IInv /\ Submit => IInv'
<1> SUFFICES ASSUME IInv, Submit PROVE IInv'
  OBVIOUS
<1>1. /\ kq' = [kq EXCEPT !.changes = <<>>] /\ kq \in Dispatcher
      /\ kq'.map = kq.map /\ kq'.size = kq.size /\ kq'.changes = <<>>
  BY DEF Submit, IInv, TypeOK, Dispatcher
<1>2. /\ InFlight = {} /\ InFlight' = {} /\ current = None /\ current' = None /\ batch' = {}
  BY DEF Submit, AtKevent, InFlight
<1>3. /\ handle' = handle /\ owner' = owner /\ peer' = peer /\ backlog' = backlog
      /\ dispatched' = dispatched /\ moved' = FALSE
  BY DEF Submit, sockVars, handlerVars
<1>4. ASSUME NEW i \in Idents, NEW flt \in Filters
      PROVE  knote'[i][flt] = Applied(i, flt)
  BY DEF Submit
<1>5. TypeOK'
  <2>1. knote' \in [Idents -> [Filters -> Handlers \cup {None}]]
    BY AppliedIsWanted DEF Submit
  <2>2. kq' \in Dispatcher
    <3>1. <<>> \in Seq(Change)
      OBVIOUS
    <3> QED BY <1>1, <3>1 DEF Dispatcher
  <2>3. SocketsTypeOK' /\ HandlersTypeOK'
    BY DEF IInv, TypeOK, SocketsTypeOK, HandlersTypeOK, Submit, sockVars, handlerVars
  <2> QED BY <1>2, <1>3, <2>1, <2>2, <2>3 DEF IInv, TypeOK, Dispatcher
<1>6. InvHandlers'
  BY <1>1, <1>3 DEF IInv, InvHandlers
<1>7. InvEvents' /\ InvChanges'
  BY <1>1, <1>2 DEF IInv, InvEvents, InvChanges
<1>8. InvKnotes'
  BY <1>1, <1>3, <1>4, AppliedIsWanted DEF InvKnotes, Registered, Wants
<1>9. InvClosed'
  <2> SUFFICES ASSUME NEW f \in Fds, owner[f] = None
               PROVE  knote'[f] = NoKnotes
    BY <1>3 DEF InvClosed
  <2>1. \A flt \in Filters : Applied(f, flt) = None
    BY AppliedIsWanted DEF Idents
  <2> QED BY <2>1 DEF Submit, NoKnotes, Idents
<1>10. InvVectors'
  BY <1>1, <1>2, <1>3 DEF IInv, InvVectors, TypeOK
<1> QED
  BY <1>5, <1>6, <1>7, <1>8, <1>9, <1>10 DEF IInv

LEMMA CollectStep == IInv /\ Collect => IInv'
<1> SUFFICES ASSUME IInv, Collect PROVE IInv'
  OBVIOUS
<1>1. /\ kq' = kq /\ kq.changes = <<>> /\ knote' = knote /\ handle' = handle
      /\ owner' = owner /\ peer' = peer /\ backlog' = backlog
      /\ current = None /\ current' = None /\ dispatched' = 0 /\ moved' = FALSE
  BY DEF Collect, AtKevent, sockVars, handlerVars
<1>2. batch' \subseteq Ready /\ InFlight' \subseteq Ready
  BY <1>1 DEF Collect, InFlight
<1>3. TypeOK'
  <2>1. batch' \subseteq Kevent
    BY <1>1, <1>2, ReadyIsWanted
  <2>2. SocketsTypeOK' /\ HandlersTypeOK'
    BY DEF IInv, TypeOK, SocketsTypeOK, HandlersTypeOK, Collect, sockVars, handlerVars
  <2> QED BY <1>1, <2>1, <2>2 DEF IInv, TypeOK
<1>4. InvHandlers' /\ InvClosed' /\ InvKnotes'
  BY <1>1 DEF IInv, InvHandlers, InvClosed, InvKnotes, Registered, Wants, HasChange
<1>5. InvChanges'
  BY <1>1 DEF InvChanges
<1>6. InvEvents'
  <2>1. \A e \in InFlight' : /\ Registered(e.udata)' /\ handle'[e.udata] = e.ident
                             /\ e.udata = Listener => ~e.eof
    BY <1>1, <1>2, ReadyIsWanted DEF Registered
  <2>2. ASSUME NEW e1 \in Ready, NEW e2 \in Ready, e1.udata = e2.udata
        PROVE  e1 = e2
    <3>1. /\ e1.ident = e2.ident /\ Wants(e1.udata, e1.filter) /\ Wants(e1.udata, e2.filter)
          /\ e1 = EventOf(e1.ident, e1.filter) /\ e2 = EventOf(e2.ident, e2.filter)
          /\ e1 \in Kevent /\ e2 \in Kevent
      BY <1>1, <2>2, ReadyIsWanted
    <3>2. e1.filter = e2.filter
      BY <3>1, OneWait DEF Kevent
    <3> QED BY <3>1, <3>2
  <2> QED BY <1>1, <1>2, <2>1, <2>2 DEF InvEvents
<1>7. InvVectors'
  BY <1>1 DEF IInv, InvVectors, TypeOK
<1> QED
  BY <1>3, <1>4, <1>5, <1>6, <1>7 DEF IInv

LEMMA AdvanceStep == IInv /\ Advance => IInv'
<1> SUFFICES ASSUME IInv, Advance PROVE IInv'
  OBVIOUS
<1>1. /\ kq' = kq /\ knote' = knote /\ handle' = handle /\ owner' = owner /\ peer' = peer
      /\ backlog' = backlog /\ moved' = moved /\ current = None
      /\ dispatched' = dispatched + 1
  BY DEF Advance, sockVars, handlerVars
<1>2. PICK e \in batch : current' = e /\ batch' = batch \ {e}
  BY DEF Advance
<1>3. InFlight' \subseteq InFlight /\ InFlight # {}
  BY <1>1, <1>2 DEF InFlight
<1>4. TypeOK'
  <2>1. SocketsTypeOK' /\ HandlersTypeOK'
    BY DEF IInv, TypeOK, SocketsTypeOK, HandlersTypeOK, Advance, sockVars, handlerVars
  <2> QED BY <1>1, <1>2, <2>1 DEF IInv, TypeOK
<1>5. InvHandlers' /\ InvClosed' /\ InvKnotes'
  BY <1>1 DEF IInv, InvHandlers, InvClosed, InvKnotes, Registered, Wants, HasChange
<1>6. InvEvents'
  BY <1>1, <1>2, <1>3 DEF IInv, InvEvents, Registered
<1>7. InvChanges'
  BY <1>1, <1>3 DEF IInv, InvChanges, Registered, Wants
<1>8. InvVectors'
  <2>2. dispatched \in Nat /\ KeventSize \in Nat
    BY KeventSizeAssumption DEF IInv, TypeOK
  <2>1. Len(kq.changes) <= 2 * dispatched
    BY <1>1, <1>3, <2>2 DEF IInv, InvVectors
  <2>3. Len(kq'.changes) <= 2 * (dispatched' - (IF current' = None THEN 0 ELSE 1))
    <3>1. CASE current' = None
      BY <1>1, <2>1, <2>2, <3>1, Len(kq.changes) \in Nat DEF IInv, TypeOK
    <3>2. CASE current' # None
      BY <1>1, <2>1, <2>2, <3>2
    <3> QED BY <3>1, <3>2
  <2>4. moved' => 2 * dispatched' >= KeventSize
    BY <1>1, <2>2 DEF IInv, InvVectors
  <2> QED BY <1>1, <2>3, <2>4 DEF IInv, InvVectors
<1> QED
  BY <1>4, <1>5, <1>6, <1>7, <1>8 DEF IInv

LEMMA LoseRestStep == IInv /\ LoseRest => IInv'
<1> SUFFICES ASSUME IInv, LoseRest PROVE IInv'
  OBVIOUS
<1>1. /\ kq' = kq /\ knote' = knote /\ handle' = handle /\ owner' = owner /\ peer' = peer
      /\ backlog' = backlog /\ moved' = moved /\ current = None /\ current' = None
      /\ dispatched' = dispatched /\ batch # {} /\ batch' = {}
  BY DEF LoseRest, sockVars, handlerVars
<1>2. InFlight' = {} /\ (InFlight # {})
  BY <1>1 DEF InFlight
<1>3. TypeOK'
  <2>1. SocketsTypeOK' /\ HandlersTypeOK'
    BY DEF IInv, TypeOK, SocketsTypeOK, HandlersTypeOK, LoseRest, sockVars, handlerVars
  <2> QED BY <1>1, <2>1 DEF IInv, TypeOK
<1>4. InvHandlers' /\ InvClosed' /\ InvKnotes'
  BY <1>1 DEF IInv, InvHandlers, InvClosed, InvKnotes, Registered, Wants, HasChange
<1>5. InvEvents'
  BY <1>1, <1>2 DEF InvEvents
<1>6. InvChanges'
  BY <1>1, <1>2 DEF IInv, InvChanges, Registered, Wants
<1>7. InvVectors'
  BY <1>1, <1>2 DEF IInv, InvVectors
<1> QED
  BY <1>3, <1>4, <1>5, <1>6, <1>7 DEF IInv

\* Steps that end the process where it stands, and steps of the clients.
LEMMA WalkFreedStep == IInv /\ WalkFreed => IInv'
<1> SUFFICES ASSUME IInv, WalkFreed PROVE IInv'
  OBVIOUS
<1>1. reactorVars' = reactorVars /\ handle' = handle /\ sockVars' = sockVars
  BY DEF WalkFreed
<1>2. TypeOK'
  BY <1>1 DEF IInv, TypeOK, SocketsTypeOK, HandlersTypeOK, WalkFreed, reactorVars, sockVars
<1>3. InvHandlers' /\ InvClosed' /\ InvKnotes' /\ InFlight' = InFlight
  BY <1>1 DEF IInv, InvHandlers, InvClosed, InvKnotes, Registered, Wants, HasChange,
              reactorVars, sockVars, InFlight
<1>4. InvEvents' /\ InvChanges' /\ InvVectors'
  BY <1>1, <1>3 DEF IInv, InvEvents, InvChanges, InvVectors, Registered, Wants, reactorVars
<1> QED
  BY <1>2, <1>3, <1>4 DEF IInv

LEMMA OutsideStep == IInv /\ Outside => IInv'
<1> SUFFICES ASSUME IInv, Outside PROVE IInv'
  OBVIOUS
<1>1. reactorVars' = reactorVars /\ handlerVars' = handlerVars
  BY DEF Outside
<1>2. PICK c \in Conns :
        Connect(c) \/ Send(c) \/ Fin(c) \/ Reset(c) \/ Stall(c) \/ Abort(c)
  BY DEF Outside, ClientStep
<1>3. owner' = owner /\ request' = request
  BY <1>2 DEF Connect, Send, Fin, Reset, Stall, Abort
<1>4. SocketsTypeOK'
  <2>1. SocketsTypeOK
    BY DEF IInv, TypeOK
  <2>2. CASE Connect(c)
    BY <2>1, <2>2 DEF SocketsTypeOK, PeerStates, Connect
  <2>3. CASE Send(c)
    BY <2>1, <2>3 DEF SocketsTypeOK, PeerStates, Send
  <2>4. CASE Fin(c) \/ Stall(c)
    BY <2>1, <2>4 DEF SocketsTypeOK, PeerStates, Fin, Stall
  <2>5. CASE Reset(c) \/ Abort(c)
    BY <2>1, <2>5 DEF SocketsTypeOK, PeerStates, Reset, Abort
  <2> QED BY <1>2, <2>2, <2>3, <2>4, <2>5
<1>5. TypeOK'
  BY <1>1, <1>4 DEF IInv, TypeOK, HandlersTypeOK, reactorVars, handlerVars
<1>6. \A x \in Conns :
        /\ peer'[x] = "away" \/ x \in backlog' => peer[x] = "away" \/ x \in backlog
        /\ x \in backlog' /\ peer'[x] = "away" => x \in backlog /\ peer[x] = "away"
  BY <1>2 DEF IInv, TypeOK, SocketsTypeOK, Connect, Send, Fin, Reset, Stall, Abort
<1>7. InvHandlers'
  BY <1>1, <1>6 DEF IInv, InvHandlers, reactorVars, handlerVars
<1>8. InvClosed' /\ InvKnotes' /\ InFlight' = InFlight
  BY <1>1, <1>3 DEF IInv, InvClosed, InvKnotes, Registered, Wants, HasChange, reactorVars,
                    handlerVars, InFlight
<1>9. InvEvents' /\ InvChanges' /\ InvVectors'
  BY <1>1, <1>8 DEF IInv, InvEvents, InvChanges, InvVectors, Registered, Wants, reactorVars,
                    handlerVars
<1> QED
  BY <1>5, <1>7, <1>8, <1>9 DEF IInv

----------------------------------------------------------------------------
(* What the callbacks have in common.                                      *)

\* The event under dispatch, and its handler.
LEMMA CurrentFacts ==
  ASSUME IInv, current # None
  PROVE  /\ current \in Kevent /\ current \in InFlight
         /\ current.udata \in Handlers
         /\ Registered(current.udata)
         /\ handle[current.udata] = current.ident
         /\ \A e \in batch : e.udata # current.udata
         /\ \A k \in 1 .. Len(kq.changes) :
              kq.changes[k].flags = "EV_ADD" => kq.changes[k].udata # current.udata
<1>1. current \in Kevent /\ current \in InFlight /\ current.udata \in Handlers
  BY DEF IInv, TypeOK, Kevent, InFlight
<1>2. \A e \in batch : e.udata # current.udata
  BY <1>1 DEF IInv, InvEvents, InFlight
<1> QED
  BY <1>1, <1>2 DEF IInv, InvEvents, InvChanges

\* The handler of an event that is not the listener's is a connection's, with
\* a descriptor.
LEMMA ClientFacts ==
  ASSUME IInv, current # None, current.udata # Listener
  PROVE  /\ current.udata \in Conns
         /\ handle[current.udata] \in Fds
         /\ current.ident \in Fds /\ current.ident # Listener
         /\ kq.map[current.udata] \in {{"READ", "CLOSE"}, {"WRITE", "CLOSE"}}
<1>1. current.udata \in Conns /\ kq.map[current.udata] # {}
  BY CurrentFacts DEF Handlers, Registered
<1>2. handle[current.udata] \in Fds
  BY <1>1 DEF IInv, InvHandlers
<1> QED
  BY <1>1, <1>2, CurrentFacts, EventHandlersAssumption DEF IInv, InvHandlers

\* The arithmetic of a change, d events dispatched and room for k at the start.
LEMMA OneMore ==
  \A n, s, d, k \in Nat :
    k > 0 /\ n <= s /\ s >= k /\ n + 1 <= 2 * d =>
      /\ Grown(n, s) \in Nat /\ n + 1 <= Grown(n, s) /\ Grown(n, s) >= k
      /\ (Grown(n, s) # s => 2 * d >= k)
BY DEF Grown

\* A callback makes at most two changes, and each may double the vectors.
LEMMA VectorsGrow ==
  ASSUME IInv, current # None, Dispatched,
         \/ /\ Len(kq'.changes) = Len(kq.changes)
            /\ kq'.size = kq.size
         \/ /\ Len(kq'.changes) = Len(kq.changes) + 1
            /\ kq'.size = Grown(Len(kq.changes), kq.size)
         \/ /\ Len(kq'.changes) = Len(kq.changes) + 2
            /\ kq'.size = Grown(Len(kq.changes) + 1, Grown(Len(kq.changes), kq.size))
  PROVE  InvVectors'
<1>1. /\ dispatched \in Nat /\ KeventSize \in Nat /\ KeventSize > 0
      /\ kq.size \in Nat /\ Len(kq.changes) \in Nat
  BY KeventSizeAssumption DEF IInv, TypeOK
<1>2. /\ Len(kq.changes) <= kq.size /\ kq.size >= KeventSize
      /\ moved => 2 * dispatched >= KeventSize
      /\ Len(kq.changes) <= 2 * (dispatched - 1)
  <2>1. InFlight # {}
    BY DEF InFlight
  <2> QED BY <2>1 DEF IInv, InvVectors
<1>3. /\ current' = None /\ dispatched' = dispatched
      /\ moved' = (moved \/ kq'.size # kq.size)
  BY DEF Dispatched
<1>4. /\ Len(kq.changes) + 1 <= 2 * dispatched /\ Len(kq.changes) + 2 <= 2 * dispatched
      /\ Len(kq.changes) + 1 \in Nat /\ Len(kq.changes) + 1 + 1 = Len(kq.changes) + 2
  BY <1>1, <1>2
<1> DEFINE g == Grown(Len(kq.changes), kq.size)
<1>5. /\ g \in Nat /\ Len(kq.changes) + 1 <= g /\ g >= KeventSize
      /\ (g # kq.size => 2 * dispatched >= KeventSize)
  BY <1>1, <1>2, <1>4, OneMore
<1> HIDE DEF g
<1>6. /\ Grown(Len(kq.changes) + 1, g) \in Nat
      /\ Len(kq.changes) + 1 + 1 <= Grown(Len(kq.changes) + 1, g)
      /\ Grown(Len(kq.changes) + 1, g) >= KeventSize
      /\ (Grown(Len(kq.changes) + 1, g) # g => 2 * dispatched >= KeventSize)
  BY <1>1, <1>4, <1>5, OneMore
<1>7. /\ Len(kq'.changes) <= kq'.size /\ kq'.size >= KeventSize
      /\ (kq'.size # kq.size => 2 * dispatched >= KeventSize)
      /\ Len(kq'.changes) <= 2 * dispatched
  <2>1. CASE Len(kq'.changes) = Len(kq.changes) /\ kq'.size = kq.size
    BY <1>1, <1>2, <1>4, <2>1
  <2>2. CASE Len(kq'.changes) = Len(kq.changes) + 1 /\ kq'.size = g
    BY <1>1, <1>4, <1>5, <2>2
  <2>3. CASE /\ Len(kq'.changes) = Len(kq.changes) + 2
             /\ kq'.size = Grown(Len(kq.changes) + 1, g)
    BY <1>1, <1>4, <1>5, <1>6, <2>3
  <2> QED BY <2>1, <2>2, <2>3 DEF g
<1>8. Len(kq'.changes) <= 2 * (dispatched' - (IF current' = None THEN 0 ELSE 1))
  BY <1>1, <1>3, <1>7
<1> QED
  BY <1>2, <1>3, <1>7, <1>8 DEF InvVectors

\* Everything but TypeOK and the vectors: what the callbacks must show.
InvRest == InvHandlers /\ InvEvents /\ InvChanges /\ InvKnotes /\ InvClosed

\* A client's callback leaves the other handlers, the list and the backlog as
\* they are, and is done with its event.
OthersKept ==
  /\ current' = None /\ batch' = batch
  /\ handle' = handle /\ backlog' = backlog
  /\ \A c \in Conns : peer'[c] = "away" => peer[c] = "away"

\* The descriptor f is closed, with its knotes.
ClosesFd(f) == owner' = [owner EXCEPT ![f] = None] /\ knote' = CloseKnotes(f)

\* A callback that leaves the dispatcher alone.
LEMMA KeepPreserves ==
  ASSUME IInv, current # None, OthersKept, kq' = kq, owner' = owner, knote' = knote
  PROVE  InvRest'
<1>1. InFlight' = batch /\ InFlight' \subseteq InFlight
  BY DEF OthersKept, InFlight
<1>2. InvHandlers'
  BY DEF IInv, InvHandlers, OthersKept
<1>3. InvEvents'
  BY <1>1 DEF IInv, InvEvents, OthersKept, Registered
<1>4. InvChanges'
  BY <1>1 DEF IInv, InvChanges, OthersKept, Registered, Wants
<1>5. InvKnotes' /\ InvClosed'
  BY DEF IInv, InvKnotes, InvClosed, OthersKept, Registered, Wants, HasChange
<1> QED
  BY <1>2, <1>3, <1>4, <1>5 DEF InvRest

\* closeConnection and nothing else.
LEMMA ClosePreserves ==
  ASSUME IInv, current # None, current.udata # Listener, OthersKept,
         ClosesFd(handle[current.udata]), kq' = CloseConnection(kq, current.udata)
  PROVE  InvRest' /\ kq' \in Dispatcher /\ kq'.changes = kq.changes /\ kq'.size = kq.size
<1> DEFINE h == current.udata
           f == handle[current.udata]
<1>1. /\ h \in Conns /\ h \in Handlers /\ f \in Fds /\ h # Listener
  BY ClientFacts DEF Handlers
<1>2. kq \in Dispatcher
  BY DEF IInv, TypeOK, Dispatcher
<1>3. kq' = [kq EXCEPT !.map[h] = {}]
  BY <1>1, <1>2, RemovesAll DEF CloseConnection
<1>4. /\ kq' \in Dispatcher /\ kq'.changes = kq.changes /\ kq'.size = kq.size
      /\ kq'.map = [kq.map EXCEPT ![h] = {}]
  BY <1>1, <1>2, <1>3 DEF Dispatcher
<1>5. /\ \A x \in Handlers : x # h => kq'.map[x] = kq.map[x]
      /\ kq'.map[h] = {}
  BY <1>1, <1>2, <1>4 DEF Dispatcher
<1>6. /\ InFlight' = batch /\ InFlight' \subseteq InFlight
      /\ \A e \in batch : e \in Kevent /\ e.udata \in Handlers /\ e.udata # h
  BY CurrentFacts DEF OthersKept, InFlight, IInv, TypeOK, Kevent
<1>7. InvHandlers'
  BY <1>1, <1>5 DEF IInv, InvHandlers, OthersKept, Handlers
<1>8. InvEvents'
  BY <1>5, <1>6 DEF IInv, InvEvents, OthersKept, Registered
<1>9. InvChanges'
  BY <1>4, <1>5, <1>6, CurrentFacts DEF IInv, InvChanges, OthersKept, Registered, Wants
<1>10. InvKnotes'
  <2> SUFFICES ASSUME NEW i \in Idents, NEW flt \in Filters,
                      NEW u, u = knote'[i][flt], u # None
               PROVE  /\ Registered(u)' /\ handle'[u] = i
                      /\ Wants(u, flt)' \/ HasChange(i, flt)'
    BY DEF InvKnotes
  <2>1. i # f /\ knote'[i] = knote[i]
    BY <1>1 DEF ClosesFd, CloseKnotes, NoKnotes, IInv, TypeOK, Idents
  <2>2. /\ u \in Handlers /\ handle[u] = i /\ Registered(u)
        /\ Wants(u, flt) \/ HasChange(i, flt)
    BY <2>1 DEF IInv, TypeOK, InvKnotes
  <2>3. u # h
    BY <2>1, <2>2
  <2> QED
    BY <1>4, <1>5, <2>2, <2>3 DEF OthersKept, Registered, Wants, HasChange
<1>11. InvClosed'
  BY <1>1 DEF IInv, TypeOK, SocketsTypeOK, InvClosed, ClosesFd, CloseKnotes, Idents
<1> QED
  BY <1>4, <1>7, <1>8, <1>9, <1>10, <1>11 DEF InvRest

\* A handler goes from reading to writing: the knote for reading, if it still
\* has one, gets a change, and the new change names a handler without events.
LEMMA ReplyPreserves ==
  ASSUME IInv, current # None, OthersKept,
         NEW h, h = current.udata, h # Listener, "READ" \in kq.map[h],
         NEW f, f = handle[h], NEW add, NEW del,
         add = [flags |-> "EV_ADD", ident |-> f, filter |-> "EVFILT_WRITE", udata |-> h],
         del = [flags |-> "EV_DELETE", ident |-> f, filter |-> "EVFILT_READ",
                udata |-> None],
         kq' \in Dispatcher, add \in Change, del \in Change,
         kq'.map = [kq.map EXCEPT ![h] = {"WRITE", "CLOSE"}],
         \/ /\ kq'.changes = Append(Append(kq.changes, del), add)
            /\ owner' = owner /\ knote' = knote
         \/ /\ kq'.changes = Append(kq.changes, add)
            /\ ClosesFd(f)
  PROVE  InvRest'
<1> DEFINE n == Len(kq.changes)
<1>1. /\ h \in Conns /\ h \in Handlers /\ f \in Fds /\ h # Listener
      /\ kq.map[h] = {"READ", "CLOSE"}
  BY ClientFacts DEF Handlers
<1>2. kq \in Dispatcher /\ kq.changes \in Seq(Change) /\ n \in Nat
  BY DEF IInv, TypeOK, Dispatcher
<1>3. /\ \A x \in Handlers : x # h => kq'.map[x] = kq.map[x]
      /\ kq'.map[h] = {"WRITE", "CLOSE"}
  BY <1>1, <1>2 DEF Dispatcher
<1>4. /\ \A k \in 1 .. n : k \in 1 .. Len(kq'.changes) /\ kq'.changes[k] = kq.changes[k]
      /\ \A k \in 1 .. Len(kq'.changes) :
           \/ k \in 1 .. n /\ kq'.changes[k] = kq.changes[k]
           \/ kq'.changes[k] = add
           \/ kq'.changes[k] = del
      /\ \/ owner' = owner /\ knote' = knote /\ HasChange(f, "EVFILT_READ")'
         \/ ClosesFd(f)
  <2>1. CASE /\ kq'.changes = Append(Append(kq.changes, del), add)
             /\ owner' = owner /\ knote' = knote
    <3>1. Append(kq.changes, del) \in Seq(Change) /\ Len(Append(kq.changes, del)) = n + 1
      BY <1>2
    <3>2. Len(kq'.changes) = n + 2 /\ kq'.changes[n + 1] = del /\ kq'.changes[n + 2] = add
      BY <1>2, <2>1, <3>1
    <3>3. HasChange(f, "EVFILT_READ")'
      <4>1. n + 1 \in 1 .. Len(kq'.changes)
        BY <1>2, <3>2
      <4> QED BY <3>2, <4>1 DEF HasChange, OthersKept
    <3>4. \A k \in 1 .. n : k \in 1 .. Len(kq'.changes) /\ kq'.changes[k] = kq.changes[k]
      BY <1>2, <2>1, <3>1, <3>2
    <3>5. \A k \in 1 .. Len(kq'.changes) : k \in 1 .. n \/ k = n + 1 \/ k = n + 2
      BY <1>2, <3>2
    <3> QED BY <2>1, <3>2, <3>3, <3>4, <3>5
  <2>2. CASE kq'.changes = Append(kq.changes, add) /\ ClosesFd(f)
    BY <1>2, <2>2
  <2> QED BY <2>1, <2>2
<1>5. /\ InFlight' = batch /\ InFlight' \subseteq InFlight
      /\ \A e \in batch : e \in Kevent /\ e.udata \in Handlers /\ e.udata # h
  BY CurrentFacts DEF OthersKept, InFlight, IInv, TypeOK, Kevent
<1>6. InvHandlers'
  BY <1>1, <1>3 DEF IInv, InvHandlers, OthersKept, Handlers
<1>7. InvEvents'
  BY <1>3, <1>5 DEF IInv, InvEvents, OthersKept, Registered
<1>8. InvChanges'
  <2> SUFFICES ASSUME NEW k \in 1 .. Len(kq'.changes), NEW c, c = kq'.changes[k],
                      c.flags = "EV_ADD"
               PROVE  /\ c.udata \in Handlers /\ Registered(c.udata)'
                      /\ handle'[c.udata] = c.ident /\ Wants(c.udata, c.filter)'
                      /\ \A e \in InFlight' : e.udata # c.udata
    BY DEF InvChanges
  <2>1. c # del
    OBVIOUS
  <2>2. CASE c = add
    BY <1>1, <1>3, <1>5, <2>2 DEF OthersKept, Registered, Wants
  <2>3. CASE k \in 1 .. n /\ c = kq.changes[k]
    <3>1. c.udata # h
      BY <2>3, CurrentFacts
    <3>2. /\ c.udata \in Handlers /\ Registered(c.udata) /\ handle[c.udata] = c.ident
          /\ Wants(c.udata, c.filter) /\ \A e \in InFlight : e.udata # c.udata
      BY <2>3 DEF IInv, InvChanges
    <3> QED BY <1>3, <1>5, <3>1, <3>2 DEF OthersKept, Registered, Wants
  <2> QED BY <1>4, <2>1, <2>2, <2>3
<1>9. InvKnotes'
  <2> SUFFICES ASSUME NEW i \in Idents, NEW flt \in Filters,
                      NEW u, u = knote'[i][flt], u # None
               PROVE  /\ Registered(u)' /\ handle'[u] = i
                      /\ Wants(u, flt)' \/ HasChange(i, flt)'
    BY DEF InvKnotes
  <2>1. HasChange(i, flt) => HasChange(i, flt)'
    BY <1>4 DEF HasChange
  <2>2. CASE ClosesFd(f)
    <3>1. i # f /\ knote'[i] = knote[i]
      BY <1>1, <2>2 DEF ClosesFd, CloseKnotes, NoKnotes, IInv, TypeOK, Idents
    <3>2. /\ u \in Handlers /\ handle[u] = i /\ Registered(u)
          /\ Wants(u, flt) \/ HasChange(i, flt)
      BY <3>1 DEF IInv, TypeOK, InvKnotes
    <3>3. u # h
      BY <3>1, <3>2
    <3> QED BY <1>3, <2>1, <3>2, <3>3 DEF OthersKept, Registered, Wants
  <2>3. CASE owner' = owner /\ knote' = knote /\ HasChange(f, "EVFILT_READ")'
    <3>1. /\ u \in Handlers /\ handle[u] = i /\ Registered(u)
          /\ Wants(u, flt) \/ HasChange(i, flt)
      BY <2>3 DEF IInv, TypeOK, InvKnotes
    <3>2. CASE u # h
      BY <1>3, <2>1, <3>1, <3>2 DEF OthersKept, Registered, Wants
    <3>3. CASE u = h
      <4>1. Wants(h, flt) => flt = "EVFILT_READ"
        BY <1>1 DEF Wants, Filters
      <4>2. Registered(h)' /\ handle'[h] = i /\ f = i
        BY <1>3, <3>1, <3>3 DEF OthersKept, Registered
      <4> QED BY <2>1, <2>3, <3>1, <3>3, <4>1, <4>2
    <3> QED BY <3>2, <3>3
  <2> QED BY <1>4, <2>2, <2>3
<1>10. InvClosed'
  BY <1>1, <1>4 DEF IInv, TypeOK, SocketsTypeOK, InvClosed, ClosesFd, CloseKnotes, Idents
<1> QED
  BY <1>6, <1>7, <1>8, <1>9, <1>10 DEF InvRest

----------------------------------------------------------------------------
(* The callbacks.                                                          *)

LEMMA HandleCloseStep == IInv /\ HandleClose => IInv'
<1> SUFFICES ASSUME IInv, HandleClose PROVE IInv'
  OBVIOUS
<1> DEFINE h == current.udata
<1>1. /\ current # None /\ current' = None /\ Dispatched /\ current.eof
      /\ batch' = batch /\ dispatched' = dispatched /\ moved' \in BOOLEAN
      /\ Close(h) /\ kq' = CloseConnection(kq, h) /\ knote' = CloseKnotes(handle[h])
  BY DEF HandleClose, Dispatched, ToClose, IInv, TypeOK
<1>2. h # Listener
  BY <1>1, CurrentFacts DEF IInv, InvEvents
<1>3. OthersKept /\ ClosesFd(handle[h])
  BY <1>1 DEF OthersKept, ClosesFd, Close, handlerVars
<1>4. /\ InvRest' /\ kq' \in Dispatcher
      /\ kq'.changes = kq.changes /\ kq'.size = kq.size
  BY <1>1, <1>2, <1>3, ClosePreserves
<1>5. InvVectors'
  BY <1>1, <1>4, VectorsGrow
<1>6. TypeOK'
  <2>1. SocketsTypeOK' /\ HandlersTypeOK'
    BY <1>1 DEF IInv, TypeOK, SocketsTypeOK, HandlersTypeOK, Close, handlerVars
  <2>2. knote' \in [Idents -> [Filters -> Handlers \cup {None}]]
    BY <1>1 DEF IInv, TypeOK, CloseKnotes, NoKnotes
  <2> QED BY <1>1, <1>4, <2>1, <2>2 DEF IInv, TypeOK, Dispatcher
<1> QED
  BY <1>4, <1>5, <1>6 DEF IInv, InvRest

LEMMA NothingToDoStep == IInv /\ NothingToDo => IInv'
<1> SUFFICES ASSUME IInv, NothingToDo PROVE IInv'
  OBVIOUS
<1>1. /\ current # None /\ current' = None /\ Dispatched /\ batch' = batch
      /\ dispatched' = dispatched /\ moved' \in BOOLEAN
      /\ kq' = kq /\ knote' = knote /\ Fatal
  BY DEF NothingToDo, Dispatched, IInv, TypeOK
<1>2. OthersKept /\ owner' = owner
  BY <1>1 DEF OthersKept, Fatal, sockVars
<1>3. InvRest'
  BY <1>1, <1>2, KeepPreserves
<1>4. InvVectors'
  BY <1>1, VectorsGrow
<1>5. TypeOK'
  <2>1. SocketsTypeOK' /\ HandlersTypeOK'
    BY <1>1 DEF IInv, TypeOK, SocketsTypeOK, HandlersTypeOK, Fatal, sockVars
  <2> QED BY <1>1, <2>1 DEF IInv, TypeOK
<1> QED
  BY <1>3, <1>4, <1>5 DEF IInv, InvRest

\* handleWrite keeps the types of what it sends and closes.
LEMMA WriteTypes ==
  ASSUME TypeOK, NEW h \in Conns, handle[h] \in Fds, SendReturns(handle[h]), Write(h)
  PROVE  SocketsTypeOK' /\ HandlersTypeOK'
<1>1. owner[handle[h]] \in Conns
  BY DEF TypeOK, SocketsTypeOK, SendReturns
<1>2. SocketsTypeOK'
  <2>1. owner' \in [Fds -> Conns \cup {None}]
    BY DEF TypeOK, SocketsTypeOK, Write
  <2> QED BY <2>1 DEF TypeOK, SocketsTypeOK, Write
<1>3. HandlersTypeOK'
  <2>1. wrote' \in [Conns -> Nat]
    BY DEF TypeOK, HandlersTypeOK, Write
  <2>2. delivered' \in [Conns -> SUBSET Conns]
    <3>1. delivered[owner[handle[h]]] \cup {h} \in SUBSET Conns
      BY <1>1 DEF TypeOK, HandlersTypeOK
    <3> QED BY <1>1, <3>1 DEF TypeOK, HandlersTypeOK, Write
  <2>3. file' \in [Conns -> Fds \cup {None}]
    <3>1. PICK g \in Opened(h) : file' = [file EXCEPT ![h] = IF LastChunk(h) THEN None ELSE g]
      BY DEF Write
    <3>2. g \in Fds \cup {None}
      BY <3>1 DEF Opened, FreeFds, TypeOK, HandlersTypeOK
    <3> QED BY <3>1, <3>2 DEF TypeOK, HandlersTypeOK
  <2> QED BY <2>1, <2>2, <2>3 DEF TypeOK, HandlersTypeOK, Write
<1> QED
  BY <1>2, <1>3

LEMMA HandleWriteStep == IInv /\ HandleWrite => IInv'
<1> SUFFICES ASSUME IInv, HandleWrite PROVE IInv'
  OBVIOUS
<1> DEFINE h == current.udata
           f == handle[h]
<1>1. /\ current # None /\ current' = None /\ Dispatched /\ batch' = batch
      /\ dispatched' = dispatched /\ moved' \in BOOLEAN /\ "WRITE" \in kq.map[h]
  BY DEF HandleWrite, Dispatched, ToWrite, Interest, IInv, TypeOK
<1>2. h # Listener
  BY <1>1 DEF IInv, InvHandlers
<1>3. h \in Conns /\ f \in Fds
  BY <1>1, <1>2, ClientFacts
<1>4. CASE SendReturns(f) /\ Write(h) /\ LastChunk(h)
           /\ kq' = CloseConnection(kq, h) /\ knote' = CloseKnotes(f)
  <2>1. OthersKept /\ ClosesFd(f)
    BY <1>1, <1>4 DEF OthersKept, ClosesFd, Write
  <2>2. /\ InvRest' /\ kq' \in Dispatcher
        /\ kq'.changes = kq.changes /\ kq'.size = kq.size
    BY <1>1, <1>2, <1>4, <2>1, ClosePreserves
  <2>3. InvVectors'
    BY <1>1, <2>2, VectorsGrow
  <2>4. SocketsTypeOK' /\ HandlersTypeOK'
    BY <1>3, <1>4, WriteTypes DEF IInv
  <2>5. knote' \in [Idents -> [Filters -> Handlers \cup {None}]]
    BY <1>4 DEF IInv, TypeOK, CloseKnotes, NoKnotes
  <2>6. TypeOK'
    BY <1>1, <2>2, <2>4, <2>5 DEF IInv, TypeOK, Dispatcher
  <2> QED BY <2>2, <2>3, <2>6 DEF IInv, InvRest
<1>5. CASE \/ SendReturns(f) /\ Write(h) /\ ~LastChunk(h) /\ kq' = kq /\ knote' = knote
           \/ SendFails(f) /\ Fatal /\ kq' = kq /\ knote' = knote
           \/ ProcessThrows(h) /\ kq' = kq /\ knote' = knote
  <2>1. OthersKept /\ owner' = owner
    BY <1>1, <1>5 DEF OthersKept, Write, Fatal, ProcessThrows, sockVars
  <2>2. InvRest'
    BY <1>1, <1>5, <2>1, KeepPreserves
  <2>3. InvVectors'
    BY <1>1, <1>5, VectorsGrow
  <2>4. SocketsTypeOK' /\ HandlersTypeOK'
    <3>1. CASE SendReturns(f) /\ Write(h)
      BY <1>3, <3>1, WriteTypes DEF IInv
    <3>2. CASE Fatal \/ ProcessThrows(h)
      BY <3>2 DEF IInv, TypeOK, SocketsTypeOK, HandlersTypeOK, Fatal, ProcessThrows, sockVars
    <3> QED BY <1>5, <3>1, <3>2
  <2>5. TypeOK'
    BY <1>1, <1>5, <2>4 DEF IInv, TypeOK
  <2> QED BY <2>2, <2>3, <2>5 DEF IInv, InvRest
<1> QED
  BY <1>4, <1>5 DEF HandleWrite

\* handleRead takes no more segments than there are.
LEMMA ReadTypes ==
  ASSUME TypeOK, NEW h \in Conns, handle[h] \in Fds, ~NoPeer(handle[h]), NEW n, NEW v,
         \/ n \in Receivable(handle[h]) /\ Read(h, n, v)
         \/ ReadFails(h)
  PROVE  /\ SocketsTypeOK' /\ HandlersTypeOK'
         /\ handle' = handle /\ backlog' = backlog
         /\ \A c \in Conns : peer'[c] = "away" => peer[c] = "away"
<1> DEFINE x == owner[handle[h]]
<1>1. x \in Conns /\ peer[x] # "reset" /\ inbox[x] \in Nat
  BY EventHandlersAssumption DEF TypeOK, SocketsTypeOK, NoPeer, PeerNameFails
<1>2. CASE n \in Receivable(handle[h]) /\ Read(h, n, v)
  <2>1. n \in Nat /\ n <= inbox[x]
    BY <1>1, <1>2 DEF Receivable
  <2>2. inbox' \in [Conns -> Nat]
    BY <1>1, <1>2, <2>1 DEF TypeOK, SocketsTypeOK, Read
  <2>3. got' \in [Conns -> Nat]
    BY <1>2, <2>1 DEF TypeOK, HandlersTypeOK, Read
  <2>4. owner' \in [Fds -> Conns \cup {None}]
    BY <1>2 DEF TypeOK, SocketsTypeOK, Read
  <2>5. SocketsTypeOK' /\ HandlersTypeOK'
    BY <1>2, <2>2, <2>3, <2>4 DEF TypeOK, SocketsTypeOK, HandlersTypeOK, Read
  <2> QED BY <1>2, <2>5 DEF Read
<1>3. CASE ReadFails(h)
  <2>1. inbox' \in [Conns -> Nat] /\ peer' \in [Conns -> PeerStates]
        /\ owner' \in [Fds -> Conns \cup {None}]
    BY <1>1, <1>3 DEF TypeOK, SocketsTypeOK, ReadFails, PeerStates
  <2>2. SocketsTypeOK' /\ HandlersTypeOK'
    BY <1>3, <2>1 DEF TypeOK, SocketsTypeOK, HandlersTypeOK, ReadFails
  <2>3. \A c \in Conns : peer'[c] = "away" => peer[c] = "away"
    BY <1>3 DEF TypeOK, SocketsTypeOK, ReadFails
  <2> QED BY <1>3, <2>2, <2>3 DEF ReadFails
<1> QED
  BY <1>2, <1>3

\* A request that is complete: stop reading, start writing.
LEMMA ReplyAsks ==
  ASSUME NEW d \in Dispatcher, NEW h \in Handlers, NEW fd \in Idents,
         d.map[h] = {"READ", "CLOSE"}
  PROVE  LET r == RegisterHandler(RemoveHandler(d, h, fd, {"READ"}), h, fd,
                                  {"WRITE", "CLOSE"})
             add == [flags |-> "EV_ADD", ident |-> fd, filter |-> "EVFILT_WRITE",
                     udata |-> h]
             del == [flags |-> "EV_DELETE", ident |-> fd, filter |-> "EVFILT_READ",
                     udata |-> None]
         IN /\ r \in Dispatcher /\ add \in Change /\ del \in Change
            /\ r.map = [d.map EXCEPT ![h] = {"WRITE", "CLOSE"}]
            /\ r.changes = Append(Append(d.changes, del), add)
            /\ r.size = Grown(Len(d.changes) + 1, Grown(Len(d.changes), d.size))
<1> DEFINE add == [flags |-> "EV_ADD", ident |-> fd, filter |-> "EVFILT_WRITE",
                   udata |-> h]
           del == [flags |-> "EV_DELETE", ident |-> fd, filter |-> "EVFILT_READ",
                   udata |-> None]
           z == RemoveHandler(d, h, fd, {"READ"})
           r == RegisterHandler(z, h, fd, {"WRITE", "CLOSE"})
<1>1. /\ {"READ"} \in SUBSET ALL_EVENTS /\ {"READ"} # ALL_EVENTS
      /\ {"WRITE", "CLOSE"} \in SUBSET ALL_EVENTS /\ d.map[h] # {}
      /\ "EVFILT_READ" \in Filters /\ "EVFILT_WRITE" \in Filters
  BY DEF ALL_EVENTS, Filters
<1>2. /\ z \in Dispatcher /\ del \in Change
      /\ z.map = [d.map EXCEPT ![h] = @ \ {"READ"}]
      /\ z.changes = Append(d.changes, del)
      /\ z.size = Grown(Len(d.changes), d.size)
  BY <1>1, OneFilter, Removes
<1>z. z \in Dispatcher
  BY <1>2
<1> HIDE DEF z
<1>3. /\ r \in Dispatcher /\ add \in Change
      /\ r.map = [z.map EXCEPT ![h] = @ \cup {"WRITE", "CLOSE"}]
      /\ r.changes = Append(z.changes, add)
      /\ r.size = Grown(Len(z.changes), z.size)
  BY <1>1, <1>z, OneFilter, Registers
<1>4. Len(z.changes) = Len(d.changes) + 1
  BY <1>2 DEF Dispatcher
<1>5. r.map = [d.map EXCEPT ![h] = {"WRITE", "CLOSE"}]
  <2>1. z.map[h] = {"CLOSE"}
    BY <1>2 DEF Dispatcher
  <2>2. {"CLOSE"} \cup {"WRITE", "CLOSE"} = {"WRITE", "CLOSE"}
    OBVIOUS
  <2>3. r.map = [z.map EXCEPT ![h] = {"WRITE", "CLOSE"}]
    BY <1>3, <2>1, <2>2
  <2> QED BY <1>2, <2>3 DEF Dispatcher
<1> QED
  BY <1>2, <1>3, <1>4, <1>5 DEF z

\* The same after closeConnection: there is nothing to stop, and the handler
\* is back in the map.
LEMMA ReviveAsks ==
  ASSUME NEW d \in Dispatcher, NEW h \in Handlers, NEW fd \in Idents
  PROVE  LET y == RemoveHandler(d, h, fd, ALL_EVENTS)
             r == RegisterHandler(RemoveHandler(y, h, fd, {"READ"}), h, fd,
                                  {"WRITE", "CLOSE"})
             add == [flags |-> "EV_ADD", ident |-> fd, filter |-> "EVFILT_WRITE",
                     udata |-> h]
         IN /\ r \in Dispatcher /\ add \in Change
            /\ r.map = [d.map EXCEPT ![h] = {"WRITE", "CLOSE"}]
            /\ r.changes = Append(d.changes, add)
            /\ r.size = Grown(Len(d.changes), d.size)
<1> DEFINE y == RemoveHandler(d, h, fd, ALL_EVENTS)
           z == RemoveHandler(y, h, fd, {"READ"})
           r == RegisterHandler(z, h, fd, {"WRITE", "CLOSE"})
           add == [flags |-> "EV_ADD", ident |-> fd, filter |-> "EVFILT_WRITE",
                   udata |-> h]
<1>1. y = [d EXCEPT !.map[h] = {}]
  BY RemovesAll
<1>2. /\ y \in Dispatcher /\ y.changes = d.changes /\ y.size = d.size
      /\ y.map = [d.map EXCEPT ![h] = {}]
  BY <1>1 DEF Dispatcher
<1> HIDE DEF y
<1>3. z = y
  BY <1>2 DEF RemoveHandler, Dispatcher
<1>4. {"WRITE", "CLOSE"} \in SUBSET ALL_EVENTS /\ "EVFILT_WRITE" \in Filters
  BY DEF ALL_EVENTS, Filters
<1>5. /\ r \in Dispatcher /\ add \in Change
      /\ r.map = [y.map EXCEPT ![h] = @ \cup {"WRITE", "CLOSE"}]
      /\ r.changes = Append(y.changes, add)
      /\ r.size = Grown(Len(y.changes), y.size)
  BY <1>2, <1>3, <1>4, OneFilter, Registers
<1>6. r.map = [d.map EXCEPT ![h] = {"WRITE", "CLOSE"}]
  BY <1>2, <1>5 DEF Dispatcher
<1> QED
  BY <1>2, <1>5, <1>6 DEF y

\* What recv() may return, and what handleRead may make of it.
LEMMA ReceivesNat ==
  ASSUME TypeOK, NEW f \in Fds, ~NoPeer(f), NEW n \in Receivable(f)
  PROVE  n \in Nat
<1>1. owner[f] \in Conns /\ inbox[owner[f]] \in Nat
  BY EventHandlersAssumption DEF TypeOK, SocketsTypeOK, NoPeer, PeerNameFails
<1> QED
  BY <1>1 DEF Receivable

LEMMA VerdictsAre ==
  ASSUME TypeOK, NEW h \in Conns, NEW n \in Nat
  PROVE  ReadVerdicts(h, n) \subseteq Verdicts
<1> DEFINE r == request[h]
           now == got[h] + n
           whole == now >= Total(h)
           byKind == CASE r.kind \in Answerable -> {IF whole THEN "reply" ELSE "more"}
                       [] r.kind = "nopath" -> {IF whole THEN "revive" ELSE "close"}
                       [] r.kind = "malformed" -> {"close"}
                       [] r.kind = "badlength" -> {"abort"}
                       [] r.kind = "toolong" -> {"close", "revive", "abort"}
<1>1. /\ r.kind \in Kinds /\ r.head \in Nat /\ now \in Nat
  BY SocketsAssumption DEF TypeOK, SocketsTypeOK, HandlersTypeOK
<1>2. byKind \subseteq Verdicts
  <2> HIDE DEF whole
  <2> QED BY <1>1 DEF Kinds, Answerable, Verdicts
<1> HIDE DEF byKind
<1>3. ReadVerdicts(h, n) =
        CASE n = 0                              -> {"close"}
          [] n > 0 /\ ~Intact(h)                -> Verdicts
          [] n > 0 /\ Intact(h) /\ now < r.head -> {"more"}
          [] n > 0 /\ Intact(h) /\ now >= r.head -> byKind
  BY DEF ReadVerdicts, byKind
<1>4. n = 0 \/ n > 0
  OBVIOUS
<1>5. now < r.head \/ now >= r.head
  BY <1>1
<1> HIDE DEF now, r
<1> QED
  BY <1>2, <1>3, <1>4, <1>5 DEF Verdicts

LEMMA HandleReadStep == IInv /\ HandleRead => IInv'
<1> SUFFICES ASSUME IInv, HandleRead PROVE IInv'
  OBVIOUS
<1>1. PICK h, f : h = current.udata /\ f = handle[h]
  OBVIOUS
<1>2. /\ current # None /\ current' = None /\ Dispatched /\ batch' = batch
      /\ dispatched' = dispatched /\ moved' \in BOOLEAN
      /\ "READ" \in kq.map[h] /\ ~NoPeer(current.ident)
  BY <1>1 DEF HandleRead, Dispatched, ToRead, Interest, IInv, TypeOK
<1>3. h # Listener
  BY <1>1, <1>2 DEF IInv, InvHandlers
<1>4. /\ h \in Conns /\ h \in Handlers /\ f \in Fds /\ f \in Idents /\ f = current.ident
      /\ kq.map[h] = {"READ", "CLOSE"} /\ kq \in Dispatcher
  BY <1>1, <1>2, <1>3, CurrentFacts, ClientFacts DEF Idents, Handlers, IInv, TypeOK, Dispatcher
<1>5. PICK n, v :
        \/ /\ n \in Receivable(f) /\ v \in ReadVerdicts(h, n) /\ Read(h, n, v)
           /\ kq' = AfterRead(kq, h, v)
           /\ knote' = IF v \in {"close", "revive"} THEN CloseKnotes(f) ELSE knote
        \/ /\ v = "close" /\ ReadFails(h)
           /\ kq' = CloseConnection(kq, h) /\ knote' = CloseKnotes(f)
  BY <1>1 DEF HandleRead
<1>6. /\ SocketsTypeOK' /\ HandlersTypeOK' /\ OthersKept
  BY <1>1, <1>2, <1>4, <1>5, ReadTypes DEF IInv, OthersKept
<1>7. v \in Verdicts
  <2>1. CASE n \in Receivable(f) /\ v \in ReadVerdicts(h, n)
    <3>1. n \in Nat
      BY <1>1, <1>2, <1>4, <2>1, ReceivesNat DEF IInv
    <3> QED BY <1>4, <2>1, <3>1, VerdictsAre DEF IInv
  <2>2. CASE v = "close"
    BY <2>2 DEF Verdicts
  <2> QED BY <1>5, <2>1, <2>2
<1>8. /\ v \in {"close", "revive"} => ClosesFd(f)
      /\ v \notin {"close", "revive"} => owner' = owner /\ knote' = knote
  BY <1>1, <1>5 DEF Read, ReadFails, ClosesFd
<1>9. knote' \in [Idents -> [Filters -> Handlers \cup {None}]]
  BY <1>5 DEF IInv, TypeOK, CloseKnotes, NoKnotes
<1> DEFINE Goal == InvRest' /\ InvVectors' /\ kq' \in Dispatcher
<1>10. ASSUME v \in {"more", "abort"} PROVE Goal
  <2>1. kq' = kq
    BY <1>5, <1>10 DEF AfterRead
  <2>2. InvRest'
    BY <1>2, <1>6, <1>8, <1>10, <2>1, KeepPreserves
  <2> QED BY <1>2, <1>4, <2>1, <2>2, VectorsGrow
<1>11. ASSUME v = "close" PROVE Goal
  <2>1. kq' = CloseConnection(kq, h)
    BY <1>5, <1>11 DEF AfterRead
  <2>2. InvRest' /\ kq' \in Dispatcher /\ kq'.changes = kq.changes /\ kq'.size = kq.size
    BY <1>1, <1>2, <1>3, <1>6, <1>8, <1>11, <2>1, ClosePreserves
  <2> QED BY <1>2, <2>2, VectorsGrow
<1> DEFINE add == [flags |-> "EV_ADD", ident |-> f, filter |-> "EVFILT_WRITE", udata |-> h]
           del == [flags |-> "EV_DELETE", ident |-> f, filter |-> "EVFILT_READ",
                   udata |-> None]
<1>12. ASSUME v = "reply" PROVE Goal
  <2>1. kq' = RegisterHandler(RemoveHandler(kq, h, f, {"READ"}), h, f, {"WRITE", "CLOSE"})
    BY <1>1, <1>5, <1>12 DEF AfterRead
  <2>2. /\ kq' \in Dispatcher /\ add \in Change /\ del \in Change
        /\ kq'.map = [kq.map EXCEPT ![h] = {"WRITE", "CLOSE"}]
        /\ kq'.changes = Append(Append(kq.changes, del), add)
        /\ kq'.size = Grown(Len(kq.changes) + 1, Grown(Len(kq.changes), kq.size))
    BY <1>4, <2>1, ReplyAsks, SMTT(30)
  <2>3. InvRest'
    BY <1>1, <1>2, <1>3, <1>6, <1>8, <1>12, <2>2, ReplyPreserves
  <2>4. Len(kq'.changes) = Len(kq.changes) + 2
    BY <1>4, <2>2 DEF Dispatcher
  <2> QED BY <1>2, <2>2, <2>3, <2>4, VectorsGrow
<1>13. ASSUME v = "revive" PROVE Goal
  <2>1. kq' = RegisterHandler(RemoveHandler(RemoveHandler(kq, h, f, ALL_EVENTS), h, f, {"READ"}),
                              h, f, {"WRITE", "CLOSE"})
    BY <1>1, <1>5, <1>13 DEF AfterRead, CloseConnection
  <2>2. /\ kq' \in Dispatcher /\ add \in Change
        /\ kq'.map = [kq.map EXCEPT ![h] = {"WRITE", "CLOSE"}]
        /\ kq'.changes = Append(kq.changes, add)
        /\ kq'.size = Grown(Len(kq.changes), kq.size)
    BY <1>4, <2>1, ReviveAsks
  <2>3. del \in Change
    BY <1>4 DEF Change, Filters
  <2>4. InvRest'
    BY <1>1, <1>2, <1>3, <1>6, <1>8, <1>13, <2>2, <2>3, ReplyPreserves
  <2>5. Len(kq'.changes) = Len(kq.changes) + 1
    BY <1>4, <2>2 DEF Dispatcher
  <2> QED BY <1>2, <2>2, <2>4, <2>5, VectorsGrow
<1>14. Goal
  BY <1>7, <1>10, <1>11, <1>12, <1>13 DEF Verdicts
<1>15. TypeOK'
  BY <1>2, <1>6, <1>9, <1>14 DEF IInv, TypeOK, Dispatcher
<1> QED
  BY <1>14, <1>15 DEF IInv, InvRest

\* A new handler comes with a descriptor nobody mentions any more.
LEMMA AcceptPreserves ==
  ASSUME IInv, current # None, current' = None, batch' = batch, knote' = knote,
         NEW c \in backlog, NEW f \in Fds, owner[f] = None, Accept(c, f),
         kq' = RegisterHandler(kq, c, f, {"READ", "CLOSE"})
  PROVE  /\ InvRest' /\ kq' \in Dispatcher
         /\ Len(kq'.changes) = Len(kq.changes) + 1
         /\ kq'.size = Grown(Len(kq.changes), kq.size)
<1> DEFINE add == [flags |-> "EV_ADD", ident |-> f, filter |-> "EVFILT_READ", udata |-> c]
           n == Len(kq.changes)
<1>1. /\ c \in Conns /\ c \in Handlers /\ c # Listener /\ f \in Fds /\ f \in Idents
      /\ handle[c] = None /\ kq.map[c] = {} /\ kq \in Dispatcher /\ owner[f] = None
  BY EventHandlersAssumption DEF IInv, TypeOK, SocketsTypeOK, InvHandlers, Handlers,
     Idents, Dispatcher
<1>2. /\ {"READ", "CLOSE"} \in SUBSET ALL_EVENTS /\ "EVFILT_READ" \in Filters
  BY DEF ALL_EVENTS, Filters
<1>3. /\ kq' \in Dispatcher /\ add \in Change
      /\ kq'.map = [kq.map EXCEPT ![c] = @ \cup {"READ", "CLOSE"}]
      /\ kq'.changes = Append(kq.changes, add)
      /\ kq'.size = Grown(Len(kq.changes), kq.size)
  BY <1>1, <1>2, OneFilter, Registers
<1>4. /\ \A x \in Handlers : x # c => kq'.map[x] = kq.map[x] /\ handle'[x] = handle[x]
      /\ kq'.map[c] = {"READ", "CLOSE"} /\ handle'[c] = f
  BY <1>1, <1>3 DEF Accept, Dispatcher, IInv, TypeOK, HandlersTypeOK
<1>5. /\ n \in Nat /\ Len(kq'.changes) = n + 1 /\ kq'.changes[n + 1] = add
      /\ \A k \in 1 .. n : k \in 1 .. n + 1 /\ kq'.changes[k] = kq.changes[k]
      /\ \A k \in 1 .. n + 1 : k \in 1 .. n \/ k = n + 1
  <2>1. kq.changes \in Seq(Change) /\ n \in Nat
    BY <1>1 DEF Dispatcher
  <2> HIDE DEF add
  <2>2. /\ Len(kq'.changes) = n + 1 /\ kq'.changes[n + 1] = add
        /\ \A k \in 1 .. n : kq'.changes[k] = kq.changes[k]
    BY <1>3, <2>1
  <2> QED BY <2>1, <2>2
<1>6. /\ InFlight' = batch /\ InFlight' \subseteq InFlight
      /\ \A e \in batch : e \in Kevent /\ e.udata \in Handlers /\ e.udata # c
  BY <1>1 DEF InFlight, IInv, TypeOK, Kevent, InvEvents, Registered
<1>7. InvHandlers'
  <2>1. /\ handle'[Listener] = Listener /\ kq'.map[Listener] = {"ACCEPT", "CLOSE"}
    BY <1>1, <1>4 DEF IInv, InvHandlers, Handlers
  <2> SUFFICES ASSUME NEW x \in Conns
               PROVE  /\ handle'[x] \in Fds \cup {None}
                      /\ kq'.map[x] \in {{}, {"READ", "CLOSE"}, {"WRITE", "CLOSE"}}
                      /\ handle'[x] = None => kq'.map[x] = {}
                      /\ peer'[x] = "away" \/ x \in backlog' => handle'[x] = None
                      /\ x \in backlog' => peer'[x] # "away"
    BY <2>1 DEF InvHandlers
  <2>2. peer' = peer /\ backlog' = backlog \ {c} /\ peer[c] # "away"
    BY DEF Accept, IInv, InvHandlers, TypeOK, SocketsTypeOK
  <2>3. CASE x = c
    BY <1>1, <1>4, <2>2, <2>3, SocketsAssumption
  <2>4. CASE x # c
    BY <1>4, <2>2, <2>4 DEF IInv, InvHandlers, Handlers
  <2> QED BY <2>3, <2>4
<1>8. InvEvents'
  BY <1>4, <1>6 DEF IInv, InvEvents, Registered
<1>9. InvChanges'
  <2> SUFFICES ASSUME NEW k \in 1 .. n + 1, NEW x, x = kq'.changes[k], x.flags = "EV_ADD"
               PROVE  /\ x.udata \in Handlers /\ Registered(x.udata)'
                      /\ handle'[x.udata] = x.ident /\ Wants(x.udata, x.filter)'
                      /\ \A e \in InFlight' : e.udata # x.udata
    BY <1>5 DEF InvChanges
  <2>1. CASE x = add
    <3>1. x.udata = c /\ x.ident = f /\ x.filter = "EVFILT_READ"
      BY <2>1
    <3>2. \A e \in InFlight' : e.udata # c
      BY <1>6
    <3> QED BY <1>1, <1>4, <3>1, <3>2 DEF Registered, Wants
  <2>2. CASE k \in 1 .. n /\ x = kq.changes[k]
    <3>1. /\ x.udata \in Handlers /\ Registered(x.udata) /\ handle[x.udata] = x.ident
          /\ Wants(x.udata, x.filter) /\ \A e \in InFlight : e.udata # x.udata
      BY <2>2 DEF IInv, InvChanges
    <3>2. x.udata # c
      BY <1>1, <3>1 DEF Registered
    <3> QED BY <1>4, <1>6, <3>1, <3>2 DEF Registered, Wants
  <2> QED BY <1>5, <2>1, <2>2
<1>10. InvKnotes'
  <2> SUFFICES ASSUME NEW i \in Idents, NEW flt \in Filters,
                      NEW u, u = knote[i][flt], u # None
               PROVE  /\ Registered(u)' /\ handle'[u] = i
                      /\ Wants(u, flt)' \/ HasChange(i, flt)'
    BY DEF InvKnotes
  <2>1. HasChange(i, flt) => HasChange(i, flt)'
    BY <1>5 DEF HasChange
  <2>2. /\ u \in Handlers /\ handle[u] = i /\ Registered(u)
        /\ Wants(u, flt) \/ HasChange(i, flt)
    BY DEF IInv, TypeOK, InvKnotes
  <2>3. u # c
    BY <1>1, <2>2 DEF Registered
  <2> QED BY <1>4, <2>1, <2>2, <2>3 DEF Registered, Wants
<1>11. InvClosed'
  BY <1>1 DEF IInv, TypeOK, SocketsTypeOK, InvClosed, Accept
<1> QED
  BY <1>3, <1>5, <1>7, <1>8, <1>9, <1>10, <1>11 DEF InvRest

LEMMA HandleAcceptStep == IInv /\ HandleAccept => IInv'
<1> SUFFICES ASSUME IInv, HandleAccept PROVE IInv'
  OBVIOUS
<1>1. /\ current # None /\ current' = None /\ Dispatched /\ batch' = batch
      /\ dispatched' = dispatched /\ moved' \in BOOLEAN /\ knote' = knote
  BY DEF HandleAccept, Dispatched, IInv, TypeOK
<1>2. CASE \E c \in backlog, f \in FreeFds :
             Accept(c, f) /\ kq' = RegisterHandler(kq, c, f, {"READ", "CLOSE"})
  <2>1. PICK c \in backlog, f \in FreeFds :
          Accept(c, f) /\ kq' = RegisterHandler(kq, c, f, {"READ", "CLOSE"})
    BY <1>2
  <2>2. /\ InvRest' /\ kq' \in Dispatcher
        /\ Len(kq'.changes) = Len(kq.changes) + 1
        /\ kq'.size = Grown(Len(kq.changes), kq.size)
    <3>1. f \in Fds /\ owner[f] = None
      BY DEF FreeFds
    <3> QED BY <1>1, <2>1, <3>1, AcceptPreserves
  <2>3. InvVectors'
    BY <1>1, <2>2, VectorsGrow
  <2>4. SocketsTypeOK' /\ HandlersTypeOK'
    <3>1. c \in Conns /\ f \in Fds
      BY DEF IInv, TypeOK, SocketsTypeOK, FreeFds
    <3> QED BY <2>1, <3>1 DEF IInv, TypeOK, SocketsTypeOK, HandlersTypeOK, Accept
  <2>5. TypeOK'
    BY <1>1, <2>2, <2>4 DEF IInv, TypeOK, Dispatcher
  <2> QED BY <2>2, <2>3, <2>5 DEF IInv, InvRest
<1>3. CASE Fatal /\ kq' = kq
  <2>1. OthersKept /\ owner' = owner
    BY <1>1, <1>3 DEF OthersKept, Fatal, sockVars
  <2>2. InvRest'
    BY <1>1, <1>3, <2>1, KeepPreserves
  <2>3. InvVectors'
    BY <1>1, <1>3, VectorsGrow
  <2>4. SocketsTypeOK' /\ HandlersTypeOK'
    BY <1>3 DEF IInv, TypeOK, SocketsTypeOK, HandlersTypeOK, Fatal, sockVars
  <2>5. TypeOK'
    BY <1>1, <1>3, <2>4 DEF IInv, TypeOK
  <2> QED BY <2>2, <2>3, <2>5 DEF IInv, InvRest
<1> QED
  BY <1>2, <1>3 DEF HandleAccept

LEMMA StutterStep == IInv /\ UNCHANGED vars => IInv'
<1> SUFFICES ASSUME IInv, UNCHANGED vars PROVE IInv'
  OBVIOUS
<1>1. TypeOK'
  BY DEF vars, sockVars, handlerVars, reactorVars, IInv, TypeOK, SocketsTypeOK, HandlersTypeOK
<1>2. InvRest' /\ InvVectors'
  BY DEF vars, sockVars, handlerVars, reactorVars, IInv, InvRest, InvHandlers, InvEvents,
         InvChanges, InvKnotes, InvClosed, InvVectors, InFlight, HasChange, Registered, Wants
<1> QED
  BY <1>1, <1>2 DEF IInv, InvRest

LEMMA IInvNext == IInv /\ [Next]_vars => IInv'
<1> SUFFICES ASSUME IInv, [Next]_vars PROVE IInv'
  OBVIOUS
<1>1. CASE Submit \/ Collect \/ Advance
  BY <1>1, SubmitStep, CollectStep, AdvanceStep
<1>2. CASE LoseRest \/ WalkFreed
  BY <1>2, LoseRestStep, WalkFreedStep
<1>3. CASE HandleAccept \/ HandleRead \/ HandleWrite
  BY <1>3, HandleAcceptStep, HandleReadStep, HandleWriteStep
<1>4. CASE HandleClose \/ NothingToDo
  BY <1>4, HandleCloseStep, NothingToDoStep
<1>5. CASE Outside
  BY <1>5, OutsideStep
<1>6. CASE UNCHANGED vars
  BY <1>6, StutterStep
<1> QED
  BY <1>1, <1>2, <1>3, <1>4, <1>5, <1>6 DEF Next, ServerStep, Callback

----------------------------------------------------------------------------
(* The theorems.                                                           *)

\* The inductive invariant holds of every state of every execution of the
\* reactor: the loop of CusterServer::run over KQueueDispatcher::handleEvents.
THEOREM Invariance == Spec => []IInv
BY IInvNext, InitIInv, PTL DEF Spec

\* Every variable keeps its type: in particular no more segments are read than
\* were received, and every event carries the pointer of a handler.
THEOREM TypeCorrect == Spec => []TypeOK
<1>1. IInv => TypeOK
  BY DEF IInv
<1> QED
  BY <1>1, Invariance, PTL

\* The pointer handleEvents takes out of an event is that of a handler that is
\* registered, and for the descriptor of the event, whatever was closed,
\* accepted and registered since kevent() returned (KQueueDispatcher.cpp:213-224).
THEOREM PointersAlive == Spec => []UdataAlive
<1>1. IInv => UdataAlive
  BY DEF IInv, InvEvents, InvKnotes, InFlight, UdataAlive
<1> QED
  BY <1>1, Invariance, PTL

\* The changes always fit in m_keventChanges (modifyKevents does not check).
THEOREM VectorsFit == Spec => []ChangesFit
<1>1. IInv => ChangesFit
  BY DEF IInv, InvVectors, ChangesFit
<1> QED
  BY <1>1, Invariance, PTL

\* The list being walked does not move before half as many events as the first
\* capacity were dispatched (resizeKeventsVectors during handleEvents' loop).
THEOREM MovesLate == Spec => []ListMovesLate
<1>1. IInv => ListMovesLate
  BY DEF IInv, InvVectors, ListMovesLate
<1> QED
  BY <1>1, Invariance, PTL

----------------------------------------------------------------------------
(***************************************************************************)
(* What KQueueReactor promises its clients and its descriptors, on top of  *)
(* the invariant above, which is about the pointers of the events, and of  *)
(* that of the handlers (EventHandlersProofs).                             *)
(*                                                                         *)
(* The argument.  The map, the kernel and the pending changes agree on who *)
(* waits for what, between any two callbacks.  A descriptor is closed only *)
(* by the handler it belongs to, in a callback, and a handler with a       *)
(* registration pending has no event in the list: so no pending change is  *)
(* about a descriptor that was closed, and an event of the list is still   *)
(* wanted when its turn comes.                                             *)
(***************************************************************************)

\* An event of the list is one its handler waits for.  The end of stream it
\* reports is that of the connection the handler has, and the listener's says
\* that a connection waits or that one was aborted while it did.
InvReported ==
  \A e \in InFlight :
    /\ Wants(e.udata, e.filter)
    /\ e.eof /\ Holds(e.udata) => peer[e.udata] \in {"fin", "reset"}
    /\ e.udata = Listener =>
         backlog # {} \/ \E c \in Conns : peer[c] = "reset" /\ handle[c] = None

\* What a handler waits for, the kernel reports once it has the changes.
InvSync ==
  \A h \in Handlers, flt \in Filters : Wants(h, flt) => Applied(handle[h], flt) = h

\* A pending change that takes a filter away finds it, in the kernel or added
\* by an earlier change.  A registration for the same descriptor is pending
\* with it, so that the descriptor is not closed in between.
InvPending ==
  \A k \in 1 .. Len(kq.changes) :
    LET c == kq.changes[k] IN
    c.flags = "EV_DELETE" =>
      /\ \E j \in 1 .. Len(kq.changes) :
           kq.changes[j].flags = "EV_ADD" /\ kq.changes[j].ident = c.ident
      /\ \/ knote[c.ident][c.filter] # None
         \/ \E j \in 1 .. k - 1 :
              /\ kq.changes[j].flags = "EV_ADD"
              /\ kq.changes[j].ident = c.ident
              /\ kq.changes[j].filter = c.filter

\* A list has one event at most for each filter of each descriptor, and unless
\* a handler was revived one for each descriptor.
BatchWithin(n) == IsFiniteSet(batch) /\ dispatched + Cardinality(batch) <= n

InvBatch == BatchWithin(Cardinality(Idents))
InvBatchAny == BatchWithin(2 * Cardinality(Idents))

KInv ==
  /\ IInv /\ HInv(kq.map) /\ InvReported /\ InvBatchAny
  /\ Clean => InvSync /\ InvPending /\ InvBatch

----------------------------------------------------------------------------
(* Each step of the reactor is a step of the handlers, but for the one that *)
(* walks through memory that is no longer the list.                        *)

\* What the parts of the invariant say of the variables that the proofs read.
LEMMA KInvFacts ==
  ASSUME KInv
  PROVE  /\ IInv /\ InvBase(kq.map) /\ kq \in Dispatcher
         /\ Listener \in Handlers /\ Conns \subseteq Handlers /\ Listener \notin Conns
         /\ handle[Listener] = Listener /\ kq.map[Listener] = Listening
         /\ kq.map \in [Handlers -> SUBSET ALL_EVENTS]
         /\ \A c \in Conns : /\ kq.map[c] \in {{}, Reading, Writing}
                             /\ kq.map[c] # {} => handle[c] \in Fds
<1>1. IInv /\ InvBase(kq.map)
  BY DEF KInv, HInv
<1> QED
  BY <1>1, EventHandlersAssumption DEF InvBase, Handlers, IInv, TypeOK, Dispatcher

\* The handler of the event under dispatch, when it is a connection's.
LEMMA ClientsTurn ==
  ASSUME KInv, current # None, NEW h, h = current.udata, h # Listener
  PROVE  /\ h \in Conns /\ h \in Handlers /\ handle[h] \in Fds /\ handle[h] = current.ident
         /\ kq.map[h] \in {Reading, Writing}
         /\ "READ" \in kq.map[h] => kq.map[h] = Reading
         /\ "WRITE" \in kq.map[h] => kq.map[h] = Writing
         /\ Wants(h, current.filter)
         /\ current.eof /\ Holds(h) => peer[h] \in {"fin", "reset"}
<1>1. IInv
  BY DEF KInv
<1>2. /\ h \in Conns /\ handle[h] \in Fds /\ handle[h] = current.ident
      /\ kq.map[h] \in {Reading, Writing}
  BY <1>1, ClientFacts, CurrentFacts DEF Reading, Writing
<1>3. current \in InFlight
  BY DEF InFlight
<1> QED
  BY <1>2, <1>3 DEF KInv, InvReported, Handlers, Reading, Writing

\* The changes by which a handler stops reading and starts writing.
StopsReading(f) ==
  [flags |-> "EV_DELETE", ident |-> f, filter |-> "EVFILT_READ", udata |-> None]

StartsWriting(f, h) ==
  [flags |-> "EV_ADD", ident |-> f, filter |-> "EVFILT_WRITE", udata |-> h]

Reply(changes, f, h) == Append(Append(changes, StopsReading(f)), StartsWriting(f, h))

\* closeConnection takes the handler out of the map, and asks for no change.
LEMMA CloseIs ==
  ASSUME KInv, NEW h \in Conns, NEW d, d = CloseConnection(kq, h)
  PROVE  d.map = [kq.map EXCEPT ![h] = {}] /\ d.changes = kq.changes
<1>1. h \in Handlers /\ kq \in Dispatcher
  BY KInvFacts
<1>2. d = [kq EXCEPT !.map[h] = {}]
  BY <1>1, RemovesAll DEF CloseConnection
<1> QED
  BY <1>1, <1>2 DEF Dispatcher

\* What handleRead leaves of the dispatcher, per verdict.
LEMMA AfterReadIs ==
  ASSUME KInv, NEW h \in Conns, kq.map[h] = Reading, NEW v \in Verdicts,
         NEW d, d = AfterRead(kq, h, v)
  PROVE  /\ d.map = [kq.map EXCEPT ![h] = WaitsAfter(v)]
         /\ v = "reply" => d.changes = Reply(kq.changes, handle[h], h)
<1> DEFINE f == handle[h]
<1>1. /\ h \in Handlers /\ f \in Fds /\ f \in Idents /\ kq \in Dispatcher
      /\ kq.map \in [Handlers -> SUBSET ALL_EVENTS]
  BY KInvFacts, Interests DEF Idents
<1>2. CASE v \in {"more", "abort"}
  <2>1. d = kq /\ WaitsAfter(v) = Reading
    BY <1>2 DEF AfterRead, WaitsAfter
  <2> QED BY <1>1, <1>2, <2>1
<1>3. CASE v = "close"
  <2>1. WaitsAfter(v) = {}
    BY <1>3 DEF WaitsAfter
  <2>2. d = CloseConnection(kq, h)
    BY <1>3 DEF AfterRead
  <2> QED BY <1>3, <2>1, <2>2, CloseIs
<1>4. CASE v = "reply"
  <2>1. WaitsAfter(v) = {"WRITE", "CLOSE"}
    BY <1>4 DEF WaitsAfter, Writing
  <2>2. d = RegisterHandler(RemoveHandler(kq, h, f, {"READ"}), h, f, {"WRITE", "CLOSE"})
    BY <1>4 DEF AfterRead
  <2>3. kq.map[h] = {"READ", "CLOSE"}
    BY DEF Reading
  <2>4. /\ d.map = [kq.map EXCEPT ![h] = {"WRITE", "CLOSE"}]
        /\ d.changes = Reply(kq.changes, f, h)
    BY <1>1, <2>2, <2>3, ReplyAsks DEF Reply, StopsReading, StartsWriting
  <2>5. d.map = [kq.map EXCEPT ![h] = WaitsAfter(v)]
    BY <2>1, <2>4
  <2> QED BY <2>4, <2>5
<1>5. CASE v = "revive"
  <2>1. WaitsAfter(v) = {"WRITE", "CLOSE"}
    BY <1>5 DEF WaitsAfter, Writing
  <2>2. d = RegisterHandler(RemoveHandler(RemoveHandler(kq, h, f, ALL_EVENTS), h, f, {"READ"}),
                            h, f, {"WRITE", "CLOSE"})
    BY <1>5 DEF AfterRead, CloseConnection
  <2>3. h \in Handlers /\ f \in Idents /\ kq \in Dispatcher
    BY <1>1
  <2>4. d.map = [kq.map EXCEPT ![h] = {"WRITE", "CLOSE"}]
    BY ONLY <2>2, <2>3, ReviveAsks, Zenon
  <2>5. v # "reply"
    BY <1>5
  <2> QED BY <2>1, <2>4, <2>5
<1> QED
  BY <1>2, <1>3, <1>4, <1>5 DEF Verdicts

\* What a callback leaves of the dispatcher and the kernel: nothing new, or a
\* client's handler that is gone with its descriptor, or one that stops reading
\* and starts writing, or one that starts to write on the descriptor it closed.
LeavesAll == kq' = kq /\ owner' = owner /\ knote' = knote

LeavesClosed(h) ==
  /\ kq'.map = [kq.map EXCEPT ![h] = {}] /\ kq'.changes = kq.changes
  /\ ClosesFd(handle[h])

LeavesWriting(h) ==
  /\ kq'.map = [kq.map EXCEPT ![h] = Writing]
  /\ kq'.changes = Reply(kq.changes, handle[h], h)
  /\ owner' = owner /\ knote' = knote

LeavesRevived(h) ==
  /\ Clean => ~Clean'
  /\ kq'.map = [kq.map EXCEPT ![h] = Writing]
  /\ ClosesFd(handle[h])

\* What every callback of a client does besides: it is done with its event, and
\* a stream that ended stays ended.
ClientsCallback ==
  /\ OthersKept
  /\ \A c \in Conns : /\ peer[c] = "reset" => peer'[c] = "reset"
                      /\ peer[c] \in {"fin", "reset"} => peer'[c] \in {"fin", "reset"}
  /\ dispatched' = dispatched

CallbackDone ==
  /\ current # None /\ HandlersStep(kq.map, kq'.map) /\ ClientsCallback
  /\ \/ LeavesAll
     \/ /\ current.udata \in Conns
        /\ \/ LeavesClosed(current.udata)
           \/ kq.map[current.udata] = Reading /\ LeavesWriting(current.udata)
           \/ LeavesRevived(current.udata)

LEMMA HandleReadDoes ==
  ASSUME KInv, HandleRead
  PROVE  CallbackDone
<1>1. PICK h : h = current.udata
  OBVIOUS
<1>2. PICK f : f = handle[h]
  OBVIOUS
<1>3. /\ current # None /\ Dispatched /\ "READ" \in kq.map[h] /\ ~NoPeer(current.ident)
  BY <1>1 DEF HandleRead, ToRead, Interest
<1>4. h # Listener
  BY <1>1, <1>3, KInvFacts, Interests
<1>5. h \in Conns /\ f \in Fds /\ f = current.ident /\ kq.map[h] = Reading
  BY <1>1, <1>2, <1>3, <1>4, ClientsTurn
<1>6. owner[f] # None
  BY <1>3, <1>5, EventHandlersAssumption DEF NoPeer, PeerNameFails
<1>7. SocketsTypeOK /\ HandlersTypeOK /\ current' = None /\ batch' = batch
      /\ dispatched' = dispatched
  BY <1>3, KInvFacts DEF InvBase, Dispatched
<1>8. CASE \E n \in Receivable(f) : \E v \in ReadVerdicts(h, n) :
             /\ Read(h, n, v) /\ kq' = AfterRead(kq, h, v)
             /\ knote' = IF v \in {"close", "revive"} THEN CloseKnotes(f) ELSE knote
  <2>1. PICK n \in Receivable(f) : \E v \in ReadVerdicts(h, n) :
             /\ Read(h, n, v) /\ kq' = AfterRead(kq, h, v)
             /\ knote' = IF v \in {"close", "revive"} THEN CloseKnotes(f) ELSE knote
    BY <1>8
  <2>2. PICK v \in ReadVerdicts(h, n) :
             /\ Read(h, n, v) /\ kq' = AfterRead(kq, h, v)
             /\ knote' = IF v \in {"close", "revive"} THEN CloseKnotes(f) ELSE knote
    BY <2>1
  <2>3. n \in Nat
    BY <1>5, <1>6, <1>7, Receives
  <2>4. v \in Verdicts
    BY <1>5, <1>7, <2>3, VerdictFacts
  <2>5. /\ kq'.map = [kq.map EXCEPT ![h] = WaitsAfter(v)]
        /\ v = "reply" => kq'.changes = Reply(kq.changes, f, h)
    <3>1. PICK d : d = AfterRead(kq, h, v)
      OBVIOUS
    <3>2. d.map = [kq.map EXCEPT ![h] = WaitsAfter(v)]
      BY <1>5, <2>4, <3>1, AfterReadIs
    <3>3. v = "reply" => d.changes = Reply(kq.changes, handle[h], h)
      BY <1>5, <2>4, <3>1, AfterReadIs
    <3> QED BY <1>2, <2>2, <3>1, <3>2, <3>3
  <2>6. HandlersStep(kq.map, kq'.map)
    BY <1>2, <1>5, <1>6, <2>2, <2>5 DEF HandlersStep, DoesRead
  <2>7. ClientsCallback
    BY <1>7, <2>2 DEF Read, ClientsCallback, OthersKept
  <2>8. CASE v \in {"more", "abort"}
    <3>1. owner' = owner /\ knote' = knote /\ kq' = kq
      BY <2>2, <2>8 DEF Read, AfterRead
    <3> QED BY <1>3, <2>6, <2>7, <2>8, <3>1 DEF LeavesAll, CallbackDone
  <2>9. CASE v = "close"
    <3>1. kq' = CloseConnection(kq, h)
      BY <2>2, <2>9 DEF AfterRead
    <3>2. kq'.map = [kq.map EXCEPT ![h] = {}] /\ kq'.changes = kq.changes
      BY <1>5, <3>1, CloseIs
    <3>3. LeavesClosed(h)
      BY <1>2, <2>2, <2>9, <3>2 DEF LeavesClosed, Read, ClosesFd
    <3> QED BY <1>1, <1>3, <1>5, <2>6, <2>7, <3>3 DEF CallbackDone
  <2>10. CASE v = "reply"
    <3>1. owner' = owner /\ knote' = knote
      BY <2>2, <2>10 DEF Read
    <3>2. LeavesWriting(h)
      BY <1>2, <2>5, <2>10, <3>1, WaitsFacts DEF LeavesWriting
    <3> QED BY <1>1, <1>3, <1>5, <2>6, <2>7, <3>2 DEF CallbackDone
  <2>11. CASE v = "revive"
    <3>1. ASSUME Clean PROVE ~Clean'
      <4>1. PICK M : M = kq.map
        OBVIOUS
      <4>2. InvBase(M) /\ InvClean(M) /\ M[h] = Reading
        BY <1>5, <3>1, <4>1 DEF KInv, HInv
      <4>3. n > 0 => Intact(h)
        BY <1>2, <1>5, <4>2, ReadsItsOwn
      <4>4. n > 0
        BY <1>5, <1>7, <2>3, <2>11, VerdictFacts
      <4>5. request[h].kind \in Revivers /\ got[h] + n >= request[h].head
        BY <1>5, <1>7, <2>3, <2>11, <4>3, <4>4, VerdictFacts
      <4>6. got'[h] = got[h] + n /\ request' = request
        BY <1>5, <1>7, <2>2 DEF Read, HandlersTypeOK
      <4>7. got[h] \in Nat /\ request[h].head \in Nat
        BY <1>5, <1>7, RequestFacts DEF HandlersTypeOK
      <4> QED BY <1>5, <2>3, <4>5, <4>6, <4>7 DEF Clean
    <3>2. LeavesRevived(h)
      BY <1>2, <2>2, <2>5, <2>11, <3>1, WaitsFacts DEF LeavesRevived, Read, ClosesFd
    <3> QED BY <1>1, <1>3, <1>5, <2>6, <2>7, <3>2 DEF CallbackDone
  <2> QED BY <2>4, <2>8, <2>9, <2>10, <2>11 DEF Verdicts
<1>9. CASE ReadFails(h) /\ kq' = CloseConnection(kq, h) /\ knote' = CloseKnotes(f)
  <2>1. kq'.map = [kq.map EXCEPT ![h] = {}] /\ kq'.changes = kq.changes
    BY <1>5, <1>9, CloseIs
  <2>2. HandlersStep(kq.map, kq'.map)
    BY <1>5, <1>9, <2>1 DEF HandlersStep, DoesFailToRead
  <2>3. ClientsCallback
    BY <1>7, <1>9 DEF ReadFails, ClientsCallback, OthersKept, SocketsTypeOK
  <2>4. LeavesClosed(h)
    BY <1>2, <1>9, <2>1 DEF LeavesClosed, ReadFails, ClosesFd
  <2> QED BY <1>1, <1>3, <1>5, <2>2, <2>3, <2>4 DEF CallbackDone
<1> QED
  BY <1>1, <1>2, <1>8, <1>9 DEF HandleRead

LEMMA HandleWriteDoes ==
  ASSUME KInv, HandleWrite
  PROVE  CallbackDone
<1>1. PICK h : h = current.udata
  OBVIOUS
<1>2. PICK f : f = handle[h]
  OBVIOUS
<1>3. current # None /\ Dispatched /\ "WRITE" \in kq.map[h]
  BY <1>1 DEF HandleWrite, ToWrite, Interest
<1>4. h # Listener
  BY <1>1, <1>3, KInvFacts, Interests
<1>5. h \in Conns /\ f \in Fds /\ kq.map[h] = Writing /\ kq.map[h] # {}
  BY <1>1, <1>2, <1>3, <1>4, ClientsTurn, Interests
<1>6. current' = None /\ batch' = batch /\ dispatched' = dispatched
  BY <1>3 DEF Dispatched
<1>7. CASE ProcessThrows(h) /\ kq' = kq /\ knote' = knote
  <2>1. HandlersStep(kq.map, kq'.map)
    BY <1>5, <1>7 DEF HandlersStep, DoesThrow
  <2>2. ClientsCallback /\ LeavesAll
    BY <1>6, <1>7 DEF ClientsCallback, OthersKept, LeavesAll, ProcessThrows, sockVars
  <2> QED BY <1>3, <2>1, <2>2 DEF CallbackDone
<1>8. CASE /\ SendReturns(f) /\ Write(h)
           /\ kq' = IF LastChunk(h) THEN CloseConnection(kq, h) ELSE kq
           /\ knote' = IF LastChunk(h) THEN CloseKnotes(f) ELSE knote
  <2>1. ClientsCallback
    BY <1>6, <1>8 DEF ClientsCallback, OthersKept, Write
  <2>2. CASE LastChunk(h)
    <3>1. kq'.map = [kq.map EXCEPT ![h] = {}] /\ kq'.changes = kq.changes
      BY <1>5, <1>8, <2>2, CloseIs
    <3>2. LeavesClosed(h)
      BY <1>2, <1>8, <2>2, <3>1 DEF LeavesClosed, ClosesFd, Write
    <3>3. HandlersStep(kq.map, kq'.map)
      BY <1>2, <1>5, <1>8, <2>2, <3>1 DEF HandlersStep, DoesWrite
    <3> QED BY <1>1, <1>3, <1>5, <2>1, <3>2, <3>3 DEF CallbackDone
  <2>3. CASE ~LastChunk(h)
    <3>1. LeavesAll
      BY <1>8, <2>3 DEF LeavesAll, Write
    <3>2. HandlersStep(kq.map, kq'.map)
      BY <1>2, <1>5, <1>8, <2>3 DEF HandlersStep, DoesWrite
    <3> QED BY <1>3, <2>1, <3>1, <3>2 DEF CallbackDone
  <2> QED BY <2>2, <2>3
<1>9. CASE SendFails(f) /\ Fatal /\ kq' = kq /\ knote' = knote
  <2>1. HandlersStep(kq.map, kq'.map)
    BY <1>2, <1>5, <1>9 DEF HandlersStep, DoesEnd
  <2>2. ClientsCallback /\ LeavesAll
    BY <1>6, <1>9 DEF ClientsCallback, OthersKept, LeavesAll, Fatal, sockVars
  <2> QED BY <1>3, <2>1, <2>2 DEF CallbackDone
<1> QED
  BY <1>1, <1>2, <1>7, <1>8, <1>9 DEF HandleWrite

LEMMA HandleCloseDoes ==
  ASSUME KInv, HandleClose
  PROVE  CallbackDone
<1>1. PICK h : h = current.udata
  OBVIOUS
<1>2. /\ current # None /\ Dispatched /\ current.eof /\ Close(h)
      /\ kq' = CloseConnection(kq, h) /\ knote' = CloseKnotes(handle[h])
  BY <1>1 DEF HandleClose, ToClose
<1>3. h # Listener
  BY <1>1, <1>2, CurrentFacts, KInvFacts DEF IInv, InvEvents
<1>4. /\ h \in Conns /\ kq.map[h] # {} /\ (Holds(h) => peer[h] \in {"fin", "reset"})
  BY <1>1, <1>2, <1>3, ClientsTurn, Interests
<1>5. kq'.map = [kq.map EXCEPT ![h] = {}] /\ kq'.changes = kq.changes
  BY <1>2, <1>4, CloseIs
<1>6. HandlersStep(kq.map, kq'.map)
  BY <1>2, <1>4, <1>5 DEF HandlersStep, DoesClose
<1>7. ClientsCallback
  BY <1>2 DEF ClientsCallback, OthersKept, Dispatched, Close
<1>8. LeavesClosed(h)
  BY <1>2, <1>5 DEF LeavesClosed, ClosesFd, Close
<1> QED
  BY <1>1, <1>2, <1>4, <1>6, <1>7, <1>8 DEF CallbackDone

\* An event that nothing is done with: its connection was reset since.
\* An event that fits nothing is one to read from a connection that is gone.
LEMMA NothingFits ==
  ASSUME KInv, NothingToDo, NEW h, h = current.udata
  PROVE  /\ current # None /\ h \in Conns /\ kq.map[h] # {} /\ SendFails(handle[h])
         /\ peer' = peer
<1>1. /\ current # None /\ peer' = peer
      /\ ~ToClose(current) /\ ~ToAccept(current) /\ ~ToRead(current) /\ ~ToWrite(current)
  BY DEF NothingToDo, Fatal, sockVars
<1>2. /\ current \in InFlight /\ current.filter \in Filters /\ handle[h] = current.ident
      /\ Wants(h, current.filter)
  BY <1>1, CurrentFacts, KInvFacts DEF KInv, InvReported, Kevent
<1>3. h # Listener
  <2> SUFFICES ASSUME h = Listener PROVE FALSE
    OBVIOUS
  <2>1. kq.map[h] = {"ACCEPT", "CLOSE"} /\ current.ident = Listener
    BY <1>2, KInvFacts DEF Listening
  <2>2. current.filter = "EVFILT_READ"
    BY <1>2, <2>1 DEF Filters, Wants
  <2>3. ToAccept(current)
    BY <1>1, <2>1, <2>2 DEF ToAccept, NoPeer, Interest
  <2> QED BY <1>1, <2>3
<1>4. h \in Conns /\ handle[h] \in Fds /\ kq.map[h] \in {Reading, Writing}
  BY <1>1, <1>3, ClientsTurn
<1>5. SendFails(handle[h])
  <2>1. current.filter # "EVFILT_WRITE"
    BY <1>1, <1>2 DEF ToWrite, Interest, Wants, Filters
  <2>2. current.filter = "EVFILT_READ"
    BY <1>2, <2>1 DEF Filters
  <2>3. "READ" \in kq.map[h]
    BY <1>2, <1>4, <2>2 DEF Wants, Reading, Writing
  <2>4. NoPeer(current.ident)
    BY <1>1, <2>2, <2>3 DEF ToRead, Interest
  <2> QED BY <1>2, <1>4, <2>4, EventHandlersAssumption DEF NoPeer, PeerNameFails, SendFails
<1> QED
  BY <1>1, <1>4, <1>5, Interests

LEMMA NothingToDoDoes ==
  ASSUME KInv, NothingToDo
  PROVE  CallbackDone
<1>1. PICK h : h = current.udata
  OBVIOUS
<1>2. current # None /\ Dispatched /\ Fatal /\ kq' = kq /\ knote' = knote
  BY DEF NothingToDo
<1>3. h \in Conns /\ kq.map[h] # {} /\ SendFails(handle[h])
  BY <1>1, NothingFits
<1>4. HandlersStep(kq.map, kq'.map)
  BY <1>2, <1>3 DEF HandlersStep, DoesEnd
<1>5. ClientsCallback /\ LeavesAll
  BY <1>2 DEF ClientsCallback, OthersKept, LeavesAll, Fatal, sockVars, Dispatched
<1> QED
  BY <1>2, <1>4, <1>5 DEF CallbackDone

\* The listener's callback admits a connection, or the process ends.
StartsReading(f, h) ==
  [flags |-> "EV_ADD", ident |-> f, filter |-> "EVFILT_READ", udata |-> h]

AdmitDone ==
  /\ current # None /\ current.udata = Listener /\ HandlersStep(kq.map, kq'.map)
  /\ current' = None /\ batch' = batch /\ dispatched' = dispatched /\ knote' = knote
  /\ \E c \in backlog, f \in FreeFds :
       /\ Accept(c, f)
       /\ kq'.map = [kq.map EXCEPT ![c] = Reading]
       /\ kq'.changes = Append(kq.changes, StartsReading(f, c))

LEMMA HandleAcceptDoes ==
  ASSUME KInv, HandleAccept
  PROVE  CallbackDone \/ AdmitDone
<1>1. PICK h : h = current.udata
  OBVIOUS
<1>2. /\ current # None /\ Dispatched /\ "ACCEPT" \in kq.map[h] /\ knote' = knote
  BY <1>1 DEF HandleAccept, ToAccept, Interest
<1>3. h = Listener
  BY <1>1, <1>2, ClientsTurn DEF Reading, Writing
<1>4. current' = None /\ batch' = batch /\ dispatched' = dispatched
  BY <1>2 DEF Dispatched
<1>5. ASSUME NEW c \in backlog, NEW f \in FreeFds, Accept(c, f),
             kq' = RegisterHandler(kq, c, f, {"READ", "CLOSE"})
      PROVE  AdmitDone
  <2>1. c \in Conns /\ c \in Handlers /\ kq.map[c] = {} /\ kq \in Dispatcher
        /\ f \in Idents
    BY <1>5, KInvFacts DEF InvBase, SocketsTypeOK, Idents, FreeFds
  <2>2. {"READ", "CLOSE"} \in SUBSET ALL_EVENTS /\ "EVFILT_READ" \in Filters
    BY DEF ALL_EVENTS, Filters
  <2>3. /\ kq'.map = [kq.map EXCEPT ![c] = @ \cup {"READ", "CLOSE"}]
        /\ kq'.changes = Append(kq.changes, StartsReading(f, c))
    BY <1>5, <2>1, <2>2, OneFilter, Registers DEF StartsReading
  <2>4. kq.map[c] \cup {"READ", "CLOSE"} = Reading
    BY <2>1 DEF Reading
  <2>5. kq'.map = [kq.map EXCEPT ![c] = Reading]
    BY <2>3, <2>4
  <2>6. HandlersStep(kq.map, kq'.map)
    BY <1>5, <2>5 DEF HandlersStep, DoesAccept
  <2> QED BY <1>1, <1>2, <1>3, <1>4, <1>5, <2>3, <2>5, <2>6 DEF AdmitDone
<1>6. ASSUME backlog # {}, FreeFds = {}, Fatal, kq' = kq
      PROVE  CallbackDone
  <2>1. HandlersStep(kq.map, kq'.map)
    BY <1>6 DEF HandlersStep, DoesEnd
  <2>2. ClientsCallback /\ LeavesAll
    BY <1>2, <1>4, <1>6 DEF ClientsCallback, OthersKept, LeavesAll, Fatal, sockVars
  <2> QED BY <1>2, <2>1, <2>2 DEF CallbackDone
<1> QED
  BY <1>5, <1>6 DEF HandleAccept

----------------------------------------------------------------------------
(* The pending changes, taken in order.                                    *)

\* Applied for changes s, a filter that has the udata w and a descriptor that
\* is open, or not: o.
LastIn(s, i, flt) ==
  LET For == {k \in 1 .. Len(s) : s[k].ident = i /\ s[k].filter = flt}
  IN {s[k] : k \in {x \in For : \A j \in For : j <= x}}

Taken(s, i, flt, w, o) ==
  LET last == LastIn(s, i, flt) IN
  IF \A k \in 1 .. Len(s) : s[k].ident # i \/ s[k].filter # flt THEN w
  ELSE IF \E c \in last : c.flags = "EV_ADD"
  THEN IF o THEN (CHOOSE c \in last : c.flags = "EV_ADD").udata ELSE w
  ELSE None

LEMMA AppliedTakes ==
  ASSUME NEW i, NEW flt
  PROVE  /\ Applied(i, flt) = Taken(kq.changes, i, flt, knote[i][flt], Open(i))
         /\ Applied(i, flt)' = Taken(kq'.changes, i, flt, knote'[i][flt], Open(i)')
BY DEF Applied, Taken, LastChange, LastIn

\* A change for another filter is no change for this one.
LEMMA TakenOther ==
  ASSUME NEW s \in Seq(Change), NEW c \in Change, NEW i, NEW flt, NEW w, NEW o,
         c.ident # i \/ c.filter # flt
  PROVE  Taken(Append(s, c), i, flt, w, o) = Taken(s, i, flt, w, o)
<1> DEFINE t == Append(s, c)
           n == Len(s)
<1>1. /\ n \in Nat /\ Len(t) = n + 1 /\ t[n + 1] = c /\ \A k \in 1 .. n : t[k] = s[k]
      /\ \A k \in 1 .. n + 1 : k \in 1 .. n \/ k = n + 1
      /\ \A k \in 1 .. n : k \in 1 .. n + 1
  OBVIOUS
<1> HIDE DEF t, n
<1>2. {k \in 1 .. Len(t) : t[k].ident = i /\ t[k].filter = flt}
        = {k \in 1 .. n : s[k].ident = i /\ s[k].filter = flt}
  BY <1>1
<1>3. LastIn(t, i, flt) = LastIn(s, i, flt)
  BY <1>1, <1>2 DEF LastIn, n
<1>4. (\A k \in 1 .. Len(t) : t[k].ident # i \/ t[k].filter # flt)
        <=> (\A k \in 1 .. n : s[k].ident # i \/ s[k].filter # flt)
  BY <1>1
<1> QED
  BY <1>3, <1>4 DEF Taken, t, n

\* The last change decides.
LEMMA TakenAdd ==
  ASSUME NEW s \in Seq(Change), NEW c \in Change, c.flags = "EV_ADD", NEW w
  PROVE  Taken(Append(s, c), c.ident, c.filter, w, TRUE) = c.udata
<1> DEFINE t == Append(s, c)
           n == Len(s)
           For == {k \in 1 .. Len(t) : t[k].ident = c.ident /\ t[k].filter = c.filter}
<1>1. n \in Nat /\ Len(t) = n + 1 /\ t[n + 1] = c /\ n + 1 \in 1 .. Len(t)
  OBVIOUS
<1> HIDE DEF t, n
<1>2. n + 1 \in For /\ \A k \in For : k \in Nat /\ k <= n + 1
  BY <1>1
<1>3. \A x \in For : (\A j \in For : j <= x) <=> x = n + 1
  BY <1>1, <1>2
<1>4. {x \in For : \A j \in For : j <= x} = {n + 1}
  BY <1>2, <1>3
<1>5. LastIn(t, c.ident, c.filter) = {c}
  BY <1>1, <1>4 DEF LastIn
<1>6. ~(\A k \in 1 .. Len(t) : t[k].ident # c.ident \/ t[k].filter # c.filter)
  BY <1>1
<1>7. (CHOOSE x \in {c} : x.flags = "EV_ADD") = c /\ \E x \in {c} : x.flags = "EV_ADD"
  OBVIOUS
<1> QED
  BY <1>5, <1>6, <1>7 DEF Taken, t

\* A filter that is there after the changes was there before or was added.
LEMMA TakenFrom ==
  ASSUME NEW s \in Seq(Change), NEW i, NEW flt, NEW w, NEW o,
         Taken(s, i, flt, w, o) # None
  PROVE  \/ w # None
         \/ \E k \in 1 .. Len(s) :
              s[k].flags = "EV_ADD" /\ s[k].ident = i /\ s[k].filter = flt
<1>1. CASE \A k \in 1 .. Len(s) : s[k].ident # i \/ s[k].filter # flt
  BY <1>1 DEF Taken
<1>2. CASE /\ ~(\A k \in 1 .. Len(s) : s[k].ident # i \/ s[k].filter # flt)
           /\ \E c \in LastIn(s, i, flt) : c.flags = "EV_ADD"
  BY <1>2 DEF LastIn
<1>3. CASE /\ ~(\A k \in 1 .. Len(s) : s[k].ident # i \/ s[k].filter # flt)
           /\ ~(\E c \in LastIn(s, i, flt) : c.flags = "EV_ADD")
  BY <1>3 DEF Taken
<1> QED
  BY <1>1, <1>2, <1>3

----------------------------------------------------------------------------
(* The map, the kernel and the changes agree after each step.              *)

LEMMA RegisteredOwns ==
  ASSUME KInv, Clean, NEW x \in Handlers, Registered(x)
  PROVE  /\ handle[x] \in Idents /\ Open(handle[x]) = TRUE /\ x # None
         /\ \/ x = Listener /\ handle[x] = Listener
            \/ x \in Conns /\ handle[x] \in Fds /\ owner[handle[x]] = x
<1>1. CASE x = Listener
  BY <1>1, KInvFacts, EventHandlersAssumption DEF Idents, Open
<1>2. CASE x # Listener
  <2>1. PICK M : M = kq.map
    OBVIOUS
  <2>2. InvBase(M) /\ InvLinked(M) /\ x \in Conns /\ M[x] # {}
    BY <1>2, <2>1 DEF KInv, HInv, InvClean, Handlers, Registered
  <2>3. handle[x] \in Fds /\ owner[handle[x]] = x /\ x # None
    BY <2>2, OwnFd
  <2> QED BY <2>2, <2>3 DEF Idents, Open
<1> QED
  BY <1>1, <1>2

LEMMA WantsRegistered ==
  ASSUME NEW x, NEW flt, Wants(x, flt)
  PROVE  Registered(x)
BY DEF Wants, Registered

\* A sequence with one more change.
LEMMA Appends ==
  ASSUME NEW s \in Seq(Change), NEW c \in Change
  PROVE  /\ Append(s, c) \in Seq(Change) /\ Len(s) \in Nat
         /\ Len(Append(s, c)) = Len(s) + 1 /\ Append(s, c)[Len(s) + 1] = c
         /\ \A k \in 1 .. Len(s) : k \in 1 .. Len(s) + 1 /\ Append(s, c)[k] = s[k]
         /\ \A k \in 1 .. Len(s) + 1 : k \in 1 .. Len(s) \/ k = Len(s) + 1
OBVIOUS

LEMMA SyncStays ==
  ASSUME InvSync, InvPending, kq'.map = kq.map, kq'.changes = kq.changes,
         knote' = knote, owner' = owner, handle' = handle
  PROVE  InvSync' /\ InvPending'
<1>1. ASSUME NEW i, NEW flt PROVE Applied(i, flt)' = Applied(i, flt)
  BY AppliedTakes DEF Open
<1>2. InvSync'
  BY <1>1 DEF InvSync, Wants
<1>3. InvPending'
  BY DEF InvPending
<1> QED
  BY <1>2, <1>3

LEMMA SubmitSync ==
  ASSUME KInv, Clean, Submit
  PROVE  InvSync' /\ InvPending'
<1>1. /\ kq'.changes = <<>> /\ kq'.map = kq.map /\ handle' = handle
      /\ knote' = [i \in Idents |-> [flt \in Filters |-> Applied(i, flt)]]
  BY KInvFacts DEF Submit, Dispatcher, handlerVars
<1>2. ASSUME NEW i \in Idents, NEW flt \in Filters
      PROVE  Applied(i, flt)' = Applied(i, flt)
  <2>1. Applied(i, flt)' = Taken(<<>>, i, flt, knote'[i][flt], Open(i)')
    BY <1>1, AppliedTakes
  <2>2. Taken(<<>>, i, flt, knote'[i][flt], Open(i)') = knote'[i][flt]
    BY DEF Taken
  <2> QED BY <1>1, <2>1, <2>2
<1>3. InvSync'
  <2> SUFFICES ASSUME NEW x \in Handlers, NEW flt \in Filters, Wants(x, flt)'
               PROVE  Applied(handle[x], flt)' = x
    BY <1>1 DEF InvSync
  <2>1. Wants(x, flt)
    BY <1>1 DEF Wants
  <2>2. handle[x] \in Idents /\ Applied(handle[x], flt) = x
    BY <2>1, WantsRegistered, RegisteredOwns DEF KInv, InvSync
  <2>3. PICK i : i = handle[x]
    OBVIOUS
  <2>4. Applied(i, flt)' = x
    BY <1>2, <2>2, <2>3
  <2> QED BY <1>1, <2>3, <2>4
<1>4. InvPending'
  BY <1>1 DEF InvPending
<1> QED
  BY <1>3, <1>4

\* A client's handler goes, with its descriptor: no change that is pending is
\* about that descriptor, because its own registration is long submitted.
LEMMA NoChangeFor ==
  ASSUME KInv, Clean, current # None, NEW h, h = current.udata, h \in Conns,
         NEW k \in 1 .. Len(kq.changes)
  PROVE  kq.changes[k].ident # handle[h]
<1>1. \A j \in 1 .. Len(kq.changes) :
        kq.changes[j].flags = "EV_ADD" =>
          /\ kq.changes[j].udata \in Handlers /\ Registered(kq.changes[j].udata)
          /\ handle[kq.changes[j].udata] = kq.changes[j].ident /\ kq.changes[j].udata # h
  BY CurrentFacts DEF KInv, IInv, InvChanges
<1>2. handle[h] \in Fds /\ owner[handle[h]] = h
  <2>1. h \in Handlers /\ Registered(h) /\ h # Listener
    BY KInvFacts, CurrentFacts
  <2> QED BY <2>1, RegisteredOwns
<1>3. ASSUME NEW j \in 1 .. Len(kq.changes), kq.changes[j].flags = "EV_ADD"
      PROVE  kq.changes[j].ident # handle[h]
  <2>1. PICK x : x = kq.changes[j].udata
    OBVIOUS
  <2>2. x \in Handlers /\ Registered(x) /\ handle[x] = kq.changes[j].ident /\ x # h
    BY <1>1, <1>3, <2>1
  <2>3. handle[x] = Listener \/ owner[handle[x]] = x
    BY <2>2, RegisteredOwns
  <2> QED BY <1>2, <2>2, <2>3, EventHandlersAssumption
<1>4. kq.changes[k] \in Change
  BY KInvFacts DEF Dispatcher
<1>5. CASE kq.changes[k].flags = "EV_DELETE"
  <2>1. \E j \in 1 .. Len(kq.changes) :
          kq.changes[j].flags = "EV_ADD" /\ kq.changes[j].ident = kq.changes[k].ident
    BY <1>5 DEF KInv, InvPending
  <2> QED BY <1>3, <2>1
<1> QED
  BY <1>3, <1>4, <1>5 DEF Change

LEMMA CloseSync ==
  ASSUME KInv, Clean, current # None, NEW h, h = current.udata, h \in Conns,
         LeavesClosed(h), handle' = handle
  PROVE  InvSync' /\ InvPending'
<1> DEFINE f == handle[h]
<1>1. /\ h \in Handlers /\ f \in Fds /\ owner[f] = h /\ f # Listener
      /\ knote \in [Idents -> [Filters -> Handlers \cup {None}]]
      /\ owner \in [Fds -> Conns \cup {None}]
  <2>1. h \in Handlers /\ Registered(h) /\ h # Listener
    BY KInvFacts, CurrentFacts
  <2>2. f \in Fds /\ owner[f] = h
    BY <2>1, RegisteredOwns
  <2> QED BY <2>1, <2>2, EventHandlersAssumption DEF KInv, IInv, TypeOK, SocketsTypeOK
<1>2. /\ kq'.changes = kq.changes
      /\ \A i \in Idents : i # f => knote'[i] = knote[i] /\ (Open(i)' <=> Open(i))
      /\ \A x \in Handlers : x # h => kq'.map[x] = kq.map[x]
      /\ kq'.map[h] = {}
  <2>1. kq'.changes = kq.changes /\ kq'.map = [kq.map EXCEPT ![h] = {}]
        /\ ClosesFd(f)
    BY DEF LeavesClosed
  <2>2. \A i \in Idents : i # f => knote'[i] = knote[i]
    BY <1>1, <2>1 DEF ClosesFd, CloseKnotes
  <2>3. \A i \in Idents : i # f => (Open(i)' <=> Open(i))
    BY <1>1, <2>1 DEF ClosesFd, Open
  <2> QED BY <1>1, <2>1, <2>2, <2>3, KInvFacts
<1> HIDE DEF f
<1>3. InvSync'
  <2> SUFFICES ASSUME NEW x \in Handlers, NEW flt \in Filters, Wants(x, flt)'
               PROVE  Applied(handle[x], flt)' = x
    BY DEF InvSync
  <2>1. x # h
    BY <1>2 DEF Wants
  <2>2. Wants(x, flt)
    BY <1>2, <2>1 DEF Wants
  <2>3. Registered(x) /\ Applied(handle[x], flt) = x
    BY <2>2, WantsRegistered DEF KInv, InvSync
  <2>4. handle[x] \in Idents /\ handle[x] # f
    BY <1>1, <2>1, <2>3, RegisteredOwns
  <2>5. PICK i : i = handle[x]
    OBVIOUS
  <2>6. Applied(i, flt)' = Applied(i, flt)
    <3>1. knote'[i][flt] = knote[i][flt] /\ (Open(i)' <=> Open(i))
      BY <1>2, <2>4, <2>5
    <3>2. Open(i)' = Open(i)
      BY <3>1 DEF Open
    <3> QED BY <1>2, <3>1, <3>2, AppliedTakes
  <2> QED BY <2>3, <2>5, <2>6
<1>4. InvPending'
  <2> SUFFICES ASSUME NEW k \in 1 .. Len(kq.changes), kq.changes[k].flags = "EV_DELETE"
               PROVE  /\ \E j \in 1 .. Len(kq.changes) :
                           /\ kq.changes[j].flags = "EV_ADD"
                           /\ kq.changes[j].ident = kq.changes[k].ident
                      /\ \/ knote'[kq.changes[k].ident][kq.changes[k].filter] # None
                         \/ \E j \in 1 .. k - 1 :
                              /\ kq.changes[j].flags = "EV_ADD"
                              /\ kq.changes[j].ident = kq.changes[k].ident
                              /\ kq.changes[j].filter = kq.changes[k].filter
    BY <1>2 DEF InvPending
  <2>1. kq.changes[k].ident # f /\ kq.changes[k] \in Change
    BY NoChangeFor, KInvFacts DEF f, Dispatcher
  <2>2. knote'[kq.changes[k].ident] = knote[kq.changes[k].ident]
    BY <1>2, <2>1 DEF Change
  <2> QED BY <2>2 DEF KInv, InvPending
<1> QED
  BY <1>3, <1>4

\* A handler stops reading and starts writing: the kernel has its filter for
\* reading, or gets it with the same changes, and it gets the other one.
LEMMA ReplySync ==
  ASSUME KInv, Clean, current # None, NEW h, h = current.udata, h \in Conns,
         kq.map[h] = Reading, LeavesWriting(h), handle' = handle
  PROVE  InvSync' /\ InvPending'
<1>1. PICK f : f = handle[h]
  OBVIOUS
<1>2. PICK del : del = StopsReading(f)
  OBVIOUS
<1>3. PICK add : add = StartsWriting(f, h)
  OBVIOUS
<1>4. PICK s : s = kq.changes
  OBVIOUS
<1>5. PICK s1 : s1 = Append(s, del)
  OBVIOUS
<1>6. PICK s2 : s2 = Append(s1, add)
  OBVIOUS
<1>7. /\ h \in Handlers /\ f \in Idents /\ Open(f) = TRUE /\ h # None /\ h # Listener
      /\ Registered(h)
  <2>1. h \in Handlers /\ Registered(h) /\ h # Listener
    BY KInvFacts, CurrentFacts
  <2> QED BY <1>1, <2>1, RegisteredOwns
<1>8. /\ del \in Change /\ add \in Change /\ s \in Seq(Change)
      /\ del.flags = "EV_DELETE" /\ del.ident = f /\ del.filter = "EVFILT_READ"
      /\ add.flags = "EV_ADD" /\ add.ident = f /\ add.filter = "EVFILT_WRITE" /\ add.udata = h
  BY <1>2, <1>3, <1>4, <1>7, KInvFacts
     DEF StopsReading, StartsWriting, Change, Filters, Dispatcher
<1>9. /\ kq'.changes = s2 /\ kq'.map = [kq.map EXCEPT ![h] = Writing]
      /\ owner' = owner /\ knote' = knote
  BY <1>1, <1>2, <1>3, <1>4, <1>5, <1>6 DEF LeavesWriting, Reply
<1>10. s1 \in Seq(Change)
  BY <1>5, <1>8, Appends
<1>11. /\ \A x \in Handlers : x # h => kq'.map[x] = kq.map[x]
       /\ kq'.map[h] = Writing
  BY <1>7, <1>9, KInvFacts
<1>12. InvSync'
  <2> SUFFICES ASSUME NEW x \in Handlers, NEW flt \in Filters, Wants(x, flt)'
               PROVE  Applied(handle[x], flt)' = x
    BY DEF InvSync
  <2>1. PICK i : i = handle[x]
    OBVIOUS
  <2>2. Applied(i, flt)' = Taken(s2, i, flt, knote[i][flt], Open(i))
    BY <1>9, AppliedTakes DEF Open
  <2>3. Applied(i, flt) = Taken(s, i, flt, knote[i][flt], Open(i))
    BY <1>4, AppliedTakes
  <2>4. CASE x # h
    <3>1. Wants(x, flt)
      BY <1>11, <2>4 DEF Wants
    <3>2. Registered(x) /\ Applied(i, flt) = x
      BY <2>1, <3>1, WantsRegistered DEF KInv, InvSync
    <3>3. i # f
      <4>1. \/ handle[x] = Listener
            \/ handle[x] \in Fds /\ owner[handle[x]] = x
        BY <3>2, RegisteredOwns
      <4>2. handle[h] \in Fds /\ owner[handle[h]] = h
        BY <1>7, RegisteredOwns
      <4> QED BY <1>1, <2>1, <2>4, <4>1, <4>2, EventHandlersAssumption
    <3>4. Taken(s1, i, flt, knote[i][flt], Open(i)) = Taken(s, i, flt, knote[i][flt], Open(i))
      BY <1>5, <1>8, <3>3, TakenOther
    <3>5. Taken(s2, i, flt, knote[i][flt], Open(i)) = Taken(s1, i, flt, knote[i][flt], Open(i))
      BY <1>6, <1>8, <1>10, <3>3, TakenOther
    <3> QED BY <2>1, <2>2, <2>3, <3>2, <3>4, <3>5
  <2>5. CASE x = h
    <3>1. flt = "EVFILT_WRITE" /\ i = f
      BY <1>1, <1>11, <2>1, <2>5 DEF Wants, Writing, Filters
    <3>2. Taken(s2, f, "EVFILT_WRITE", knote[i][flt], TRUE) = h
      BY <1>6, <1>8, <1>10, TakenAdd
    <3> QED BY <1>7, <2>1, <2>2, <2>5, <3>1, <3>2
  <2> QED BY <2>4, <2>5
<1>13. InvPending'
  <2>1. PICK n : n = Len(s)
    OBVIOUS
  <2>2. /\ n \in Nat /\ Len(s2) = n + 2 /\ s2[n + 1] = del /\ s2[n + 2] = add
        /\ \A k \in 1 .. n : s2[k] = s[k]
        /\ \A k \in 1 .. n + 2 : k \in 1 .. n \/ k = n + 1 \/ k = n + 2
        /\ \A k \in 1 .. n : k \in 1 .. n + 2
        /\ n + 2 \in 1 .. n + 2 /\ \A k \in 1 .. n : k \in 1 .. (n + 1) - 1
        /\ \A k \in 1 .. n : \A j \in 1 .. k - 1 : j \in 1 .. n
    BY <1>5, <1>6, <1>8, <1>10, <2>1, SMTT(30)
  <2> SUFFICES ASSUME NEW k \in 1 .. n + 2, s2[k].flags = "EV_DELETE"
               PROVE  /\ \E j \in 1 .. n + 2 :
                           s2[j].flags = "EV_ADD" /\ s2[j].ident = s2[k].ident
                      /\ \/ knote[s2[k].ident][s2[k].filter] # None
                         \/ \E j \in 1 .. k - 1 :
                              /\ s2[j].flags = "EV_ADD" /\ s2[j].ident = s2[k].ident
                              /\ s2[j].filter = s2[k].filter
    BY <1>9, <2>2 DEF InvPending
  <2>3. CASE k \in 1 .. n
    <3>1. /\ s[k].flags = "EV_DELETE"
      BY <2>2, <2>3
    <3>2. /\ \E j \in 1 .. n : s[j].flags = "EV_ADD" /\ s[j].ident = s[k].ident
          /\ \/ knote[s[k].ident][s[k].filter] # None
             \/ \E j \in 1 .. k - 1 :
                  /\ s[j].flags = "EV_ADD" /\ s[j].ident = s[k].ident
                  /\ s[j].filter = s[k].filter
      BY <1>4, <2>1, <2>3, <3>1 DEF KInv, InvPending
    <3> QED BY <2>2, <2>3, <3>2
  <2>4. CASE k = n + 1
    <3>1. Taken(s, f, "EVFILT_READ", knote[f]["EVFILT_READ"], Open(f)) = h
      <4>1. Wants(h, "EVFILT_READ") /\ "EVFILT_READ" \in Filters
        BY DEF Wants, Reading, Filters
      <4>2. Applied(handle[h], "EVFILT_READ") = h
        BY <1>7, <4>1 DEF KInv, InvSync
      <4> QED BY <1>1, <1>4, <4>2, AppliedTakes
    <3>2. \/ knote[f]["EVFILT_READ"] # None
          \/ \E j \in 1 .. n : /\ s[j].flags = "EV_ADD" /\ s[j].ident = f
                               /\ s[j].filter = "EVFILT_READ"
      <4>1. Taken(s, f, "EVFILT_READ", knote[f]["EVFILT_READ"], Open(f)) # None
        BY <1>7, <3>1
      <4>2. s \in Seq(Change)
        BY <1>8
      <4> QED BY ONLY <2>1, <4>1, <4>2, TakenFrom
    <3> QED BY <1>8, <2>2, <2>4, <3>2
  <2>5. k # n + 2
    BY <1>8, <2>2
  <2> QED BY <2>2, <2>3, <2>4, <2>5
<1> QED
  BY <1>12, <1>13

\* A new handler gets its filter: its descriptor was free, so that no change
\* is about it and no handler has it.
LEMMA AcceptSync ==
  ASSUME KInv, Clean, AdmitDone
  PROVE  InvSync' /\ InvPending'
<1>1. PICK c \in backlog, f \in FreeFds :
        /\ Accept(c, f) /\ kq'.map = [kq.map EXCEPT ![c] = Reading]
        /\ kq'.changes = Append(kq.changes, StartsReading(f, c))
  BY DEF AdmitDone
<1>2. PICK add : add = StartsReading(f, c)
  OBVIOUS
<1>3. PICK s : s = kq.changes
  OBVIOUS
<1>4. /\ c \in Conns /\ c \in Handlers /\ c # Listener /\ kq.map[c] = {}
      /\ f \in Idents /\ f \in Fds /\ owner[f] = None /\ f # Listener
      /\ handle \in [Handlers -> Fds \cup {Listener, None}]
      /\ owner \in [Fds -> Conns \cup {None}]
  BY KInvFacts, EventHandlersAssumption
     DEF InvBase, SocketsTypeOK, HandlersTypeOK, Idents, FreeFds
<1>5. /\ add \in Change /\ s \in Seq(Change) /\ knote' = knote
      /\ add.flags = "EV_ADD" /\ add.ident = f /\ add.filter = "EVFILT_READ" /\ add.udata = c
  BY <1>2, <1>3, <1>4, KInvFacts
     DEF StartsReading, Change, Filters, Dispatcher, AdmitDone
<1>6. /\ \A x \in Handlers : x # c => kq'.map[x] = kq.map[x] /\ handle'[x] = handle[x]
      /\ kq'.map[c] = Reading /\ handle'[c] = f
      /\ Open(f)' = TRUE /\ \A i : i # f => Open(i)' = Open(i)
  <2>1. handle' = [handle EXCEPT ![c] = f] /\ owner' = [owner EXCEPT ![f] = c]
    BY <1>1 DEF Accept
  <2>2. c # None
    BY <1>4, SocketsAssumption
  <2>3. Open(f)' = TRUE /\ \A i : i # f => Open(i)' = Open(i)
    BY <1>4, <2>1, <2>2 DEF Open
  <2> QED BY <1>1, <1>4, <2>1, <2>3, KInvFacts
<1>7. InvSync'
  <2> SUFFICES ASSUME NEW x \in Handlers, NEW flt \in Filters, Wants(x, flt)'
               PROVE  Applied(handle[x], flt)' = x
    BY DEF InvSync
  <2>1. PICK i : i = handle'[x]
    OBVIOUS
  <2>2. Applied(i, flt)' = Taken(Append(s, add), i, flt, knote[i][flt], Open(i)')
    BY <1>1, <1>2, <1>3, <1>5, AppliedTakes
  <2>3. CASE x # c
    <3>1. i = handle[x] /\ Wants(x, flt)
      BY <1>6, <2>1, <2>3 DEF Wants
    <3>2. Registered(x) /\ Applied(i, flt) = x
      BY <3>1, WantsRegistered DEF KInv, InvSync
    <3>3. i # f
      <4>1. i = Listener \/ owner[i] = x
        BY <3>1, <3>2, RegisteredOwns
      <4>2. x # None
        BY <3>2, RegisteredOwns
      <4> QED BY <1>4, <4>1, <4>2
    <3>4. Applied(i, flt) = Taken(s, i, flt, knote[i][flt], Open(i))
      BY <1>3, AppliedTakes
    <3>5. Taken(Append(s, add), i, flt, knote[i][flt], Open(i))
            = Taken(s, i, flt, knote[i][flt], Open(i))
      BY <1>5, <3>3, TakenOther
    <3> QED BY <1>6, <2>1, <2>2, <3>2, <3>3, <3>4, <3>5
  <2>4. CASE x = c
    <3>1. flt = "EVFILT_READ" /\ i = f
      BY <1>6, <2>1, <2>4 DEF Wants, Reading, Filters
    <3>2. Taken(Append(s, add), f, "EVFILT_READ", knote[i][flt], TRUE) = c
      BY <1>5, TakenAdd
    <3> QED BY <1>6, <2>1, <2>2, <2>4, <3>1, <3>2
  <2> QED BY <2>3, <2>4
<1>8. InvPending'
  <2>1. PICK n : n = Len(s)
    OBVIOUS
  <2>2. PICK t : t = Append(s, add)
    OBVIOUS
  <2>3. /\ n \in Nat /\ Len(t) = n + 1 /\ t[n + 1] = add
        /\ \A k \in 1 .. n : k \in 1 .. n + 1 /\ t[k] = s[k]
        /\ \A k \in 1 .. n + 1 : k \in 1 .. n \/ k = n + 1
        /\ \A k \in 1 .. n : \A j \in 1 .. k - 1 : j \in 1 .. n
    BY <1>5, <2>1, <2>2, Appends
  <2> SUFFICES ASSUME NEW k \in 1 .. n + 1, t[k].flags = "EV_DELETE"
               PROVE  /\ \E j \in 1 .. n + 1 :
                           t[j].flags = "EV_ADD" /\ t[j].ident = t[k].ident
                      /\ \/ knote[t[k].ident][t[k].filter] # None
                         \/ \E j \in 1 .. k - 1 :
                              /\ t[j].flags = "EV_ADD" /\ t[j].ident = t[k].ident
                              /\ t[j].filter = t[k].filter
    <3>1. kq'.changes = t /\ knote' = knote /\ Len(t) = n + 1
      BY <1>1, <1>2, <1>3, <1>5, <2>2, <2>3
    <3> QED BY <3>1 DEF InvPending
  <2>4. k \in 1 .. n /\ s[k].flags = "EV_DELETE"
    BY <1>5, <2>3
  <2>5. /\ \E j \in 1 .. n : s[j].flags = "EV_ADD" /\ s[j].ident = s[k].ident
        /\ \/ knote[s[k].ident][s[k].filter] # None
           \/ \E j \in 1 .. k - 1 :
                /\ s[j].flags = "EV_ADD" /\ s[j].ident = s[k].ident
                /\ s[j].filter = s[k].filter
    BY <1>3, <2>1, <2>4 DEF KInv, InvPending
  <2> QED BY <2>3, <2>4, <2>5
<1> QED
  BY <1>7, <1>8

----------------------------------------------------------------------------
(* What the events of the list report stays true.                          *)

LEMMA ReportedStays ==
  ASSUME KInv, InFlight' \subseteq InFlight,
         \A e \in InFlight' : kq'.map[e.udata] = kq.map[e.udata],
         \A e \in InFlight' : Holds(e.udata)' => e.udata \in Conns /\ Holds(e.udata),
         \A c \in Conns : peer[c] \in {"fin", "reset"} => peer'[c] \in {"fin", "reset"},
         \/ \A e \in InFlight' : e.udata # Listener
         \/ /\ handle' = handle
            /\ \A c \in Conns : peer[c] = "reset" => peer'[c] = "reset"
            /\ \A c \in backlog : c \in backlog' \/ peer'[c] = "reset"
  PROVE  InvReported'
<1> SUFFICES ASSUME NEW e \in InFlight'
             PROVE  /\ Wants(e.udata, e.filter)'
                    /\ e.eof /\ Holds(e.udata)' => peer'[e.udata] \in {"fin", "reset"}
                    /\ e.udata = Listener =>
                         \/ backlog' # {}
                         \/ \E c \in Conns : peer'[c] = "reset" /\ handle'[c] = None
  BY DEF InvReported
<1>1. /\ Wants(e.udata, e.filter)
      /\ e.eof /\ Holds(e.udata) => peer[e.udata] \in {"fin", "reset"}
      /\ e.udata = Listener =>
           backlog # {} \/ \E c \in Conns : peer[c] = "reset" /\ handle[c] = None
  BY DEF KInv, InvReported
<1>2. Wants(e.udata, e.filter)'
  BY <1>1 DEF Wants
<1>3. ASSUME e.udata = Listener
      PROVE  backlog' # {} \/ \E c \in Conns : peer'[c] = "reset" /\ handle'[c] = None
  <2>1. backlog \subseteq Conns /\ \A c \in backlog : handle[c] = None
    BY KInvFacts DEF InvBase, SocketsTypeOK
  <2> QED BY <1>1, <1>3, <2>1
<1> QED
  BY <1>1, <1>2, <1>3

\* A connection's handler that has its descriptor is not the listener.
LEMMA HoldsConn ==
  ASSUME KInv, NEW x \in Handlers, Holds(x)
  PROVE  x \in Conns
<1>1. handle[Listener] \notin Fds
  BY KInvFacts, EventHandlersAssumption
<1> QED
  BY <1>1 DEF Holds, Handlers

LEMMA InFlightUdata ==
  ASSUME KInv, NEW e \in InFlight
  PROVE  e \in Kevent /\ e.udata \in Handlers /\ handle[e.udata] = e.ident
BY KInvFacts DEF InFlight, IInv, TypeOK, Kevent, InvEvents

\* Steps that leave the map and the handlers' descriptors alone.
LEMMA ReportedQuiet ==
  ASSUME KInv, InFlight' \subseteq InFlight, kq'.map = kq.map, handle' = handle, owner' = owner,
         \A c \in Conns : /\ peer[c] = "reset" => peer'[c] = "reset"
                          /\ peer[c] \in {"fin", "reset"} => peer'[c] \in {"fin", "reset"},
         \A c \in backlog : c \in backlog' \/ peer'[c] = "reset"
  PROVE  InvReported'
<1>1. \A e \in InFlight' : Holds(e.udata)' => e.udata \in Conns /\ Holds(e.udata)
  <2> SUFFICES ASSUME NEW e \in InFlight', Holds(e.udata)'
               PROVE  e.udata \in Conns /\ Holds(e.udata)
    OBVIOUS
  <2>1. Holds(e.udata) /\ e.udata \in Handlers
    BY InFlightUdata DEF Holds
  <2> QED BY <2>1, HoldsConn
<1> QED
  BY <1>1, ReportedStays

LEMMA CallbackReported ==
  ASSUME KInv, CallbackDone
  PROVE  InvReported'
<1>1. PICK h : h = current.udata
  OBVIOUS
<1>2. /\ current # None /\ current' = None /\ batch' = batch /\ handle' = handle
      /\ backlog' = backlog
      /\ \A c \in Conns : /\ peer[c] = "reset" => peer'[c] = "reset"
                          /\ peer[c] \in {"fin", "reset"} => peer'[c] \in {"fin", "reset"}
  BY DEF CallbackDone, ClientsCallback, OthersKept
<1>3. InFlight' = batch /\ InFlight' \subseteq InFlight
  BY <1>2 DEF InFlight
<1>4. \A e \in batch : e.udata # h /\ e.udata \in Handlers /\ e \in InFlight
  BY <1>1, <1>2, <1>3, KInvFacts, CurrentFacts, InFlightUdata
<1>5. CASE LeavesAll
  BY <1>2, <1>3, <1>5, ReportedQuiet DEF LeavesAll
<1>6. CASE /\ h \in Conns /\ \E w : kq'.map = [kq.map EXCEPT ![h] = w]
           /\ owner' = owner \/ owner' = [owner EXCEPT ![handle[h]] = None]
  <2>1. PICK w : kq'.map = [kq.map EXCEPT ![h] = w]
    BY <1>6
  <2>2. \A e \in InFlight' : kq'.map[e.udata] = kq.map[e.udata]
    BY <1>3, <1>4, <2>1, KInvFacts
  <2>3. \A e \in InFlight' : Holds(e.udata)' => e.udata \in Conns /\ Holds(e.udata)
    <3> SUFFICES ASSUME NEW e \in batch, Holds(e.udata)'
                 PROVE  e.udata \in Conns /\ Holds(e.udata)
      BY <1>3
    <3>1. PICK x : x = e.udata
      OBVIOUS
    <3>2. x \in Handlers /\ handle[x] \in Fds /\ owner'[handle[x]] = x
      BY <1>2, <1>4, <3>1 DEF Holds
    <3>3. x \in Conns /\ x # None
      BY <3>2, KInvFacts, EventHandlersAssumption, SocketsAssumption DEF Handlers
    <3>4. owner[handle[x]] = x
      BY <1>6, <3>2, <3>3, KInvFacts DEF InvBase, SocketsTypeOK
    <3> QED BY <3>1, <3>2, <3>3, <3>4 DEF Holds
  <2> QED BY <1>2, <1>3, <2>2, <2>3, ReportedStays
<1>7. LeavesClosed(h) \/ LeavesWriting(h) \/ LeavesRevived(h) =>
        /\ \E w : kq'.map = [kq.map EXCEPT ![h] = w]
        /\ owner' = owner \/ owner' = [owner EXCEPT ![handle[h]] = None]
  BY DEF LeavesClosed, LeavesWriting, LeavesRevived, ClosesFd
<1> QED
  BY <1>1, <1>5, <1>6, <1>7 DEF CallbackDone

LEMMA AdmitReported ==
  ASSUME KInv, AdmitDone
  PROVE  InvReported'
<1>1. PICK c \in backlog, f \in FreeFds :
        Accept(c, f) /\ kq'.map = [kq.map EXCEPT ![c] = Reading]
  BY DEF AdmitDone
<1>2. /\ c \in Conns /\ kq.map[c] = {} /\ f \in Fds /\ owner[f] = None
      /\ owner \in [Fds -> Conns \cup {None}]
      /\ handle \in [Handlers -> Fds \cup {Listener, None}]
  BY KInvFacts DEF InvBase, SocketsTypeOK, HandlersTypeOK, FreeFds
<1>3. /\ current # None /\ current.udata = Listener /\ current' = None /\ batch' = batch
  BY DEF AdmitDone
<1>4. InFlight' = batch /\ InFlight' \subseteq InFlight
  BY <1>3 DEF InFlight
<1>5. \A e \in batch : /\ e.udata # Listener /\ e.udata \in Handlers /\ e.udata # c
                       /\ e.udata \in Conns
  <2> SUFFICES ASSUME NEW e \in batch
               PROVE  e.udata # Listener /\ e.udata \in Handlers /\ e.udata # c
    BY DEF Handlers
  <2>1. e.udata # Listener /\ e.udata \in Handlers
    BY <1>3, <1>4, KInvFacts, CurrentFacts, InFlightUdata
  <2>2. Registered(e.udata)
    BY <1>4, KInvFacts DEF IInv, InvEvents
  <2> QED BY <1>2, <2>1, <2>2 DEF Registered
<1>6. \A e \in InFlight' : kq'.map[e.udata] = kq.map[e.udata]
  BY <1>1, <1>4, <1>5, KInvFacts
<1>7. \A e \in InFlight' : Holds(e.udata)' => e.udata \in Conns /\ Holds(e.udata)
  <2> SUFFICES ASSUME NEW e \in batch, Holds(e.udata)' PROVE Holds(e.udata)
    BY <1>4, <1>5
  <2>1. handle' = [handle EXCEPT ![c] = f] /\ owner' = [owner EXCEPT ![f] = c]
    BY <1>1 DEF Accept
  <2>2. handle'[e.udata] = handle[e.udata]
    BY <1>2, <1>5, <2>1
  <2>3. handle[e.udata] \in Fds /\ owner'[handle[e.udata]] = e.udata
    BY <2>2 DEF Holds
  <2>4. owner[handle[e.udata]] = e.udata
    BY <1>2, <1>5, <2>1, <2>3
  <2> QED BY <2>3, <2>4 DEF Holds
<1>8. peer' = peer
  BY <1>1 DEF Accept
<1> QED
  BY <1>4, <1>5, <1>6, <1>7, <1>8, ReportedStays

\* What kevent() returns is true when it returns it.
LEMMA CollectReported ==
  ASSUME KInv, Collect
  PROVE  InvReported'
<1>1. /\ kq.changes = <<>> /\ kq' = kq /\ handle' = handle /\ owner' = owner /\ peer' = peer
      /\ backlog' = backlog /\ InFlight' \subseteq Ready
  BY DEF Collect, AtKevent, sockVars, handlerVars, InFlight
<1> SUFFICES ASSUME NEW e \in Ready
             PROVE  /\ Wants(e.udata, e.filter)
                    /\ e.eof /\ Holds(e.udata) => peer[e.udata] \in {"fin", "reset"}
                    /\ e.udata = Listener => backlog # {}
  BY <1>1 DEF InvReported, Wants, Holds
<1>2. PICK i \in Idents, flt \in Filters : e = EventOf(i, flt) /\ Reports(i, flt)
  BY DEF Ready
<1>3. e.ident = i /\ e.filter = flt /\ e.udata = knote[i][flt] /\ e.eof = Eof(i, flt)
  BY <1>2 DEF EventOf
<1>4. Wants(e.udata, e.filter) /\ handle[e.udata] = i
  BY <1>1, <1>3, KInvFacts, ReadyIsWanted
<1>5. ASSUME e.eof, Holds(e.udata) PROVE peer[e.udata] \in {"fin", "reset"}
  <2>1. owner[i] = e.udata
    BY <1>4, <1>5 DEF Holds
  <2> QED BY <1>3, <1>5, <2>1 DEF Eof, AtEof
<1>6. ASSUME e.udata = Listener PROVE backlog # {}
  BY <1>2, <1>4, <1>6, KInvFacts DEF Reports
<1> QED
  BY <1>4, <1>5, <1>6

----------------------------------------------------------------------------
(* How many events a list has.                                             *)

LEMMA IdentsFinite == IsFiniteSet(Idents) /\ Cardinality(Idents) \in Nat
BY SocketsAssumption, FS_AddElement, FS_CardinalityType DEF Idents

\* Two events for one descriptor would be its owner's, which waits for one
\* filter at a time.
LEMMA ReadyOnce ==
  ASSUME KInv, Clean, kq.changes = <<>>, NEW a \in Ready, NEW b \in Ready, a.ident = b.ident
  PROVE  a = b
<1>1. ASSUME NEW e \in Ready
      PROVE  /\ e.udata \in Handlers /\ e.filter \in Filters /\ Wants(e.udata, e.filter)
             /\ e = EventOf(e.ident, e.filter) /\ handle[e.udata] = e.ident
             /\ Registered(e.udata)
  BY KInvFacts, ReadyIsWanted DEF Kevent
<1>2. ASSUME NEW e \in Ready
      PROVE  \/ e.udata = Listener /\ e.ident = Listener
             \/ e.ident \in Fds /\ owner[e.ident] = e.udata
  BY <1>1, RegisteredOwns
<1>3. a.udata = b.udata
  BY <1>2, EventHandlersAssumption
<1>4. a.filter = b.filter
  BY <1>1, <1>3, KInvFacts, OneWait
<1> QED
  BY <1>1, <1>4

\* A list fits into a set that its events can be told apart in.
LEMMA CollectFits ==
  ASSUME KInv, Collect, NEW T, IsFiniteSet(T), NEW fn \in Injection(batch', T)
  PROVE  BatchWithin(Cardinality(T))'
<1>1. dispatched' = 0
  BY DEF Collect
<1>2. PICK b : b = batch'
  OBVIOUS
<1>3. IsFiniteSet(b) /\ Cardinality(b) <= Cardinality(T)
  BY <1>2, FS_Injection
<1>4. Cardinality(b) \in Nat
  BY <1>3, FS_CardinalityType
<1> QED
  BY <1>1, <1>2, <1>3, <1>4 DEF BatchWithin

LEMMA CollectBatch ==
  ASSUME KInv, Collect
  PROVE  InvBatchAny' /\ (Clean => InvBatch')
<1>1. kq.changes = <<>> /\ batch' \subseteq Ready
  BY DEF Collect
<1>2. PICK b : b = batch'
  OBVIOUS
<1>3. \A e \in b : /\ e.ident \in Idents /\ e.filter \in Filters
                   /\ e = EventOf(e.ident, e.filter)
  BY <1>1, <1>2, KInvFacts, ReadyIsWanted DEF Kevent
<1>4. ASSUME Clean PROVE InvBatch'
  <2> DEFINE fn == [e \in b |-> e.ident]
  <2>1. fn \in [b -> Idents] /\ \A x, y \in b : fn[x] = fn[y] => x = y
    BY <1>1, <1>2, <1>3, <1>4, ReadyOnce
  <2>2. fn \in Injection(b, Idents)
    BY <2>1 DEF Injection, IsInjective
  <2> HIDE DEF fn
  <2> QED BY <1>2, <2>2, IdentsFinite, CollectFits DEF InvBatch
<1>5. InvBatchAny'
  <2> DEFINE fn == [e \in b |-> <<e.ident, e.filter>>]
  <2>1. fn \in [b -> Idents \X Filters] /\ \A x, y \in b : fn[x] = fn[y] => x = y
    BY <1>3
  <2>2. fn \in Injection(b, Idents \X Filters)
    BY <2>1 DEF Injection, IsInjective
  <2>3. IsFiniteSet(Filters) /\ Cardinality(Filters) = 2
    <3>1. IsFiniteSet({"EVFILT_READ"}) /\ Cardinality({"EVFILT_READ"}) = 1
      BY FS_Singleton
    <3>2. {"EVFILT_READ"} \cup {"EVFILT_WRITE"} = Filters /\ "EVFILT_WRITE" \notin {"EVFILT_READ"}
      BY DEF Filters
    <3> QED BY <3>1, <3>2, FS_AddElement
  <2>4. /\ IsFiniteSet(Idents \X Filters)
        /\ Cardinality(Idents \X Filters) = 2 * Cardinality(Idents)
    <3>1. /\ IsFiniteSet(Idents \X Filters)
          /\ Cardinality(Idents \X Filters) = Cardinality(Idents) * Cardinality(Filters)
      BY <2>3, IdentsFinite, FS_Product
    <3>2. Cardinality(Idents) * Cardinality(Filters) = 2 * Cardinality(Idents)
      BY <2>3, IdentsFinite
    <3> QED BY <3>1, <3>2
  <2> HIDE DEF fn
  <2> QED BY <1>2, <2>2, <2>4, CollectFits DEF InvBatchAny
<1> QED
  BY <1>4, <1>5

\* The events dispatched are those that have left the list, or fewer.
LEMMA WalkBatch ==
  ASSUME KInv, NEW n \in Nat, BatchWithin(n), Advance \/ LoseRest
  PROVE  BatchWithin(n)'
<1>1. Cardinality(batch) \in Nat /\ dispatched \in Nat
  BY FS_CardinalityType, KInvFacts DEF BatchWithin, IInv, TypeOK
<1>2. CASE Advance
  <2>1. PICK e \in batch : batch' = batch \ {e}
    BY <1>2 DEF Advance
  <2>2. IsFiniteSet(batch') /\ Cardinality(batch') = Cardinality(batch) - 1
    BY <2>1, FS_RemoveElement DEF BatchWithin
  <2>3. dispatched' = dispatched + 1
    BY <1>2 DEF Advance
  <2> QED BY <1>1, <2>2, <2>3 DEF BatchWithin
<1>3. CASE LoseRest
  <2>1. batch' = {} /\ dispatched' = dispatched
    BY <1>3 DEF LoseRest
  <2>2. IsFiniteSet(batch') /\ Cardinality(batch') = 0
    BY <2>1, FS_EmptySet
  <2> QED BY <1>1, <2>1, <2>2 DEF BatchWithin
<1> QED
  BY <1>2, <1>3

\* So they are after a step that leaves the list alone.
LEMMA BatchStays ==
  ASSUME KInv, batch' = batch, dispatched' = dispatched
  PROVE  InvBatchAny' /\ (Clean => InvBatch')
BY DEF KInv, InvBatch, InvBatchAny, BatchWithin

----------------------------------------------------------------------------
(* Each step keeps the invariant.                                          *)

Kept ==
  /\ InvReported' /\ InvBatchAny'
  /\ Clean /\ Clean' => InvSync' /\ InvPending' /\ InvBatch'

LEMMA SubmitKeeps ==
  ASSUME KInv, Submit
  PROVE  Kept /\ HandlersStep(kq.map, kq'.map)
<1>1. /\ UNCHANGED sockVars /\ UNCHANGED handlerVars /\ kq'.map = kq.map
      /\ InFlight' = {} /\ batch' = batch /\ dispatched' = dispatched
  BY KInvFacts DEF Submit, AtKevent, InFlight, Dispatcher
<1>2. InvReported'
  BY <1>1 DEF InvReported
<1>3. InvBatchAny' /\ (Clean => InvSync' /\ InvPending' /\ InvBatch')
  BY <1>1, SubmitSync, BatchStays DEF KInv
<1>4. HandlersStep(kq.map, kq'.map)
  BY <1>1 DEF HandlersStep, DoesNothing
<1> QED
  BY <1>2, <1>3, <1>4 DEF Kept

\* What is left to say of a step that only moves along the list.
LEMMA QuietKeeps ==
  ASSUME KInv, Collect \/ Advance \/ LoseRest \/ UNCHANGED vars
  PROVE  Kept /\ HandlersStep(kq.map, kq'.map)
<1>1. /\ UNCHANGED sockVars /\ UNCHANGED handlerVars /\ kq' = kq /\ knote' = knote
      /\ handle' = handle /\ owner' = owner /\ peer' = peer /\ backlog' = backlog
  BY DEF Collect, Advance, LoseRest, vars, reactorVars, sockVars, handlerVars
<1>2. CASE Collect
  <2>1. InvBatchAny' /\ (Clean => InvBatch')
    BY <1>2, CollectBatch
  <2>2. Clean => InvSync' /\ InvPending'
    BY <1>1, SyncStays DEF KInv
  <2>3. HandlersStep(kq.map, kq'.map)
    BY <1>1 DEF HandlersStep, DoesNothing
  <2> QED BY <1>2, <2>1, <2>2, <2>3, CollectReported DEF Kept
<1>3. CASE Advance \/ LoseRest \/ UNCHANGED vars
  <2>1. InFlight' \subseteq InFlight
    BY <1>3 DEF Advance, LoseRest, vars, reactorVars, InFlight
  <2>2. InvReported'
    BY <1>1, <2>1, ReportedQuiet
  <2>3. InvBatchAny' /\ (Clean => InvBatch')
    <3>1. CASE Advance \/ LoseRest
      <4>1. Cardinality(Idents) \in Nat /\ 2 * Cardinality(Idents) \in Nat
        BY IdentsFinite
      <4> QED BY <3>1, <4>1, WalkBatch DEF KInv, InvBatch, InvBatchAny
    <3>2. CASE UNCHANGED vars
      <4>1. batch' = batch /\ dispatched' = dispatched
        BY <3>2 DEF vars, reactorVars
      <4> QED BY <4>1, BatchStays
    <3> QED BY <1>3, <3>1, <3>2
  <2>4. Clean => InvSync' /\ InvPending'
    BY <1>1, SyncStays DEF KInv
  <2>5. HandlersStep(kq.map, kq'.map)
    BY <1>1 DEF HandlersStep, DoesNothing
  <2> QED BY <2>2, <2>3, <2>4, <2>5 DEF Kept
<1> QED
  BY <1>2, <1>3

LEMMA OutsideKeeps ==
  ASSUME KInv, Outside
  PROVE  Kept /\ HandlersStep(kq.map, kq'.map)
<1>1. /\ server = "running" /\ ClientStep /\ UNCHANGED handlerVars /\ UNCHANGED reactorVars
      /\ kq' = kq /\ knote' = knote /\ batch' = batch /\ current' = current
      /\ dispatched' = dispatched /\ handle' = handle
  BY DEF Outside, reactorVars, handlerVars
<1>2. HandlersStep(kq.map, kq'.map)
  BY <1>1 DEF HandlersStep, ClientDoes
<1>3. SocketsTypeOK
  BY KInvFacts DEF InvBase
<1>4. /\ owner' = owner
      /\ \A c \in Conns : /\ peer[c] = "reset" => peer'[c] = "reset"
                          /\ peer[c] \in {"fin", "reset"} => peer'[c] \in {"fin", "reset"}
      /\ \A c \in backlog : c \in backlog' \/ peer'[c] = "reset"
  <2>1. PICK c \in Conns :
          Connect(c) \/ Send(c) \/ Fin(c) \/ Reset(c) \/ Stall(c) \/ Abort(c)
    BY <1>1 DEF ClientStep
  <2>2. CASE Connect(c)
    BY <1>3, <2>2 DEF SocketsTypeOK, Connect
  <2>3. CASE Send(c)
    BY <2>3 DEF Send
  <2>4. CASE Fin(c) \/ Stall(c)
    BY <1>3, <2>4 DEF SocketsTypeOK, Fin, Stall
  <2>5. CASE Reset(c) \/ Abort(c)
    BY <1>3, <2>5 DEF SocketsTypeOK, Reset, Abort
  <2> QED BY <2>1, <2>2, <2>3, <2>4, <2>5
<1>5. InFlight' = InFlight
  BY <1>1 DEF InFlight
<1>6. InvReported'
  BY <1>1, <1>4, <1>5, ReportedQuiet
<1>7. Clean => InvSync' /\ InvPending'
  BY <1>1, <1>4, SyncStays DEF KInv
<1>8. InvBatchAny' /\ (Clean => InvBatch')
  BY <1>1, BatchStays
<1> QED
  BY <1>2, <1>6, <1>7, <1>8 DEF Kept

LEMMA CallbackKeeps ==
  ASSUME KInv, Callback
  PROVE  Kept /\ HandlersStep(kq.map, kq'.map)
<1>1. CallbackDone \/ AdmitDone
  BY HandleAcceptDoes, HandleReadDoes, HandleWriteDoes, HandleCloseDoes, NothingToDoDoes
     DEF Callback
<1>2. HandlersStep(kq.map, kq'.map) /\ batch' = batch /\ dispatched' = dispatched
  BY <1>1 DEF CallbackDone, AdmitDone, ClientsCallback, OthersKept
<1>3. InvReported'
  BY <1>1, CallbackReported, AdmitReported
<1>4. ASSUME Clean, Clean' PROVE InvSync' /\ InvPending'
  <2>1. InvSync /\ InvPending
    BY <1>4 DEF KInv
  <2>2. CASE AdmitDone
    BY <1>4, <2>2, AcceptSync
  <2>3. CASE CallbackDone
    <3>1. current # None /\ handle' = handle
      BY <2>3 DEF CallbackDone, ClientsCallback, OthersKept
    <3>2. CASE LeavesAll
      BY <2>1, <3>1, <3>2, SyncStays DEF LeavesAll
    <3>3. CASE current.udata \in Conns /\ LeavesClosed(current.udata)
      BY <1>4, <3>1, <3>3, CloseSync
    <3>4. CASE /\ current.udata \in Conns /\ kq.map[current.udata] = Reading
               /\ LeavesWriting(current.udata)
      BY <1>4, <3>1, <3>4, ReplySync
    <3>5. ~LeavesRevived(current.udata)
      BY <1>4 DEF LeavesRevived
    <3> QED BY <2>3, <3>2, <3>3, <3>4, <3>5 DEF CallbackDone
  <2> QED BY <1>1, <2>2, <2>3
<1>5. InvBatchAny' /\ (Clean => InvBatch')
  BY <1>2, BatchStays
<1> QED
  BY <1>2, <1>3, <1>4, <1>5 DEF Kept

\* The handlers' part of the invariant, for any step of theirs.
LEMMA HandlersMove ==
  ASSUME HInv(kq.map), HandlersStep(kq.map, kq'.map)
  PROVE  HInv(kq.map)' /\ (Clean' => Clean)
<1>1. PICK M : M = kq.map
  OBVIOUS
<1>2. PICK N : N = kq'.map
  OBVIOUS
<1>3. HInv(M) /\ HandlersStep(M, N)
  BY <1>1, <1>2
<1>4. HInv(N)' /\ (Clean' => Clean)
  BY <1>3, HandlersKeep, BaseKeeps DEF HInv
<1>5. HInv(kq.map)'
  BY <1>2, <1>4 DEF HInv, InvBase, InvClean, InvLinked
<1> QED
  BY <1>4, <1>5

\* Walking through freed memory ends the process and touches nothing else.
LEMMA WalkFreedKeeps ==
  ASSUME KInv, WalkFreed
  PROVE  KInv'
<1>1. /\ UNCHANGED sockVars /\ UNCHANGED <<handle, got, wrote, delivered, file>>
      /\ UNCHANGED reactorVars /\ server' = "aborted" /\ moved
  BY DEF WalkFreed
<1>2. /\ kq' = kq /\ knote' = knote /\ batch' = batch /\ current' = current
      /\ dispatched' = dispatched /\ moved' = moved /\ handle' = handle /\ owner' = owner
      /\ peer' = peer /\ backlog' = backlog /\ got' = got /\ request' = request
      /\ wrote' = wrote /\ delivered' = delivered /\ file' = file /\ unsent' = unsent
      /\ inbox' = inbox
  BY <1>1 DEF sockVars, reactorVars
<1>3. IInv'
  BY WalkFreedStep DEF KInv
<1>4. (Clean' <=> Clean) /\ (RevivedMeetNoFiles' <=> RevivedMeetNoFiles)
  BY <1>2 DEF Clean, RevivedMeetNoFiles
<1>5. InvBase(kq.map)'
  BY <1>1, <1>2, KInvFacts DEF InvBase, SocketsTypeOK, HandlersTypeOK
<1>6. ASSUME Clean PROVE InvClean(kq.map)'
  <2>1. InvClean(kq.map)
    BY <1>6 DEF KInv, HInv
  <2>2. InvTable' /\ InvSegments'
    BY <1>2, <2>1 DEF InvClean, InvTable, InvSegments, Holds, Total
  <2>3. InvResponses' /\ InvLinked(kq.map)'
    BY <1>2, <2>1 DEF InvClean, InvResponses, InvLinked, Holds, Total
  <2> QED BY <2>2, <2>3 DEF InvClean
<1>7. InvReported' /\ InvBatchAny' /\ (Clean => InvSync' /\ InvPending' /\ InvBatch')
  <2>1. InFlight' \subseteq InFlight
    BY <1>2 DEF InFlight
  <2>2. InvReported'
    BY <1>2, <2>1, ReportedQuiet
  <2>3. Clean => InvSync' /\ InvPending'
    BY <1>2, SyncStays DEF KInv
  <2>4. InvBatchAny' /\ (Clean => InvBatch')
    BY <1>2, BatchStays
  <2> QED BY <2>2, <2>3, <2>4
<1> QED
  BY <1>1, <1>2, <1>3, <1>4, <1>5, <1>6, <1>7 DEF KInv, HInv

\* Nothing happens once the process has ended.
LEMMA RunsOn == Next => server = "running"
BY DEF Next, ServerStep, Callback, Outside, AtKevent, Submit, Collect, Advance, LoseRest,
       WalkFreed, HandleAccept, HandleRead, HandleWrite, HandleClose, NothingToDo

LEMMA StepKeeps ==
  ASSUME KInv, [Next]_vars, ~WalkFreed
  PROVE  Kept /\ HandlersStep(kq.map, kq'.map)
BY SubmitKeeps, QuietKeeps, OutsideKeeps, CallbackKeeps DEF Next, ServerStep

LEMMA KInvNext ==
  ASSUME KInv, [Next]_vars
  PROVE  KInv'
<1>1. IInv'
  BY IInvNext DEF KInv
<1>2. CASE WalkFreed
  BY <1>2, WalkFreedKeeps
<1>3. CASE ~WalkFreed
  <2>1. Kept /\ HandlersStep(kq.map, kq'.map) /\ HInv(kq.map)
    BY <1>3, StepKeeps DEF KInv
  <2>2. HInv(kq.map)' /\ (Clean' => Clean)
    BY <2>1, HandlersMove
  <2> QED BY <1>1, <2>1, <2>2 DEF Kept, KInv
<1> QED
  BY <1>2, <1>3

LEMMA KInvInit ==
  ASSUME Init
  PROVE  KInv
<1> DEFINE d == [map |-> [h \in Handlers |-> {}], changes |-> <<>>, size |-> KeventSize]
           M == [h \in Handlers |-> IF h = Listener THEN Listening ELSE {}]
           c == [flags |-> "EV_ADD", ident |-> Listener, filter |-> "EVFILT_READ",
                 udata |-> Listener]
<1>1. /\ c.flags = "EV_ADD" /\ c.ident = Listener /\ c.filter = "EVFILT_READ"
      /\ c.udata = Listener
  OBVIOUS
<1>2. /\ d \in Dispatcher /\ Listener \in Handlers /\ Listener \in Idents
      /\ "EVFILT_READ" \in Filters
      /\ {"ACCEPT", "CLOSE"} \in SUBSET ALL_EVENTS
  BY KeventSizeAssumption DEF Dispatcher, Handlers, Idents, Filters, ALL_EVENTS
<1>3. /\ c \in Change /\ kq.changes = Append(<<>>, c) /\ kq.map = M
  <2>1. kq = RegisterHandler(d, Listener, Listener, {"ACCEPT", "CLOSE"})
    BY DEF Init
  <2> HIDE DEF d
  <2>2. /\ c \in Change /\ kq.changes = Append(d.changes, c)
        /\ kq.map = [d.map EXCEPT ![Listener] = @ \cup {"ACCEPT", "CLOSE"}]
    BY <1>2, <2>1, OneFilter, Registers
  <2>3. d.changes = <<>> /\ d.map = [h \in Handlers |-> {}]
    BY DEF d
  <2>4. kq.map = M
    BY <1>2, <2>2, <2>3 DEF Listening
  <2> QED BY <2>2, <2>3, <2>4
<1>4. HInv(kq.map)
  <2>1. PICK N : N = kq.map
    OBVIOUS
  <2>2. HInv(N)
    BY <1>3, <2>1, InitKeeps DEF Init
  <2> QED BY <2>1, <2>2
<1>5. InvReported
  BY DEF Init, InFlight, InvReported
<1> HIDE DEF d, c, M
<1>6. InvSync
  <2> SUFFICES ASSUME NEW h \in Handlers, NEW flt \in Filters, Wants(h, flt)
               PROVE  Applied(handle[h], flt) = h
    BY DEF InvSync
  <2>1. h = Listener /\ flt = "EVFILT_READ"
    BY <1>2, <1>3 DEF M, Wants, Listening, Filters
  <2>2. handle[h] = Listener /\ Open(Listener) = TRUE
    BY <2>1 DEF Init, HandlersInit, Handlers, Open
  <2>3. Taken(Append(<<>>, c), c.ident, c.filter, knote[Listener]["EVFILT_READ"], TRUE) = c.udata
    <3>1. c.flags = "EV_ADD" /\ <<>> \in Seq(Change)
      BY <1>1
    <3> QED BY <1>3, <3>1, TakenAdd
  <2>4. c.ident = Listener /\ c.filter = "EVFILT_READ" /\ c.udata = Listener
    BY <1>1
  <2> QED BY <1>3, <2>1, <2>2, <2>3, <2>4, AppliedTakes
<1>7. InvPending
  <2>1. Len(kq.changes) = 1 /\ kq.changes[1].flags = "EV_ADD"
    BY <1>1, <1>3
  <2> QED BY <2>1 DEF InvPending
<1>8. InvBatch /\ InvBatchAny
  <2>1. batch = {} /\ dispatched = 0
    BY DEF Init
  <2>2. IsFiniteSet(batch) /\ Cardinality(batch) = 0
    BY <2>1, FS_EmptySet
  <2> QED BY <2>1, <2>2, IdentsFinite DEF InvBatch, InvBatchAny, BatchWithin
<1> QED
  BY <1>4, <1>5, <1>6, <1>7, <1>8, InitIInv DEF KInv

\* The invariant holds of every state of every execution.
LEMMA Inductive == Spec => []KInv
<1>1. KInv /\ [Next]_vars => KInv'
  BY KInvNext
<1> QED
  BY <1>1, KInvInit, PTL DEF Spec

----------------------------------------------------------------------------
(* The theorems.  Those that need it say that no handler was revived: it   *)
(* would have the descriptor that it closed, and that is another           *)
(* connection's by then or nobody's.                                       *)

\* Between any two callbacks the map and the kernel agree on who waits for what,
\* once the pending changes are taken: no client is forgotten and no event
\* comes that no handler wants.
THEOREM KernelFollowsMap == Spec => [](Clean => InterestInSync)
<1>1. ASSUME KInv, Clean PROVE InterestInSync
  <2>1. InvSync /\ IInv
    BY <1>1 DEF KInv
  <2>2. ASSUME NEW h \in Handlers, NEW flt \in Filters, Registered(h)
        PROVE  Applied(handle[h], flt) = h <=> Wants(h, flt)
    <3>1. Wants(h, flt) => Applied(handle[h], flt) = h
      BY <2>1 DEF InvSync
    <3>2. ASSUME Applied(handle[h], flt) = h PROVE Wants(h, flt)
      <4>1. handle[h] \in Idents /\ h # None
        BY <1>1, <2>2, RegisteredOwns
      <4> QED BY <2>1, <3>2, <4>1, AppliedIsWanted
    <3> QED BY <3>1, <3>2
  <2>3. ASSUME NEW i \in Idents, NEW flt \in Filters, Applied(i, flt) # None
        PROVE  Registered(Applied(i, flt)) /\ handle[Applied(i, flt)] = i
    BY <2>1, <2>3, AppliedIsWanted
  <2> QED BY <2>2, <2>3 DEF InterestInSync
<1> QED
  BY <1>1, Inductive, PTL

\* No change that is submitted to kevent() fails: what it adds a filter to is
\* open, and what it deletes is there (ClientEventHandler::closeConnection).
THEOREM NoChangeFails == Spec => [](Clean => ChangesSucceed)
<1>1. ASSUME KInv, Clean PROVE ChangesSucceed
  <2> SUFFICES ASSUME NEW k \in 1 .. Len(kq.changes), NEW c, c = kq.changes[k]
               PROVE  IF c.flags = "EV_ADD" THEN Open(c.ident)
                      ELSE \/ knote[c.ident][c.filter] # None
                           \/ \E j \in 1 .. k - 1 :
                                /\ kq.changes[j].flags = "EV_ADD"
                                /\ kq.changes[j].ident = c.ident
                                /\ kq.changes[j].filter = c.filter
    BY DEF ChangesSucceed
  <2>1. c \in Change
    BY <1>1, KInvFacts DEF Dispatcher
  <2>2. CASE c.flags = "EV_ADD"
    <3>1. c.udata \in Handlers /\ Registered(c.udata) /\ handle[c.udata] = c.ident
      BY <1>1, <2>2 DEF KInv, IInv, InvChanges
    <3>2. Open(handle[c.udata]) = TRUE
      BY <1>1, <3>1, RegisteredOwns
    <3> QED BY <2>2, <3>1, <3>2
  <2>3. CASE c.flags = "EV_DELETE"
    BY <1>1, <2>3 DEF KInv, InvPending
  <2> QED BY <2>1, <2>2, <2>3 DEF Change
<1> QED
  BY <1>1, Inductive, PTL

\* A client's handler is in the map exactly while it owns an open descriptor,
\* and its file is open no longer than that.
THEOREM NothingLeaks == Spec => [](Clean => NoLeak)
<1>1. ASSUME KInv, Clean PROVE NoLeak
  <2>1. PICK M : M = kq.map
    OBVIOUS
  <2>2. InvBase(M) /\ InvClean(M)
    BY <1>1, <2>1 DEF KInv, HInv
  <2> QED BY <2>1, <2>2, CleanPromises DEF NoLeak, Registered
<1> QED
  BY <1>1, Inductive, PTL

\* What is sent on a connection answers the request it carried, read whole,
\* although descriptors are reused as soon as they are closed.
THEOREM AnswersItsOwn == Spec => [](Clean => OwnResponse)
<1>1. ASSUME KInv, Clean PROVE OwnResponse
  <2>1. PICK M : M = kq.map
    OBVIOUS
  <2>2. InvBase(M) /\ InvClean(M)
    BY <1>1, <2>1 DEF KInv, HInv
  <2> QED BY <2>2, CleanPromises DEF OwnResponse
<1> QED
  BY <1>1, Inductive, PTL

\* accept() is called with a connection to return, unless a connection was
\* aborted before it was accepted (the comment at ListenEventHandler.cpp:57).
THEOREM AcceptsOrAborted == Spec => []AcceptBlocksForAbort
<1>1. ASSUME KInv PROVE AcceptBlocksForAbort
  <2> SUFFICES ASSUME current # None, ToAccept(current)
               PROVE  backlog # {} \/ \E c \in Conns : peer[c] = "reset" /\ handle[c] = None
    BY DEF AcceptBlocksForAbort
  <2>1. current \in InFlight /\ "ACCEPT" \in kq.map[current.udata]
    BY DEF InFlight, ToAccept, Interest
  <2>2. current.udata = Listener
    BY <1>1, <2>1, ClientsTurn DEF Reading, Writing
  <2> QED BY <1>1, <2>1, <2>2 DEF KInv, InvReported
<1> QED
  BY <1>1, Inductive, PTL

\* What the proofs below say of a callback that ends the process.
EndsFor == current # None /\ MayEnd(current.udata)

LEMMA AcceptEnds ==
  ASSUME KInv, HandleAccept, server' # server
  PROVE  EndsFor
<1>1. PICK h : h = current.udata
  OBVIOUS
<1>2. current # None /\ "ACCEPT" \in kq.map[h]
  BY <1>1 DEF HandleAccept, ToAccept, Interest
<1>3. h = Listener
  BY <1>1, <1>2, ClientsTurn DEF Reading, Writing
<1>4. backlog # {} /\ FreeFds = {} /\ Fatal
  BY DEF HandleAccept, Accept
<1> QED
  BY <1>1, <1>2, <1>3, <1>4 DEF EndsFor, MayEnd, Fatal

LEMMA ReadEnds ==
  ASSUME KInv, HandleRead, server' # server
  PROVE  EndsFor
<1>1. PICK h : h = current.udata
  OBVIOUS
<1>2. /\ current # None /\ "READ" \in kq.map[h] /\ ~NoPeer(current.ident)
      /\ \/ \E n \in Receivable(handle[h]) : \E v \in ReadVerdicts(h, n) : Read(h, n, v)
         \/ ReadFails(h)
  BY <1>1 DEF HandleRead, ToRead, Interest
<1>3. h # Listener
  BY <1>1, <1>2, KInvFacts, Interests
<1>4. /\ h \in Conns /\ handle[h] \in Fds /\ handle[h] = current.ident /\ kq.map[h] # {}
  BY <1>1, <1>2, <1>3, ClientsTurn, Interests
<1>5. owner[handle[h]] # None
  BY <1>2, <1>4, EventHandlersAssumption DEF NoPeer, PeerNameFails
<1>6. PICK M : M = kq.map
  OBVIOUS
<1>7. HInv(M) /\ M[h] # {}
  BY <1>4, <1>6 DEF KInv
<1>8. MayEnd(h)
  BY <1>2, <1>4, <1>5, <1>7, ReadMayEnd, FailMayEnd
<1> QED
  BY <1>1, <1>2, <1>8 DEF EndsFor

LEMMA WriteEnds ==
  ASSUME KInv, HandleWrite, server' # server
  PROVE  EndsFor
<1>1. PICK h : h = current.udata
  OBVIOUS
<1>2. /\ current # None /\ "WRITE" \in kq.map[h]
      /\ ProcessThrows(h) \/ (SendFails(handle[h]) /\ Fatal)
  <2>1. ProcessThrows(h) \/ Write(h) \/ (SendFails(handle[h]) /\ Fatal)
    BY <1>1 DEF HandleWrite
  <2>2. ASSUME Write(h) PROVE FALSE
    <3>1. server' = server
      BY <2>2 DEF Write
    <3> QED BY <3>1
  <2> QED BY <1>1, <2>1, <2>2 DEF HandleWrite, ToWrite, Interest
<1>3. h # Listener
  BY <1>1, <1>2, KInvFacts, Interests
<1>4. h \in Conns /\ kq.map[h] = Writing /\ kq.map[h] # {}
  BY <1>1, <1>2, <1>3, ClientsTurn, Interests
<1>5. PICK M : M = kq.map
  OBVIOUS
<1>6. HInv(M) /\ M[h] = Writing /\ M[h] # {}
  BY <1>4, <1>5 DEF KInv
<1>7. Fatal => peer' = peer
  BY DEF Fatal, sockVars
<1>8. MayEnd(h)
  BY <1>2, <1>4, <1>6, <1>7, ThrowMayEnd, SendMayEnd
<1> QED
  BY <1>1, <1>2, <1>8 DEF EndsFor

LEMMA NothingEnds ==
  ASSUME KInv, NothingToDo
  PROVE  EndsFor
<1>1. PICK h : h = current.udata
  OBVIOUS
<1>2. /\ current # None /\ h \in Conns /\ kq.map[h] # {} /\ SendFails(handle[h])
      /\ peer' = peer
  BY <1>1, NothingFits
<1>3. PICK M : M = kq.map
  OBVIOUS
<1>4. HInv(M) /\ M[h] # {}
  BY <1>2, <1>3 DEF KInv
<1>5. MayEnd(h)
  BY <1>2, <1>4, SendMayEnd
<1> QED
  BY <1>1, <1>2, <1>5 DEF EndsFor

LEMMA OthersEndNothing ==
  ASSUME server' # server, [Next]_vars
  PROVE  \/ HandleAccept \/ HandleRead \/ HandleWrite \/ NothingToDo
         \/ WalkFreed
<1>1. ~UNCHANGED vars
  BY DEF vars, handlerVars
<1>2. ~Submit /\ ~Collect /\ ~Advance /\ ~LoseRest /\ ~Outside
  BY DEF Submit, Collect, Advance, LoseRest, Outside, handlerVars
<1>3. ~HandleClose
  BY DEF HandleClose, Close
<1> QED
  BY <1>1, <1>2, <1>3 DEF Next, ServerStep, Callback

\* The process ends in no step but those that DiesForCause lists: handleEvents
\* never runs out of things to do with an event for any other reason than that
\* its own connection was reset or a handler was revived, and no callback ends
\* the process for what happened to another connection.  HandlersInit is all that
\* is asked of the requests, and nothing of the faults.
THEOREM EndsKnown == Spec => DiesForCause
<1>1. ASSUME KInv, [Next]_vars, server' # server
      PROVE  IF current = None THEN moved ELSE MayEnd(current.udata)
  <2>1. CASE WalkFreed
    BY <2>1 DEF WalkFreed
  <2>2. CASE HandleAccept \/ HandleRead \/ HandleWrite \/ NothingToDo
    BY <1>1, <2>2, AcceptEnds, ReadEnds, WriteEnds, NothingEnds DEF EndsFor
  <2> QED BY <1>1, <2>1, <2>2, OthersEndNothing
<1> QED
  BY <1>1, Inductive, PTL DEF Spec, DiesForCause

\* A list that has room for twice as many changes as it can have events never
\* moves while it is walked.
Roomy == KeventSize > 2 * Cardinality(Idents)
RoomyForAny == KeventSize > 2 * (2 * Cardinality(Idents))

LEMMA RoomyStays ==
  ASSUME KInv, NEW n \in Nat, BatchWithin(n), KeventSize > 2 * n
  PROVE  ~moved
<1>1. /\ dispatched \in Nat /\ Cardinality(batch) \in Nat /\ KeventSize \in Nat
      /\ dispatched + Cardinality(batch) <= n
      /\ moved => 2 * dispatched >= KeventSize
  BY FS_CardinalityType, KInvFacts, KeventSizeAssumption
     DEF BatchWithin, IInv, TypeOK, InvVectors
<1> QED
  BY <1>1

\* As long as no handler was revived, m_keventList is not reallocated under
\* activeKevent if it has at the start (64 in the code) room for more than two
\* changes per descriptor.
THEOREM StaysPut == ASSUME Roomy PROVE Spec => [](Clean => ~moved)
<1>1. ASSUME KInv, Clean PROVE ~moved
  BY <1>1, IdentsFinite, RoomyStays DEF Roomy, KInv, InvBatch
<1> QED
  BY <1>1, Inductive, PTL

\* With more than four changes per descriptor it is never reallocated under
\* activeKevent, whatever was revived: a revived handler can give its descriptor
\* two events in one list.
THEOREM StaysPutForAny == ASSUME RoomyForAny PROVE Spec => []~moved
<1>1. ASSUME KInv PROVE ~moved
  <2>1. 2 * Cardinality(Idents) \in Nat
    BY IdentsFinite
  <2> QED BY <1>1, <2>1, RoomyStays DEF RoomyForAny, KInv, InvBatchAny
<1> QED
  BY <1>1, Inductive, PTL

\* The reactor implements the service, as long as its clients send requests that
\* leave neither a revived handler nor a number that is no int, and the list
\* has the room that keeps it in its place.
THEOREM Implements ==
  ASSUME PlainRequestsOnly, Roomy PROVE Spec => ImplementsService
<1>1. Init => Service!Init
  BY InitServes DEF Init
<1>2. KInv /\ [Next]_vars => [Service!Next]_(Service!vars)
  <2> SUFFICES ASSUME KInv, [Next]_vars PROVE [Service!Next]_(Service!vars)
    OBVIOUS
  <2>1. CASE Next
    <3>1. SocketsTypeOK
      BY KInvFacts DEF InvBase
    <3>2. ~WalkFreed
      BY <3>1, PlainIsClean, IdentsFinite, RoomyStays DEF WalkFreed, Roomy, KInv, InvBatch
    <3>3. PICK M : M = kq.map
      OBVIOUS
    <3>4. PICK N : N = kq'.map
      OBVIOUS
    <3>5. HInv(M) /\ HandlersStep(M, N)
      BY <2>1, <3>2, <3>3, <3>4, StepKeeps DEF KInv
    <3>6. server = "running"
      BY <2>1, RunsOn
    <3> QED BY <3>5, <3>6, HandlersServe
  <2>2. CASE UNCHANGED vars
    BY <2>2, FaultyDiskStays
       DEF vars, sockVars, handlerVars, Service!vars, Phase, Holds, Closed
  <2> QED BY <2>1, <2>2
<1> QED
  BY <1>1, <1>2, Inductive, PTL DEF Spec, ImplementsService, Service!Spec
============================================================================
