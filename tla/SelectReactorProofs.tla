------------------------ MODULE SelectReactorProofs ------------------------
(***************************************************************************)
(* The proofs about SelectReactor.  Its inductive invariant is that of the *)
(* handlers (EventHandlersProofs) for the map of SelectDispatcher, and     *)
(* what ties the rest of the dispatcher to that map: the sets given to     *)
(* select(), the queue that is a copy of the map, the turn under way and   *)
(* the count of the bits still to be looked at.                            *)
(***************************************************************************)
EXTENDS SelectReactor, EventHandlersProofs

----------------------------------------------------------------------------
(* The invariant.                                                          *)

Dispatchers == [map : [Handlers -> SUBSET ALL_EVENTS], read : SUBSET Idents,
                write : SUBSET Idents, sockets : SUBSET Idents]

SelectTypeOK ==
  /\ sel \in Dispatchers
  /\ copies \in [read : SUBSET Idents, write : SUBSET Idents]
  /\ ready \in Int
  /\ queue \subseteq [handler : Handlers, events : SUBSET ALL_EVENTS]
  /\ turn \in [handler : Handlers, events : SUBSET ALL_EVENTS, connected : BOOLEAN,
               at : {"peek", "write", "read"}] \cup {None}

\* A pair of the queue is what the map says.
InvQueue == \A p \in queue : p.events # {} /\ p.events = sel.map[p.handler]

\* The turn under way is of a handler that is not in the queue any more.  Until
\* its callbacks ran the map says what the turn says, and so it does for a
\* handler that reads, which writes nothing in the same turn.
InvTurn ==
  turn # None =>
    /\ turn.events # {}
    /\ "ACCEPT" \in turn.events => turn.handler = Listener
    /\ \A p \in queue : p.handler # turn.handler
    /\ turn.at # "read" \/ "READ" \in turn.events => sel.map[turn.handler] = turn.events
    /\ turn.at = "peek" =>
         turn.handler # Listener /\ handle[turn.handler] \in copies.read
    /\ turn.at = "write" =>
         "WRITE" \in turn.events /\ handle[turn.handler] \in copies.write

\* The bound of select() covers its two sets, also inside a turn, and what is in
\* them is the descriptor of a registered handler.
InvBound ==
  /\ sel.read \cup sel.write \subseteq sel.sockets
  /\ \A i \in sel.read \cup sel.write : \E x \in Handlers : sel.map[x] # {} /\ handle[x] = i

\* The two sets are those of the map, also inside a turn.
InvSets ==
  /\ sel.read = {handle[h] : h \in {x \in Handlers : sel.map[x] # {}}}
  /\ sel.write = {handle[h] : h \in {x \in Handlers : "WRITE" \in sel.map[x]}}

BitsOf(p) == {s \in {"read", "write"} : handle[p.handler] \in copies[s]}

\* The bits of the queue, and those of the turn under way that are still to
\* be looked at.
Queued == UNION {BitsOf(p) \X {p} : p \in queue}

OfTurn ==
  IF turn = None THEN {}
  ELSE IF turn.at = "read" THEN BitsOf(turn) \ {"write"} ELSE BitsOf(turn)

InvCount == IsFiniteSet(Queued) /\ ready >= Cardinality(Queued) + Cardinality(OfTurn)

SInv ==
  /\ SelectTypeOK /\ HInv(sel.map)
  /\ InvQueue /\ InvTurn /\ InvBound
  /\ Clean => InvSets /\ InvCount

----------------------------------------------------------------------------
(* What the dispatcher does, per call of a handler.                        *)

\* closeConnection takes a handler out of the map, and its descriptor out of
\* the sets.
LEMMA Closes ==
  ASSUME NEW d \in Dispatchers, NEW h \in Conns, d.map[h] # {}
  PROVE  CloseConnection(d, h) =
           [map |-> [d.map EXCEPT ![h] = {}], read |-> d.read \ {handle[h]},
            write |-> d.write \ {handle[h]}, sockets |-> d.sockets \ {handle[h]}]
<1>1. h \in Handlers /\ d.map[h] \subseteq ALL_EVENTS
  BY DEF Dispatchers, Handlers
<1>2. ALL_EVENTS # {} /\ ALL_EVENTS \cap ReadBits # {} /\ "WRITE" \in ALL_EVENTS
  BY DEF ALL_EVENTS, ReadBits
<1>3. d.map[h] \ ALL_EVENTS = {}
  BY <1>1
<1>4. CloseConnection(d, h) =
        [map |-> [d.map EXCEPT ![h] = @ \ ALL_EVENTS],
         read |-> d.read \ {f \in {handle[h]} : ALL_EVENTS \cap ReadBits # {}},
         write |-> d.write \ {f \in {handle[h]} : "WRITE" \in ALL_EVENTS},
         sockets |-> d.sockets \ {handle[h]}]
  <2> HIDE DEF ALL_EVENTS, ReadBits
  <2> QED BY <1>2 DEF CloseConnection, RemoveHandler
<1>5. /\ {f \in {handle[h]} : ALL_EVENTS \cap ReadBits # {}} = {handle[h]}
      /\ {f \in {handle[h]} : "WRITE" \in ALL_EVENTS} = {handle[h]}
  BY <1>2
<1>6. [d.map EXCEPT ![h] = @ \ ALL_EVENTS] = [d.map EXCEPT ![h] = {}]
  BY <1>3
<1> QED
  BY <1>4, <1>5, <1>6

\* The handler of an accepted connection waits for bytes.
LEMMA Admits ==
  ASSUME NEW d \in Dispatchers, NEW h \in Conns, d.map[h] = {}, NEW f
  PROVE  RegisterHandler(d, h, f, {"READ", "CLOSE"}) =
           [map |-> [d.map EXCEPT ![h] = Reading], read |-> d.read \cup {f},
            write |-> d.write, sockets |-> d.sockets \cup {f}]
<1>1. /\ {i \in {f} : {"READ", "CLOSE"} \cap ReadBits # {}} = {f}
      /\ {i \in {f} : "WRITE" \in {"READ", "CLOSE"}} = {}
      /\ {"READ", "CLOSE"} # {}
  BY DEF ReadBits
<1>2. [d.map EXCEPT ![h] = @ \cup {"READ", "CLOSE"}] = [d.map EXCEPT ![h] = Reading]
  BY DEF Reading
<1> QED
  BY <1>1, <1>2 DEF RegisterHandler

\* Registering for WRITE and CLOSE.
LEMMA Answers ==
  ASSUME NEW d \in Dispatchers, NEW h \in Conns, d.map[h] \subseteq {"CLOSE"}, NEW f
  PROVE  RegisterHandler(d, h, f, {"WRITE", "CLOSE"}) =
           [map |-> [d.map EXCEPT ![h] = Writing], read |-> d.read \cup {f},
            write |-> d.write \cup {f}, sockets |-> d.sockets \cup {f}]
<1>1. /\ {i \in {f} : {"WRITE", "CLOSE"} \cap ReadBits # {}} = {f}
      /\ {i \in {f} : "WRITE" \in {"WRITE", "CLOSE"}} = {f}
      /\ {"WRITE", "CLOSE"} # {}
  BY DEF ReadBits
<1>2. d.map[h] \cup {"WRITE", "CLOSE"} = Writing
  BY DEF Writing
<1>3. [d.map EXCEPT ![h] = @ \cup {"WRITE", "CLOSE"}] = [d.map EXCEPT ![h] = Writing]
  BY <1>2
<1> QED
  BY <1>1, <1>3 DEF RegisterHandler

\* What handleRead leaves, per verdict.
LEMMA AfterReads ==
  ASSUME NEW d \in Dispatchers, NEW h \in Conns, d.map[h] = Reading
  PROVE  /\ \A v \in {"more", "abort"} : AfterRead(d, h, v) = d
         /\ AfterRead(d, h, "close") = CloseConnection(d, h)
         /\ \A v \in {"reply", "revive"} : AfterRead(d, h, v) =
              [map |-> [d.map EXCEPT ![h] = Writing], read |-> d.read \cup {handle[h]},
               write |-> d.write \cup {handle[h]}, sockets |-> d.sockets \cup {handle[h]}]
<1> DEFINE fd == handle[h]
           ReplyNow(x) == RegisterHandler(RemoveHandler(x, h, fd, {"READ"}),
                                          h, fd, {"WRITE", "CLOSE"})
           answering == [map |-> [d.map EXCEPT ![h] = Writing], read |-> d.read \cup {fd},
                         write |-> d.write \cup {fd}, sockets |-> d.sockets \cup {fd}]
           stopped == [map |-> [d.map EXCEPT ![h] = {"CLOSE"}], read |-> d.read \ {fd},
                       write |-> d.write, sockets |-> d.sockets \ {fd}]
           closed == CloseConnection(d, h)
<1>1. h \in Handlers /\ d.map[h] # {} /\ d.map \in [Handlers -> SUBSET ALL_EVENTS]
  BY Interests DEF Dispatchers, Handlers
<1>2. ReplyNow(d) = answering
  <2>1. RemoveHandler(d, h, fd, {"READ"}) = stopped
    <3>1. /\ {f \in {fd} : {"READ"} \cap ReadBits # {}} = {fd}
          /\ {f \in {fd} : "WRITE" \in {"READ"}} = {}
          /\ {"READ"} # {} /\ d.map[h] \ {"READ"} = {"CLOSE"}
      BY DEF ReadBits, Reading
    <3>2. [d.map EXCEPT ![h] = @ \ {"READ"}] = [d.map EXCEPT ![h] = {"CLOSE"}]
      BY <3>1
    <3> QED BY <1>1, <3>1, <3>2 DEF RemoveHandler, Dispatchers
  <2>2. stopped \in Dispatchers /\ stopped.map[h] \subseteq {"CLOSE"}
    BY <1>1 DEF Dispatchers, ALL_EVENTS
  <2>3. RegisterHandler(stopped, h, fd, {"WRITE", "CLOSE"}) =
          [map |-> [stopped.map EXCEPT ![h] = Writing], read |-> stopped.read \cup {fd},
           write |-> stopped.write \cup {fd}, sockets |-> stopped.sockets \cup {fd}]
    BY <2>2, Answers
  <2>4. /\ [stopped.map EXCEPT ![h] = Writing] = [d.map EXCEPT ![h] = Writing]
        /\ stopped.read \cup {fd} = d.read \cup {fd} /\ stopped.write = d.write
        /\ stopped.sockets \cup {fd} = d.sockets \cup {fd}
    BY <1>1
  <2> QED BY <2>1, <2>3, <2>4
<1>3. ReplyNow(closed) = answering
  <2>1. closed = [map |-> [d.map EXCEPT ![h] = {}], read |-> d.read \ {fd},
                  write |-> d.write \ {fd}, sockets |-> d.sockets \ {fd}]
    BY <1>1, Closes
  <2>2. closed \in Dispatchers /\ closed.map[h] = {}
    BY <1>1, <2>1 DEF Dispatchers
  <2>3. RemoveHandler(closed, h, fd, {"READ"}) = closed
    BY <2>2 DEF RemoveHandler
  <2>4. RegisterHandler(closed, h, fd, {"WRITE", "CLOSE"}) =
          [map |-> [closed.map EXCEPT ![h] = Writing], read |-> closed.read \cup {fd},
           write |-> closed.write \cup {fd}, sockets |-> closed.sockets \cup {fd}]
    <3> HIDE DEF closed
    <3> QED BY <2>2, Answers
  <2>5. /\ [closed.map EXCEPT ![h] = Writing] = [d.map EXCEPT ![h] = Writing]
        /\ closed.read \cup {fd} = d.read \cup {fd} /\ closed.write \cup {fd} = d.write \cup {fd}
        /\ closed.sockets \cup {fd} = d.sockets \cup {fd}
    BY <1>1, <2>1
  <2> QED BY <2>3, <2>4, <2>5
<1>4. /\ AfterRead(d, h, "more") = d /\ AfterRead(d, h, "abort") = d
      /\ AfterRead(d, h, "close") = closed
      /\ AfterRead(d, h, "reply") = ReplyNow(d)
      /\ AfterRead(d, h, "revive") = ReplyNow(closed)
  BY DEF AfterRead
<1> QED
  BY <1>2, <1>3, <1>4

----------------------------------------------------------------------------
(* The queue, the turn and the count, whatever a step does to the rest.    *)

\* A step changes the registration of no handler that is still in the queue.
QueueUntouched ==
  \A x \in Handlers :
    sel.map[x] # {} /\ (turn # None => x # turn.handler) => sel'.map[x] = sel.map[x]

LEMMA QueueKeeps ==
  ASSUME SelectTypeOK, InvQueue, InvTurn, queue' \subseteq queue, QueueUntouched
  PROVE  InvQueue'
<1> SUFFICES ASSUME NEW p \in queue'
             PROVE  p.events # {} /\ p.events = sel'.map[p.handler]
  BY DEF InvQueue
<1>1. p.handler \in Handlers /\ p.events # {} /\ p.events = sel.map[p.handler]
  BY DEF SelectTypeOK, InvQueue
<1>2. turn # None => p.handler # turn.handler
  BY DEF InvTurn
<1> QED
  BY <1>1, <1>2 DEF QueueUntouched

LEMMA BitsFinite ==
  /\ \A p : BitsOf(p) \subseteq {"read", "write"} /\ IsFiniteSet(BitsOf(p))
  /\ IsFiniteSet(OfTurn) /\ Cardinality(OfTurn) \in Nat
  /\ IsFiniteSet({}) /\ Cardinality({}) = 0
<1>1. IsFiniteSet({"read", "write"})
  <2>1. IsFiniteSet({"read"} \cup {"write"})
    BY FS_Singleton, FS_AddElement
  <2>2. {"read"} \cup {"write"} = {"read", "write"}
    OBVIOUS
  <2> QED BY <2>1, <2>2
<1>2. ASSUME NEW p PROVE BitsOf(p) \subseteq {"read", "write"} /\ IsFiniteSet(BitsOf(p))
  <2>1. BitsOf(p) \in SUBSET {"read", "write"}
    BY DEF BitsOf
  <2> QED BY <1>1, <2>1, FS_Subset
<1>3. OfTurn \in SUBSET {"read", "write"}
  BY DEF OfTurn, BitsOf
<1>4. IsFiniteSet(OfTurn) /\ Cardinality(OfTurn) \in Nat
  BY <1>1, <1>3, FS_Subset, FS_CardinalityType
<1> QED
  BY <1>2, <1>4, FS_EmptySet

\* The count when a turn ends, k of its bits being taken.
LEMMA CountAtEnd ==
  ASSUME SelectTypeOK, InvCount, NEW k \in {0, 1}, EndTurn(k), k <= Cardinality(OfTurn),
         \A p \in queue : handle'[p.handler] = handle[p.handler]
  PROVE  InvCount'
<1>1. /\ IsFiniteSet(Queued) /\ Cardinality(Queued) \in Nat /\ Cardinality(OfTurn) \in Nat
      /\ ready \in Int /\ ready >= Cardinality(Queued) + Cardinality(OfTurn)
  BY BitsFinite, FS_CardinalityType DEF InvCount, SelectTypeOK
<1>2. OfTurn' = {} /\ ready' = ready - k /\ ready' >= Cardinality(Queued) /\ ready' >= 0
  BY <1>1 DEF EndTurn, OfTurn
<1>3. CASE queue' = {}
  <2>1. Queued' = {}
    BY <1>3 DEF Queued
  <2> QED BY <1>1, <1>2, <2>1, BitsFinite DEF InvCount
<1>4. CASE queue' # {}
  <2>1. queue' = queue /\ copies' = copies
    BY <1>4 DEF EndTurn
  <2>2. \A p \in queue : BitsOf(p)' = BitsOf(p)
    BY <2>1 DEF BitsOf
  <2>3. Queued' = Queued
    BY <2>1, <2>2 DEF Queued
  <2> QED BY <1>1, <1>2, <2>3, BitsFinite DEF InvCount
<1> QED
  BY <1>3, <1>4

\* No two handlers of the map have one descriptor.
LEMMA OwnHandles ==
  ASSUME NEW M, InvBase(M), InvLinked(M), NEW x \in Handlers, NEW y \in Handlers,
         M[x] # {}, M[y] # {}, handle[x] = handle[y]
  PROVE  x = y
<1>1. \A h \in Conns : M[h] # {} => handle[h] \in Fds /\ owner[handle[h]] = h
  BY OwnFd
<1>2. handle[Listener] = Listener /\ Listener \notin Fds
  BY EventHandlersAssumption DEF InvBase
<1> QED
  BY <1>1, <1>2 DEF Handlers

LEMMA Tagged ==
  ASSUME NEW S, IsFiniteSet(S), NEW x
  PROVE  IsFiniteSet({x} \X S) /\ Cardinality({x} \X S) = Cardinality(S)
<1>1. IsFiniteSet({x}) /\ Cardinality({x}) = 1
  BY FS_Singleton
<1>2. /\ IsFiniteSet({x} \X S)
      /\ Cardinality({x} \X S) = Cardinality({x}) * Cardinality(S)
  BY <1>1, FS_Product
<1>3. Cardinality(S) \in Nat
  BY FS_CardinalityType
<1> QED
  BY <1>1, <1>2, <1>3

\* The count is right at the start of a walk.
LEMMA CountAtSelect ==
  ASSUME SelectTypeOK, HInv(sel.map), Clean, Select
  PROVE  InvCount'
<1> DEFINE r == {i \in sel.read \cap sel.sockets : Readable(i)}
           w == sel.write \cap sel.sockets
           RW == ({"read"} \X r) \cup ({"write"} \X w)
           g == [q \in Queued' |-> <<q[1], handle[q[2].handler]>>]
<1>1. /\ copies' = [read |-> r, write |-> w] /\ turn' = None /\ handle' = handle
      /\ ready' = Cardinality(r) + Cardinality(w)
      /\ queue' = {[handler |-> h, events |-> sel.map[h]] :
                     h \in {x \in Handlers : sel.map[x] # {} /\ handle[x] \in r \cup w}}
  BY DEF Select, AtSelect, handlerVars
<1>2. InvBase(sel.map) /\ InvLinked(sel.map)
  BY DEF HInv, InvClean
<1> HIDE DEF r, w
<1>3. /\ IsFiniteSet(r) /\ IsFiniteSet(w) /\ Cardinality(r) \in Nat /\ Cardinality(w) \in Nat
  <2>1. IsFiniteSet(Idents)
    BY SocketsAssumption, FS_AddElement DEF Idents
  <2>2. r \in SUBSET Idents /\ w \in SUBSET Idents
    BY DEF r, w, SelectTypeOK, Dispatchers
  <2> QED BY <2>1, <2>2, FS_Subset, FS_CardinalityType
<1>4. IsFiniteSet(RW) /\ Cardinality(RW) = Cardinality(r) + Cardinality(w)
  <2>1. /\ IsFiniteSet({"read"} \X r) /\ Cardinality({"read"} \X r) = Cardinality(r)
    BY <1>3, Tagged
  <2>2. /\ IsFiniteSet({"write"} \X w) /\ Cardinality({"write"} \X w) = Cardinality(w)
    BY <1>3, Tagged
  <2>3. ({"read"} \X r) \cap ({"write"} \X w) = {}
    OBVIOUS
  <2>4. /\ IsFiniteSet(RW)
        /\ Cardinality(RW) = Cardinality({"read"} \X r) + Cardinality({"write"} \X w)
             - Cardinality(({"read"} \X r) \cap ({"write"} \X w))
    BY <2>1, <2>2, FS_Union
  <2>5. Cardinality(({"read"} \X r) \cap ({"write"} \X w)) = 0
    BY <2>3, BitsFinite
  <2> HIDE DEF RW
  <2> QED BY <1>3, <2>1, <2>2, <2>4, <2>5
<1>5. ASSUME NEW q \in Queued'
      PROVE  /\ q = <<q[1], q[2]>> /\ q[1] \in {"read", "write"}
             /\ q[2] = [handler |-> q[2].handler, events |-> sel.map[q[2].handler]]
             /\ q[2].handler \in Handlers /\ sel.map[q[2].handler] # {}
             /\ handle[q[2].handler] \in copies'[q[1]]
  <2>1. PICK p \in queue' : q \in BitsOf(p)' \X {p}
    BY DEF Queued
  <2>2. q = <<q[1], p>> /\ q[2] = p /\ q[1] \in BitsOf(p)'
    BY <2>1
  <2>3. q[1] \in {"read", "write"} /\ handle[p.handler] \in copies'[q[1]]
    BY <1>1, <2>2 DEF BitsOf
  <2>4. PICK h \in {x \in Handlers : sel.map[x] # {} /\ handle[x] \in r \cup w} :
          p = [handler |-> h, events |-> sel.map[h]]
    BY <1>1
  <2> QED BY <2>2, <2>3, <2>4
<1>6. g \in Injection(Queued', RW)
  <2>1. ASSUME NEW q \in Queued' PROVE <<q[1], handle[q[2].handler]>> \in RW
    <3>1. handle[q[2].handler] \in copies'[q[1]] /\ q[1] \in {"read", "write"}
      BY <1>5
    <3>2. copies'["read"] = r /\ copies'["write"] = w
      BY <1>1
    <3> QED BY <3>1, <3>2
  <2>2. ASSUME NEW q \in Queued', NEW u \in Queued', g[q] = g[u] PROVE q = u
    <3>1. q[1] = u[1] /\ handle[q[2].handler] = handle[u[2].handler]
      BY <2>2
    <3>2. /\ q[2].handler \in Handlers /\ sel.map[q[2].handler] # {}
          /\ u[2].handler \in Handlers /\ sel.map[u[2].handler] # {}
      BY <1>5
    <3>3. InvBase(sel.map) /\ InvLinked(sel.map)
      BY <1>2
    <3>4. q[2].handler = u[2].handler
      <4> HIDE DEF g, RW
      <4> QED BY <3>1, <3>2, <3>3, OwnHandles
    <3> QED BY <1>5, <3>1, <3>4
  <2> HIDE DEF RW
  <2>3. g \in [Queued' -> RW]
    BY <2>1
  <2> HIDE DEF g
  <2> QED BY <2>2, <2>3 DEF Injection, IsInjective
<1>7. IsFiniteSet(Queued') /\ Cardinality(Queued') <= Cardinality(RW)
  BY <1>4, <1>6, FS_Injection
<1>8. OfTurn' = {}
  BY <1>1 DEF OfTurn
<1>9. Cardinality(Queued') \in Nat
  BY <1>7, FS_CardinalityType
<1> HIDE DEF RW
<1> QED
  BY <1>1, <1>3, <1>4, <1>7, <1>8, <1>9, BitsFinite DEF InvCount

----------------------------------------------------------------------------
(* Each step of the reactor is a step of the handlers.                     *)

LEMMA HandlersMove ==
  ASSUME HInv(sel.map), HandlersStep(sel.map, sel'.map)
  PROVE  HInv(sel.map)' /\ (Clean' => Clean)
<1>1. PICK M : M = sel.map
  OBVIOUS
<1>2. PICK N : N = sel'.map
  OBVIOUS
<1>3. HInv(M) /\ HandlersStep(M, N)
  BY <1>1, <1>2
<1>4. HInv(N)' /\ (Clean' => Clean)
  BY <1>3, HandlersKeep, BaseKeeps DEF HInv
<1>5. HInv(sel.map)'
  BY <1>2, <1>4 DEF HInv, InvBase, InvClean, InvLinked
<1> QED
  BY <1>4, <1>5

\* What a step leaves of the dispatcher's part of the invariant.
Kept ==
  /\ SelectTypeOK' /\ InvQueue' /\ InvTurn' /\ InvBound'
  /\ Clean => InvSets' /\ InvCount'

LEMMA SInvFacts ==
  ASSUME SInv
  PROVE  /\ InvBase(sel.map) /\ sel \in Dispatchers /\ Listener \in Handlers
         /\ Conns \subseteq Handlers /\ Listener \notin Conns
         /\ sel.map \in [Handlers -> SUBSET ALL_EVENTS] /\ handle[Listener] = Listener
         /\ \A h \in Conns : sel.map[h] # {} => handle[h] \in Fds
         /\ \A h \in Handlers : sel.map[h] \in {{}, Listening, Reading, Writing}
         /\ \A h \in Handlers : "READ" \in sel.map[h] => h \in Conns /\ sel.map[h] = Reading
         /\ \A h \in Handlers : "WRITE" \in sel.map[h] => h \in Conns /\ sel.map[h] = Writing
<1>1. InvBase(sel.map)
  BY DEF SInv, HInv
<1>2. /\ sel \in Dispatchers /\ Listener \in Handlers /\ Conns \subseteq Handlers
      /\ Listener \notin Conns
  BY EventHandlersAssumption DEF SInv, SelectTypeOK, Handlers
<1>3. /\ sel.map \in [Handlers -> SUBSET ALL_EVENTS] /\ handle[Listener] = Listener
      /\ sel.map[Listener] = Listening
      /\ \A h \in Conns : /\ sel.map[h] # {} => handle[h] \in Fds
                          /\ sel.map[h] \in {{}, Reading, Writing}
  BY <1>1 DEF InvBase
<1>4. /\ "READ" \notin Listening /\ "WRITE" \notin Listening
      /\ "READ" \notin Writing /\ "WRITE" \notin Reading
      /\ "READ" \notin {} /\ "WRITE" \notin {}
  BY DEF Listening, Reading, Writing
<1> HIDE DEF Listening, Reading, Writing
<1> QED
  BY <1>1, <1>2, <1>3, <1>4 DEF Handlers

\* A handler closes its connection.
LEMMA SetsAtClose ==
  ASSUME SInv, NEW h \in Conns, sel.map[h] # {}, sel' = CloseConnection(sel, h),
         handle' = handle
  PROVE  /\ sel'.map = [sel.map EXCEPT ![h] = {}]
         /\ sel' \in Dispatchers /\ InvBound' /\ (Clean => InvSets')
<1>1. /\ sel \in Dispatchers /\ sel.map \in [Handlers -> SUBSET ALL_EVENTS]
      /\ h \in Handlers
  BY SInvFacts
<1>2. sel' = [map |-> [sel.map EXCEPT ![h] = {}], read |-> sel.read \ {handle[h]},
              write |-> sel.write \ {handle[h]}, sockets |-> sel.sockets \ {handle[h]}]
  BY <1>1, Closes
<1>3. sel' \in Dispatchers /\ InvBound'
  <2>1. InvBound
    BY DEF SInv
  <2> QED BY <1>1, <1>2, <2>1 DEF Dispatchers, InvBound
<1>4. ASSUME Clean PROVE InvSets'
  <2>1. InvBase(sel.map) /\ InvLinked(sel.map) /\ InvSets
    BY <1>4 DEF SInv, HInv, InvClean
  <2>2. ASSUME NEW x \in Handlers, sel.map[x] # {}, handle[x] = handle[h]
        PROVE  x = h
    <3>1. PICK M : M = sel.map
      OBVIOUS
    <3>2. InvBase(M) /\ InvLinked(M)
      BY <2>1, <3>1 
    <3> QED BY <1>1, <2>2, <3>1, <3>2, OwnHandles
  <2>3. \A x \in Handlers : sel'.map[x] = IF x = h THEN {} ELSE sel.map[x]
    BY <1>1, <1>2
  <2>4. \A x \in Handlers : "WRITE" \in sel.map[x] => sel.map[x] # {}
    OBVIOUS
  <2>5. sel'.read = {handle[x] : x \in {y \in Handlers : sel'.map[y] # {}}}
    BY <1>2, <2>1, <2>2, <2>3 DEF InvSets
  <2>6. sel'.write = {handle[x] : x \in {y \in Handlers : "WRITE" \in sel'.map[y]}}
    BY <1>2, <2>1, <2>2, <2>3, <2>4 DEF InvSets
  <2> QED BY <2>5, <2>6 DEF InvSets
<1> QED
  BY <1>2, <1>3, <1>4

\* A handler answers: it waits for room now.
LEMMA SetsAtReply ==
  ASSUME SInv, NEW h \in Conns, sel.map[h] = Reading, handle' = handle,
         sel' = [map |-> [sel.map EXCEPT ![h] = Writing], read |-> sel.read \cup {handle[h]},
                 write |-> sel.write \cup {handle[h]}, sockets |-> sel.sockets \cup {handle[h]}]
  PROVE  sel' \in Dispatchers /\ InvBound' /\ (Clean => InvSets')
<1>1. /\ sel \in Dispatchers /\ sel.map \in [Handlers -> SUBSET ALL_EVENTS]
      /\ h \in Handlers /\ handle[h] \in Idents /\ Writing \in SUBSET ALL_EVENTS
      /\ Writing # {} /\ Reading # {} /\ "WRITE" \in Writing
  BY SInvFacts, Interests DEF Idents, Writing
<1>2. sel' \in Dispatchers /\ InvBound'
  <2>1. InvBound
    BY DEF SInv
  <2> QED BY <1>1, <2>1 DEF Dispatchers, InvBound
<1>3. ASSUME Clean PROVE InvSets'
  <2>1. InvSets
    BY <1>3 DEF SInv
  <2>2. \A x \in Handlers : sel'.map[x] = IF x = h THEN Writing ELSE sel.map[x]
    BY <1>1
  <2>3. sel'.read = {handle[x] : x \in {y \in Handlers : sel'.map[y] # {}}}
    BY <1>1, <2>1, <2>2 DEF InvSets
  <2>4. sel'.write = {handle[x] : x \in {y \in Handlers : "WRITE" \in sel'.map[y]}}
    BY <1>1, <2>1, <2>2 DEF InvSets
  <2> QED BY <2>3, <2>4 DEF InvSets
<1> QED
  BY <1>2, <1>3

\* The listening handler registers the handler of a new connection.
LEMMA SetsAtAccept ==
  ASSUME SInv, NEW c \in backlog, NEW f \in FreeFds, Accept(c, f),
         sel' = RegisterHandler(sel, c, f, {"READ", "CLOSE"})
  PROVE  /\ sel'.map = [sel.map EXCEPT ![c] = Reading] /\ c \in Conns /\ sel.map[c] = {}
         /\ \A x \in Handlers : x # c => handle'[x] = handle[x] /\ sel'.map[x] = sel.map[x]
         /\ sel' \in Dispatchers /\ InvBound' /\ (Clean => InvSets')
<1>1. /\ sel \in Dispatchers /\ sel.map \in [Handlers -> SUBSET ALL_EVENTS]
      /\ Conns \subseteq Handlers
  BY SInvFacts
<1>2. /\ c \in Conns /\ sel.map[c] = {} /\ f \in Fds /\ f \in Idents
      /\ handle \in [Handlers -> Fds \cup {Listener, None}]
  BY SInvFacts DEF InvBase, SocketsTypeOK, HandlersTypeOK, FreeFds, Idents
<1>3. sel' = [map |-> [sel.map EXCEPT ![c] = Reading], read |-> sel.read \cup {f},
              write |-> sel.write, sockets |-> sel.sockets \cup {f}]
  BY <1>1, <1>2, Admits
<1>4. Reading \in SUBSET ALL_EVENTS /\ Reading # {} /\ "WRITE" \notin Reading
  BY Interests DEF Reading
<1>5. /\ handle'[c] = f /\ sel'.map[c] = Reading
      /\ \A x \in Handlers : x # c => handle'[x] = handle[x] /\ sel'.map[x] = sel.map[x]
  BY <1>1, <1>2, <1>3 DEF Accept
<1>6. sel' \in Dispatchers /\ InvBound'
  <2>1. InvBound
    BY DEF SInv
  <2>2. sel' \in Dispatchers
    BY <1>1, <1>2, <1>3, <1>4 DEF Dispatchers
  <2>3. sel'.read \cup sel'.write \subseteq sel'.sockets
    BY <1>3, <2>1 DEF InvBound
  <2>4. ASSUME NEW i \in sel'.read \cup sel'.write
        PROVE  \E x \in Handlers : sel'.map[x] # {} /\ handle'[x] = i
    <3>1. CASE i = f
      BY <1>1, <1>2, <1>4, <1>5, <3>1
    <3>2. CASE i # f
      <4>1. i \in sel.read \cup sel.write
        BY <1>3, <3>2
      <4>2. PICK x \in Handlers : sel.map[x] # {} /\ handle[x] = i
        BY <2>1, <4>1 DEF InvBound
      <4> QED BY <1>2, <1>5, <4>2
    <3> QED BY <3>1, <3>2
  <2> QED BY <2>2, <2>3, <2>4 DEF InvBound
<1>7. ASSUME Clean PROVE InvSets'
  <2>1. InvSets
    BY <1>7 DEF SInv
  <2>2. sel'.read = {handle'[x] : x \in {y \in Handlers : sel'.map[y] # {}}}
    BY <1>1, <1>2, <1>3, <1>4, <1>5, <2>1 DEF InvSets
  <2>3. sel'.write = {handle'[x] : x \in {y \in Handlers : "WRITE" \in sel'.map[y]}}
    BY <1>1, <1>2, <1>3, <1>4, <1>5, <2>1 DEF InvSets
  <2> QED BY <2>2, <2>3 DEF InvSets
<1> QED
  BY <1>2, <1>3, <1>5, <1>6, <1>7

----------------------------------------------------------------------------
(* The actions, one at a time.                                             *)

\* The copies after select() hold descriptors of the sets.
LEMMA SelectKeeps ==
  ASSUME SInv, Select
  PROVE  Kept /\ HandlersStep(sel.map, sel'.map)
<1> DEFINE r == {i \in sel.read \cap sel.sockets : Readable(i)}
           w == sel.write \cap sel.sockets
<1>1. /\ SelectTypeOK /\ sel' = sel /\ handle' = handle /\ turn = None /\ turn' = turn
      /\ copies' = [read |-> r, write |-> w]
      /\ ready' = Cardinality(r) + Cardinality(w)
      /\ queue' = {[handler |-> h, events |-> sel.map[h]] :
                     h \in {x \in Handlers : sel.map[x] # {} /\ handle[x] \in r \cup w}}
      /\ UNCHANGED sockVars /\ UNCHANGED handlerVars
  BY DEF SInv, Select, AtSelect, handlerVars
<1>2. HandlersStep(sel.map, sel'.map)
  BY <1>1 DEF HandlersStep, DoesNothing
<1>3. SelectTypeOK'
  <2>1. r \in SUBSET Idents /\ w \in SUBSET Idents
    BY <1>1 DEF SelectTypeOK, Dispatchers
  <2>2. ready' \in Int
    <3>1. IsFiniteSet(Idents)
      BY SocketsAssumption, FS_AddElement DEF Idents
    <3>2. Cardinality(r) \in Nat /\ Cardinality(w) \in Nat
      BY <2>1, <3>1, FS_Subset, FS_CardinalityType
    <3> HIDE DEF r, w
    <3> QED BY <1>1, <3>2
  <2>3. queue' \subseteq [handler : Handlers, events : SUBSET ALL_EVENTS]
    BY <1>1 DEF SelectTypeOK, Dispatchers
  <2> HIDE DEF r, w
  <2> QED BY <1>1, <2>1, <2>2, <2>3 DEF SelectTypeOK
<1>4. InvQueue'
  BY <1>1 DEF InvQueue
<1>5. InvTurn' /\ InvBound' /\ (Clean => InvSets')
  BY <1>1 DEF SInv, InvTurn, InvBound, InvSets
<1>6. ASSUME Clean PROVE InvCount'
  BY <1>1, <1>6, CountAtSelect DEF SInv
<1> QED
  BY <1>2, <1>3, <1>4, <1>5, <1>6 DEF Kept

\* select() fails only when a closed descriptor is in its sets, which a revived
\* handler has put there.
LEMMA ClosedInSets ==
  ASSUME SInv, SelectFails
  PROVE  ~Clean /\ \E c \in Conns : Registered(c) /\ ~Holds(c)
<1>1. PICK i \in sel.read \cup sel.write : ~Open(i)
  BY DEF SelectFails
<1>2. PICK x \in Handlers : sel.map[x] # {} /\ handle[x] = i
  BY <1>1 DEF SInv, InvBound
<1>3. x # Listener /\ x \in Conns /\ handle[x] \in Fds
  BY <1>1, <1>2, SInvFacts DEF Open, Handlers
<1>4. ~Holds(x)
  BY <1>1, <1>2, <1>3, SocketsAssumption DEF Open, Holds
<1>5. ~Clean
  <2>1. Clean => InvLinked(sel.map)
    BY DEF SInv, HInv, InvClean
  <2> QED BY <1>2, <1>3, <1>4, <2>1 DEF InvLinked
<1> QED
  BY <1>2, <1>3, <1>4, <1>5 DEF Registered

LEMMA SelectFailsKeeps ==
  ASSUME SInv, SelectFails
  PROVE  Kept /\ HandlersStep(sel.map, sel'.map)
<1>1. /\ sel' = sel /\ handle' = handle /\ turn' = turn /\ copies' = copies
      /\ ready' = ready /\ queue' = queue
  BY DEF SelectFails, selectVars, Fatal
<1>2. Kept
  BY <1>1 DEF Kept, SInv, SelectTypeOK, InvQueue, InvTurn, InvBound, InvSets, InvCount,
              Queued, OfTurn, BitsOf
<1>3. ~Clean
  BY ClosedInSets
<1> QED
  BY <1>1, <1>2, <1>3 DEF HandlersStep, DoesEnd, SelectFails

LEMMA OutsideKeeps ==
  ASSUME SInv, Outside
  PROVE  Kept /\ HandlersStep(sel.map, sel'.map)
<1>1. /\ sel' = sel /\ handle' = handle /\ turn' = turn /\ copies' = copies
      /\ ready' = ready /\ queue' = queue
  BY DEF Outside, selectVars, handlerVars
<1>2. Kept
  BY <1>1 DEF Kept, SInv, SelectTypeOK, InvQueue, InvTurn, InvBound, InvSets, InvCount,
              Queued, OfTurn, BitsOf
<1> QED
  BY <1>1, <1>2 DEF HandlersStep, ClientDoes, Outside

\* A pair that has its turn takes its bits along.
LEMMA CountAtTake ==
  ASSUME InvCount, NEW p \in queue, queue' = queue \ {p}, turn = None,
         handle' = handle, copies' = copies, ready' = ready, ready \in Int,
         turn'.handler = p.handler
  PROVE  InvCount'
<1> DEFINE B == BitsOf(p) \X {p}
           Q == Queued'
<1>1. \A q : BitsOf(q)' = BitsOf(q)
  BY DEF BitsOf
<1>2. Queued = Q \cup B /\ Q \cap B = {}
  <2>1. Q = UNION {BitsOf(q) \X {q} : q \in queue \ {p}}
    BY <1>1 DEF Queued
  <2> QED BY <2>1 DEF Queued
<1>3. IsFiniteSet(BitsOf(p)) /\ Cardinality(BitsOf(p)) \in Nat
  BY BitsFinite, FS_CardinalityType
<1>4. IsFiniteSet(B) /\ Cardinality(B) = Cardinality(BitsOf(p))
  <2>1. IsFiniteSet({p}) /\ Cardinality({p}) = 1
    BY FS_Singleton
  <2>2. IsFiniteSet(B) /\ Cardinality(B) = Cardinality(BitsOf(p)) * Cardinality({p})
    BY <1>3, <2>1, FS_Product
  <2> QED BY <1>3, <2>1, <2>2
<1>5. IsFiniteSet(Q)
  <2>1. Q \in SUBSET Queued /\ IsFiniteSet(Queued)
    BY <1>2 DEF InvCount
  <2> HIDE DEF Q
  <2> QED BY <2>1, FS_Subset
<1>6. /\ Cardinality(Q) \in Nat
      /\ Cardinality(Queued) = Cardinality(Q) + Cardinality(BitsOf(p))
  <2> HIDE DEF Q, B
  <2>1. Cardinality(Q \cup B) = Cardinality(Q) + Cardinality(B) - Cardinality(Q \cap B)
    BY <1>4, <1>5, FS_Union
  <2>2. Cardinality(Q \cap B) = 0 /\ Cardinality(Q) \in Nat /\ Cardinality(B) \in Nat
    BY <1>2, <1>4, <1>5, BitsFinite, FS_CardinalityType
  <2> QED BY <1>2, <1>3, <1>4, <2>1, <2>2
<1>7. Cardinality(OfTurn') \in Nat /\ Cardinality(OfTurn') <= Cardinality(BitsOf(p))
  <2>1. OfTurn' \in SUBSET BitsOf(p)
    BY DEF OfTurn, BitsOf
  <2> QED BY <1>3, <2>1, FS_Subset, FS_CardinalityType
<1>8. ready >= Cardinality(Queued) + Cardinality(OfTurn) /\ OfTurn = {}
  BY DEF InvCount, OfTurn
<1>9. ready' >= Cardinality(Q) + Cardinality(OfTurn')
  <2> HIDE DEF Q
  <2> QED BY <1>3, <1>6, <1>7, <1>8, BitsFinite
<1> QED
  BY <1>5, <1>9 DEF InvCount

LEMMA TakeKeeps ==
  ASSUME SInv, Take
  PROVE  Kept /\ HandlersStep(sel.map, sel'.map)
<1>1. PICK p \in queue :
        LET f == handle[p.handler]
            connected == ~NoPeer(f)
        IN /\ queue' = queue \ {p}
           /\ turn' = [handler |-> p.handler, events |-> p.events, connected |-> connected,
                       at |-> IF connected /\ f \in copies.read THEN "peek" ELSE AfterPeek(p)]
  BY DEF Take
<1>2. /\ UNCHANGED sockVars /\ UNCHANGED handlerVars /\ sel' = sel /\ copies' = copies
      /\ ready' = ready /\ handle' = handle /\ turn = None /\ SelectTypeOK
  BY DEF Take, handlerVars, SInv
<1>3. HandlersStep(sel.map, sel'.map)
  BY <1>2 DEF HandlersStep, DoesNothing
<1>4. /\ p \in [handler : Handlers, events : SUBSET ALL_EVENTS]
      /\ p.events # {} /\ p.events = sel.map[p.handler]
  BY <1>2 DEF SInv, SelectTypeOK, InvQueue
<1>5. /\ turn'.handler = p.handler /\ turn'.events = p.events
      /\ turn'.connected = ~NoPeer(handle[p.handler])
      /\ turn'.at = IF turn'.connected /\ handle[p.handler] \in copies.read
                      THEN "peek" ELSE AfterPeek(p)
  BY <1>1
<1>6. NoPeer(handle[p.handler]) \in BOOLEAN
  BY DEF NoPeer, PeerNameFails
<1>7. SelectTypeOK'
  <2>1. turn' \in [handler : Handlers, events : SUBSET ALL_EVENTS, connected : BOOLEAN,
                   at : {"peek", "write", "read"}]
    BY <1>1, <1>4, <1>6 DEF AfterPeek
  <2> QED BY <1>1, <1>2, <2>1 DEF SelectTypeOK
<1>8. InvQueue' /\ InvBound' /\ (Clean => InvSets')
  BY <1>1, <1>2 DEF SInv, InvQueue, InvBound, InvSets
<1>9. InvTurn'
  <2>1. ASSUME NEW q \in queue' PROVE q.handler # turn'.handler
    <3>1. /\ q \in [handler : Handlers, events : SUBSET ALL_EVENTS] /\ q # p
          /\ q.events = sel.map[q.handler]
      BY <1>1, <1>2 DEF SInv, SelectTypeOK, InvQueue
    <3> QED BY <1>4, <1>5, <3>1
  <2>2. turn'.at = "peek" =>
          turn'.handler # Listener /\ handle[turn'.handler] \in copies.read
    BY <1>5, SInvFacts DEF NoPeer, AfterPeek
  <2>3. turn'.at = "write" =>
          "WRITE" \in turn'.events /\ handle[turn'.handler] \in copies.write
    BY <1>5 DEF AfterPeek
  <2>4. "ACCEPT" \in turn'.events => turn'.handler = Listener
    <3>1. "ACCEPT" \notin Reading /\ "ACCEPT" \notin Writing /\ "ACCEPT" \notin {}
      BY DEF Reading, Writing
    <3>2. p.handler \in Conns => sel.map[p.handler] \in {{}, Reading, Writing}
      BY SInvFacts DEF InvBase
    <3> QED BY <1>4, <1>5, <3>1, <3>2 DEF Handlers
  <2> QED BY <1>2, <1>4, <1>5, <2>1, <2>2, <2>3, <2>4 DEF InvTurn
<1>10. ASSUME Clean PROVE InvCount'
  BY <1>1, <1>2, <1>5, <1>10, CountAtTake DEF SInv, SelectTypeOK
<1> QED
  BY <1>3, <1>7, <1>8, <1>9, <1>10 DEF Kept

\* Bytes, or the end of the stream: the turn goes on.
LEMMA PeekKeeps ==
  ASSUME SInv, Peek
  PROVE  Kept /\ HandlersStep(sel.map, sel'.map)
<1>1. /\ UNCHANGED sockVars /\ UNCHANGED handlerVars /\ sel' = sel /\ copies' = copies
      /\ ready' = ready /\ handle' = handle /\ queue' = queue /\ turn # None /\ turn.at = "peek"
      /\ turn' = [turn EXCEPT !.at = AfterPeek(turn)] /\ SelectTypeOK /\ InvTurn
  BY DEF Peek, AtStage, handlerVars, SInv
<1>2. /\ turn \in [handler : Handlers, events : SUBSET ALL_EVENTS, connected : BOOLEAN,
                   at : {"peek", "write", "read"}]
      /\ AfterPeek(turn) \in {"write", "read"}
  BY <1>1 DEF SelectTypeOK, AfterPeek
<1>3. /\ turn'.handler = turn.handler /\ turn'.events = turn.events
      /\ turn'.at = AfterPeek(turn)
      /\ turn' \in [handler : Handlers, events : SUBSET ALL_EVENTS, connected : BOOLEAN,
                    at : {"peek", "write", "read"}]
  BY <1>1, <1>2
<1>4. SelectTypeOK' /\ InvQueue' /\ InvBound' /\ (Clean => InvSets')
  BY <1>1, <1>3 DEF SInv, SelectTypeOK, InvQueue, InvBound, InvSets
<1>5. InvTurn'
  BY <1>1, <1>2, <1>3 DEF InvTurn, AfterPeek
<1>6. ASSUME Clean PROVE InvCount'
  <2>1. Queued' = Queued /\ BitsOf(turn)' = BitsOf(turn)
    BY <1>1, <1>3 DEF Queued, BitsOf
  <2>2. OfTurn' \in SUBSET OfTurn
    BY <1>1, <1>3, <2>1 DEF OfTurn
  <2>3. Cardinality(OfTurn') <= Cardinality(OfTurn) /\ Cardinality(OfTurn') \in Nat
    BY <2>2, BitsFinite, FS_Subset, FS_CardinalityType
  <2>4. InvCount /\ ready \in Int
    BY <1>6 DEF SInv, SelectTypeOK
  <2> QED BY <1>1, <2>1, <2>3, <2>4, BitsFinite, FS_CardinalityType DEF InvCount
<1>7. HandlersStep(sel.map, sel'.map)
  BY <1>1 DEF HandlersStep, DoesNothing
<1> QED
  BY <1>4, <1>5, <1>6, <1>7 DEF Kept

\* The rest of a step that ends a turn, which looked at a read bit if k = 1.
LEMMA TurnEnds ==
  ASSUME SInv, turn # None, NEW k \in {0, 1}, EndTurn(k),
         k = 1 => handle[turn.handler] \in copies.read,
         sel' \in Dispatchers, InvBound', Clean => InvSets', QueueUntouched,
         \A x \in Handlers : sel.map[x] # {} => handle'[x] = handle[x]
  PROVE  Kept
<1>1. SelectTypeOK /\ InvQueue /\ InvTurn
  BY DEF SInv
<1>2. /\ turn' = None /\ ready' = ready - k /\ queue' \subseteq queue
      /\ copies' \in {copies, [read |-> {}, write |-> {}]}
  BY DEF EndTurn
<1>3. SelectTypeOK'
  <2>1. copies' \in [read : SUBSET Idents, write : SUBSET Idents]
    BY <1>1, <1>2 DEF SelectTypeOK
  <2>2. ready' \in Int
    BY <1>1, <1>2 DEF SelectTypeOK
  <2> QED BY <1>1, <1>2, <2>1, <2>2 DEF SelectTypeOK
<1>4. InvQueue' /\ InvTurn'
  BY <1>1, <1>2, QueueKeeps DEF InvTurn
<1>5. ASSUME Clean PROVE InvCount'
  <2>1. InvCount
    BY <1>5 DEF SInv
  <2>2. k <= Cardinality(OfTurn)
    <3>1. k = 1 => "read" \in OfTurn
      BY DEF OfTurn, BitsOf
    <3>2. k = 1 => Cardinality(OfTurn) # 0
      BY <3>1, BitsFinite, FS_EmptySet
    <3> QED BY <3>2, BitsFinite
  <2>3. \A p \in queue : handle'[p.handler] = handle[p.handler]
    BY <1>1 DEF InvQueue, SelectTypeOK
  <2> QED BY <1>1, <2>1, <2>2, <2>3, CountAtEnd
<1> QED
  BY <1>3, <1>4, <1>5 DEF Kept

LEMMA NothingToReadKeeps ==
  ASSUME SInv, NothingToRead
  PROVE  Kept /\ HandlersStep(sel.map, sel'.map)
<1>1. /\ UNCHANGED sockVars /\ UNCHANGED handlerVars /\ sel' = sel /\ handle' = handle
      /\ turn # None
  BY DEF NothingToRead, AtStage, handlerVars
<1>2. sel' \in Dispatchers /\ InvBound' /\ (Clean => InvSets') /\ QueueUntouched
  BY <1>1 DEF SInv, SelectTypeOK, InvBound, InvSets, QueueUntouched
<1>3. Kept
  <2>1. CASE HasReadBit
    BY <1>1, <1>2, <2>1, TurnEnds DEF NothingToRead, HasReadBit
  <2>2. CASE ~HasReadBit
    BY <1>1, <1>2, <2>2, TurnEnds DEF NothingToRead
  <2> QED BY <2>1, <2>2
<1> QED
  BY <1>1, <1>3 DEF HandlersStep, DoesNothing

\* The peek met a connection that was reset, or a descriptor that is closed.
LEMMA PeekFailsKeeps ==
  ASSUME SInv, PeekFails
  PROVE  Kept /\ HandlersStep(sel.map, sel'.map)
<1> DEFINE h == turn.handler
<1>1. /\ turn # None /\ turn.at = "peek" /\ PeerNameFails(handle[h]) /\ Close(h)
      /\ sel' = CloseConnection(sel, h) /\ EndTurn(1) /\ handle' = handle
  BY DEF PeekFails, AtStage, Close
<1>2. /\ h \in Conns /\ sel.map[h] # {} /\ handle[h] \in copies.read
  BY <1>1 DEF SInv, SelectTypeOK, InvTurn, Handlers
<1> HIDE DEF h
<1>3. /\ sel'.map = [sel.map EXCEPT ![h] = {}]
      /\ sel' \in Dispatchers /\ InvBound' /\ (Clean => InvSets')
  BY <1>1, <1>2, SetsAtClose
<1>4. QueueUntouched
  BY <1>1, <1>3, SInvFacts DEF QueueUntouched, h
<1>5. Kept
  BY <1>1, <1>2, <1>3, <1>4, TurnEnds DEF h
<1>6. Holds(h) => peer[h] \in {"fin", "reset"}
  BY <1>1, <1>2, SocketsAssumption DEF Holds, PeerNameFails
<1>7. DoesClose(sel.map, sel'.map)
  BY <1>1, <1>2, <1>3, <1>6 DEF DoesClose
<1> QED
  BY <1>5, <1>7 DEF HandlersStep

LEMMA HandleAcceptKeeps ==
  ASSUME SInv, HandleAccept
  PROVE  Kept /\ HandlersStep(sel.map, sel'.map)
<1>1. turn # None /\ EndTurn(1) /\ handle[turn.handler] \in copies.read
  BY DEF HandleAccept, AtStage, HasReadBit
<1>2. CASE backlog # {} /\ FreeFds = {} /\ Fatal /\ UNCHANGED sel
  <2>1. sel' = sel /\ handle' = handle
    BY <1>2 DEF Fatal
  <2>2. sel' \in Dispatchers /\ InvBound' /\ (Clean => InvSets') /\ QueueUntouched
    BY <2>1 DEF SInv, SelectTypeOK, InvBound, InvSets, QueueUntouched
  <2>3. Kept
    BY <1>1, <2>1, <2>2, TurnEnds
  <2>4. DoesEnd(sel.map, sel'.map)
    BY <1>2, <2>1 DEF DoesEnd
  <2> QED BY <2>3, <2>4 DEF HandlersStep
<1>3. CASE \E c \in backlog, f \in FreeFds :
             Accept(c, f) /\ sel' = RegisterHandler(sel, c, f, {"READ", "CLOSE"})
  <2>1. PICK c \in backlog, f \in FreeFds :
          Accept(c, f) /\ sel' = RegisterHandler(sel, c, f, {"READ", "CLOSE"})
    BY <1>3
  <2>2. /\ sel'.map = [sel.map EXCEPT ![c] = Reading] /\ sel.map[c] = {}
        /\ \A x \in Handlers : x # c => handle'[x] = handle[x] /\ sel'.map[x] = sel.map[x]
        /\ sel' \in Dispatchers /\ InvBound' /\ (Clean => InvSets')
    BY <2>1, SetsAtAccept
  <2>3. /\ QueueUntouched
        /\ \A x \in Handlers : sel.map[x] # {} => handle'[x] = handle[x]
    BY <2>2 DEF QueueUntouched
  <2>4. Kept
    BY <1>1, <2>2, <2>3, TurnEnds
  <2>5. DoesAccept(sel.map, sel'.map)
    BY <2>1, <2>2 DEF DoesAccept
  <2> QED BY <2>4, <2>5 DEF HandlersStep
<1> QED
  BY <1>2, <1>3 DEF HandleAccept

LEMMA HandleReadKeeps ==
  ASSUME SInv, HandleRead
  PROVE  Kept /\ HandlersStep(sel.map, sel'.map)
<1> DEFINE h == turn.handler
<1>1. /\ turn # None /\ EndTurn(1) /\ handle[h] \in copies.read /\ "READ" \in turn.events
  BY DEF HandleRead, AtStage, HasReadBit, Reads
<1>2. h \in Conns /\ sel.map[h] = Reading /\ sel.map[h] # {} /\ handle[h] \in Fds
  <2>1. sel.map[h] = turn.events /\ h \in Handlers
    BY <1>1 DEF SInv, SelectTypeOK, InvTurn
  <2> QED BY <1>1, <2>1, SInvFacts, Interests
<1>3. sel \in Dispatchers /\ SocketsTypeOK /\ HandlersTypeOK /\ sel.map \in [Handlers -> SUBSET ALL_EVENTS]
  BY SInvFacts DEF InvBase
<1>4. /\ handle' = handle
      /\ \A x \in Handlers : x # h => sel'.map[x] = sel.map[x]
      /\ sel' \in Dispatchers /\ InvBound' /\ (Clean => InvSets')
      /\ HandlersStep(sel.map, sel'.map)
  <2>1. CASE \E n \in Receivable(handle[h]) : \E v \in ReadVerdicts(h, n) :
               owner[handle[h]] # None /\ Read(h, n, v) /\ sel' = AfterRead(sel, h, v)
    <3>1. PICK n \in Receivable(handle[h]) : \E v \in ReadVerdicts(h, n) :
                 owner[handle[h]] # None /\ Read(h, n, v) /\ sel' = AfterRead(sel, h, v)
      BY <2>1
    <3>2. PICK v \in ReadVerdicts(h, n) :
            owner[handle[h]] # None /\ Read(h, n, v) /\ sel' = AfterRead(sel, h, v)
      BY <3>1
    <3> HIDE DEF h
    <3>3. n \in Nat /\ v \in Verdicts
      BY <1>2, <1>3, <3>2, Receives, VerdictFacts
    <3>4. handle' = handle
      BY <3>2 DEF Read
    <3>5. /\ sel'.map = [sel.map EXCEPT ![h] = WaitsAfter(v)]
          /\ sel' \in Dispatchers /\ InvBound' /\ (Clean => InvSets')
      <4>1. CASE v \in {"more", "abort"}
        <5>1. sel' = sel
          BY <1>2, <1>3, <3>2, <4>1, AfterReads
        <5>2. sel.map = [sel.map EXCEPT ![h] = WaitsAfter(v)]
          BY <1>2, <1>3, <4>1, WaitsFacts
        <5> QED BY <1>3, <3>4, <5>1, <5>2 DEF SInv, InvBound, InvSets
      <4>2. CASE v \in {"reply", "revive"}
        <5>1. sel' = [map |-> [sel.map EXCEPT ![h] = Writing],
                      read |-> sel.read \cup {handle[h]}, write |-> sel.write \cup {handle[h]},
                      sockets |-> sel.sockets \cup {handle[h]}]
          BY <1>2, <1>3, <3>2, <4>2, AfterReads
        <5>2. WaitsAfter(v) = Writing
          BY <4>2, WaitsFacts
        <5>3. sel' \in Dispatchers /\ InvBound' /\ (Clean => InvSets')
          BY <1>2, <3>4, <5>1, SetsAtReply
        <5> QED BY <5>1, <5>2, <5>3
      <4>3. CASE v = "close"
        <5>1. sel' = CloseConnection(sel, h)
          BY <1>2, <1>3, <3>2, <4>3, AfterReads
        <5> QED BY <1>2, <3>4, <4>3, <5>1, SetsAtClose, WaitsFacts
      <4> QED BY <3>3, <4>1, <4>2, <4>3 DEF Verdicts
    <3>6. DoesRead(sel.map, sel'.map)
      <4>1. \E u \in ReadVerdicts(h, n) :
              Read(h, n, u) /\ sel'.map = [sel.map EXCEPT ![h] = WaitsAfter(u)]
        BY <3>2, <3>5
      <4>2. \E m \in Receivable(handle[h]) : \E u \in ReadVerdicts(h, m) :
              Read(h, m, u) /\ sel'.map = [sel.map EXCEPT ![h] = WaitsAfter(u)]
        BY <4>1
      <4> QED BY <1>2, <3>2, <4>2 DEF DoesRead
    <3>7. \A x \in Handlers : x # h => sel'.map[x] = sel.map[x]
      BY <1>3, <3>5
    <3> QED BY <3>4, <3>5, <3>6, <3>7 DEF HandlersStep
  <2>2. CASE ReadFails(h) /\ sel' = CloseConnection(sel, h)
    <3> HIDE DEF h
    <3>1. handle' = handle
      BY <2>2 DEF ReadFails
    <3>2. /\ sel'.map = [sel.map EXCEPT ![h] = {}]
          /\ sel' \in Dispatchers /\ InvBound' /\ (Clean => InvSets')
      BY <1>2, <2>2, <3>1, SetsAtClose
    <3>3. DoesFailToRead(sel.map, sel'.map)
      BY <1>2, <2>2, <3>2 DEF DoesFailToRead
    <3>4. \A x \in Handlers : x # h => sel'.map[x] = sel.map[x]
      BY <1>3, <3>2
    <3> QED BY <3>1, <3>2, <3>3, <3>4 DEF HandlersStep
  <2> QED BY <2>1, <2>2 DEF HandleRead
<1>5. QueueUntouched
  BY <1>1, <1>4 DEF QueueUntouched
<1> QED
  BY <1>1, <1>4, <1>5, TurnEnds

\* A chunk: the turn goes on with its read bit.
LEMMA HandleWriteKeeps ==
  ASSUME SInv, HandleWrite
  PROVE  Kept /\ HandlersStep(sel.map, sel'.map)
<1> DEFINE h == turn.handler
<1>1. /\ turn # None /\ turn.at = "write" /\ ready' = ready - 1
      /\ turn' = [turn EXCEPT !.at = "read"] /\ copies' = copies /\ queue' = queue
      /\ SelectTypeOK /\ InvTurn /\ InvQueue
  BY DEF HandleWrite, AtStage, SInv
<1>2. /\ h \in Conns /\ sel.map[h] = Writing /\ sel.map[h] # {} /\ turn.events = Writing
      /\ handle[h] \in copies.write /\ h \in Handlers
  <2>1. /\ sel.map[h] = turn.events /\ h \in Handlers /\ "WRITE" \in turn.events
        /\ handle[h] \in copies.write
    BY <1>1 DEF SelectTypeOK, InvTurn
  <2> QED BY <2>1, SInvFacts, Interests
<1>3. sel \in Dispatchers /\ sel.map \in [Handlers -> SUBSET ALL_EVENTS]
  BY SInvFacts
<1>4. /\ turn \in [handler : Handlers, events : SUBSET ALL_EVENTS, connected : BOOLEAN,
                   at : {"peek", "write", "read"}]
  BY <1>1 DEF SelectTypeOK
<1>5. /\ turn'.handler = h /\ turn'.events = turn.events /\ turn'.at = "read"
      /\ turn' \in [handler : Handlers, events : SUBSET ALL_EVENTS, connected : BOOLEAN,
                    at : {"peek", "write", "read"}]
  BY <1>1, <1>4
<1>6. /\ handle' = handle
      /\ \A x \in Handlers : x # h => sel'.map[x] = sel.map[x]
      /\ sel' \in Dispatchers /\ InvBound' /\ (Clean => InvSets')
      /\ HandlersStep(sel.map, sel'.map)
  <2> HIDE DEF h
  <2>0. /\ Fatal \/ ProcessThrows(h) \/ Write(h) => handle' = handle
        /\ handle' = handle /\ sel' = sel =>
             sel' \in Dispatchers /\ InvBound' /\ (Clean => InvSets')
    BY <1>3 DEF Fatal, ProcessThrows, Write, SInv, InvBound, InvSets
  <2>1. CASE ProcessThrows(h) /\ UNCHANGED sel
    <3>1. DoesThrow(sel.map, sel'.map)
      BY <1>2, <2>1 DEF DoesThrow
    <3> QED BY <2>0, <2>1, <3>1 DEF HandlersStep
  <2>2. CASE /\ SendReturns(handle[h]) /\ Write(h)
             /\ sel' = IF LastChunk(h) THEN CloseConnection(sel, h) ELSE sel
    <3>1. /\ sel'.map = IF LastChunk(h) THEN [sel.map EXCEPT ![h] = {}] ELSE sel.map
          /\ sel' \in Dispatchers /\ InvBound' /\ (Clean => InvSets')
      <4>1. CASE LastChunk(h)
        BY <1>2, <2>0, <2>2, <4>1, SetsAtClose
      <4>2. CASE ~LastChunk(h)
        BY <2>0, <2>2, <4>2
      <4> QED BY <4>1, <4>2
    <3>2. DoesWrite(sel.map, sel'.map)
      BY <1>2, <2>2, <3>1 DEF DoesWrite
    <3>3. \A x \in Handlers : x # h => sel'.map[x] = sel.map[x]
      BY <1>3, <3>1
    <3> QED BY <2>0, <2>2, <3>1, <3>2, <3>3 DEF HandlersStep
  <2>3. CASE SendFails(handle[h]) /\ Fatal /\ UNCHANGED sel
    <3>1. DoesEnd(sel.map, sel'.map)
      BY <1>2, <2>3 DEF DoesEnd
    <3> QED BY <2>0, <2>3, <3>1 DEF HandlersStep
  <2> QED BY <2>1, <2>2, <2>3 DEF HandleWrite, h
<1>7. QueueUntouched
  BY <1>1, <1>6 DEF QueueUntouched
<1>8. SelectTypeOK'
  <2>1. ready' \in Int
    BY <1>1 DEF SelectTypeOK
  <2> QED BY <1>1, <1>5, <1>6, <2>1 DEF SelectTypeOK
<1>9. InvQueue'
  BY <1>1, <1>7, QueueKeeps
<1>10. InvTurn'
  <2>1. "READ" \notin turn.events
    BY <1>2 DEF Writing
  <2> QED BY <1>1, <1>5, <2>1 DEF InvTurn
<1>11. ASSUME Clean PROVE InvCount'
  <2>1. Queued' = Queued /\ BitsOf(turn)' = BitsOf(turn)
    BY <1>1, <1>5, <1>6 DEF Queued, BitsOf
  <2>2. "write" \in BitsOf(turn)
    BY <1>2 DEF BitsOf
  <2>3. OfTurn = BitsOf(turn)
    BY <1>1 DEF OfTurn
  <2>4. OfTurn' \in SUBSET (OfTurn \ {"write"})
    BY <1>5, <2>1, <2>3 DEF OfTurn
  <2>5. /\ Cardinality(OfTurn \ {"write"}) = Cardinality(OfTurn) - 1
        /\ IsFiniteSet(OfTurn \ {"write"})
    BY <2>2, <2>3, BitsFinite, FS_RemoveElement
  <2>6. /\ Cardinality(OfTurn') \in Nat /\ Cardinality(OfTurn) \in Nat
        /\ Cardinality(OfTurn') <= Cardinality(OfTurn) - 1
    BY <2>4, <2>5, BitsFinite, FS_Subset, FS_CardinalityType
  <2>7. InvCount /\ Cardinality(Queued) \in Nat /\ ready \in Int
    BY <1>1, <1>11, FS_CardinalityType DEF SInv, InvCount, SelectTypeOK
  <2> QED BY <1>1, <2>1, <2>6, <2>7 DEF InvCount
<1> QED
  BY <1>6, <1>8, <1>9, <1>10, <1>11 DEF Kept

----------------------------------------------------------------------------
(* The invariant holds.                                                    *)

LEMMA ServerKeeps ==
  ASSUME SInv, Next
  PROVE  Kept /\ HandlersStep(sel.map, sel'.map)
BY SelectKeeps, SelectFailsKeeps, TakeKeeps, PeekFailsKeeps, PeekKeeps, HandleWriteKeeps,
   HandleAcceptKeeps, HandleReadKeeps, NothingToReadKeeps, OutsideKeeps DEF Next, ServerStep

\* Nothing happens once the process has ended.
LEMMA RunsOn == Next => server = "running"
BY DEF Next, ServerStep, Outside, AtStage, AtSelect, Select, SelectFails, Take,
       PeekFails, Peek, HandleWrite, HandleAccept, HandleRead, NothingToRead

LEMMA SInvNext ==
  ASSUME SInv, [Next]_vars
  PROVE  SInv'
<1>1. CASE Next
  <2>1. Kept /\ HandlersStep(sel.map, sel'.map) /\ HInv(sel.map)
    BY <1>1, ServerKeeps DEF SInv
  <2>2. HInv(sel.map)' /\ (Clean' => Clean)
    BY <2>1, HandlersMove
  <2> QED BY <2>1, <2>2 DEF Kept, SInv
<1>2. CASE UNCHANGED vars
  <2>1. UNCHANGED sockVars /\ UNCHANGED handlerVars /\ UNCHANGED selectVars
    BY <1>2 DEF vars
  <2>2. /\ sel' = sel /\ handle' = handle /\ turn' = turn /\ copies' = copies
        /\ ready' = ready /\ queue' = queue
    BY <2>1 DEF selectVars, handlerVars
  <2>3. Kept
    BY <2>2 DEF Kept, SInv, SelectTypeOK, InvQueue, InvTurn, InvBound, InvSets, InvCount,
                Queued, OfTurn, BitsOf
  <2>4. HandlersStep(sel.map, sel'.map)
    BY <2>1, <2>2 DEF HandlersStep, DoesNothing
  <2>5. HInv(sel.map)' /\ (Clean' => Clean)
    BY <2>4, HandlersMove DEF SInv
  <2> QED BY <2>3, <2>5 DEF Kept, SInv
<1> QED
  BY <1>1, <1>2

LEMMA SInvInit ==
  ASSUME Init
  PROVE  SInv
<1> DEFINE empty == [map |-> [h \in Handlers |-> {}], read |-> {}, write |-> {},
                     sockets |-> {}]
           M == [h \in Handlers |-> IF h = Listener THEN Listening ELSE {}]
<1>1. sel = [map |-> M, read |-> {Listener}, write |-> {}, sockets |-> {Listener}]
  <2>1. /\ {i \in {Listener} : {"ACCEPT", "CLOSE"} \cap ReadBits # {}} = {Listener}
        /\ {i \in {Listener} : "WRITE" \in {"ACCEPT", "CLOSE"}} = {}
        /\ {"ACCEPT", "CLOSE"} # {}
    BY DEF ReadBits
  <2>2. [empty.map EXCEPT ![Listener] = @ \cup {"ACCEPT", "CLOSE"}] = M
    BY DEF Handlers, Listening
  <2>3. sel = RegisterHandler(empty, Listener, Listener, {"ACCEPT", "CLOSE"})
    BY DEF Init
  <2>4. RegisterHandler(empty, Listener, Listener, {"ACCEPT", "CLOSE"}) =
          [map |-> M, read |-> {} \cup {Listener}, write |-> {} \cup {},
           sockets |-> {} \cup {Listener}]
    <3> HIDE DEF M
    <3> QED BY <2>1, <2>2 DEF RegisterHandler
  <2> QED BY <2>3, <2>4
<1>2. HInv(sel.map)
  <2>1. PICK N : N = sel.map
    OBVIOUS
  <2>2. N = M
    BY <1>1, <2>1
  <2>3. HInv(N)
    BY <2>2, InitKeeps DEF Init
  <2> QED BY <2>1, <2>3
<1>3. /\ copies = [read |-> {}, write |-> {}] /\ ready = 0 /\ queue = {} /\ turn = None
      /\ handle[Listener] = Listener /\ Listener \in Handlers
      /\ sel.map = M /\ sel.read = {Listener} /\ sel.write = {} /\ sel.sockets = {Listener}
  <2>1. /\ copies = [read |-> {}, write |-> {}] /\ ready = 0 /\ queue = {} /\ turn = None
        /\ handle[Listener] = Listener /\ Listener \in Handlers
    BY DEF Init, HandlersInit, Handlers
  <2> HIDE DEF M
  <2> QED BY <1>1, <2>1
<1>4. SelectTypeOK
  <2>1. M \in [Handlers -> SUBSET ALL_EVENTS]
    BY Interests
  <2>2. sel \in Dispatchers
    <3> HIDE DEF M
    <3> QED BY <1>1, <2>1 DEF Dispatchers, Idents
  <2>3. copies \in [read : SUBSET Idents, write : SUBSET Idents]
    BY <1>3
  <2> HIDE DEF M
  <2> QED BY <1>3, <2>2, <2>3 DEF SelectTypeOK
<1>5. InvQueue /\ InvTurn /\ InvBound
  <2>1. sel.map[Listener] # {}
    BY <1>3, Interests
  <2> HIDE DEF M
  <2> QED BY <1>3, <2>1 DEF InvQueue, InvTurn, InvBound
<1>6. InvSets
  <2>1. /\ \A h \in Handlers : sel.map[h] # {} <=> h = Listener
        /\ \A h \in Handlers : "WRITE" \notin sel.map[h]
    BY <1>3, Interests
  <2> QED BY <1>3, <2>1 DEF InvSets
<1>7. InvCount
  <2>1. Queued = {} /\ OfTurn = {}
    BY <1>3 DEF Queued, OfTurn
  <2> QED BY <1>3, <2>1, BitsFinite DEF InvCount
<1> QED
  BY <1>2, <1>4, <1>5, <1>6, <1>7 DEF SInv

LEMMA Inductive == Spec => []SInv
<1>1. SInv /\ [Next]_vars => SInv'
  BY SInvNext
<1> QED
  BY <1>1, SInvInit, PTL DEF Spec

----------------------------------------------------------------------------
(* The theorems.  Those that need it say that no handler was revived: a    *)
(* revived handler has its old descriptor, which is another connection's   *)
(* by then or closed (CusterServer then ends with EBADF, or answers on it).*)

\* Every variable has its type, the count of ready descriptors included.
THEOREM TypeCorrect == Spec => []TypeOK
<1>1. SInv => TypeOK
  BY DEF SInv, SelectTypeOK, Dispatchers, TypeOK, HInv, InvBase
<1> QED
  BY <1>1, Inductive, PTL

\* The bound that select() gets covers every descriptor of its two sets, of
\* every client and whatever is registered and removed in between.
THEOREM BoundSafe == Spec => []BoundCovers
<1>1. SInv => BoundCovers
  BY DEF SInv, InvBound, BoundCovers
<1> QED
  BY <1>1, Inductive, PTL

\* A pair of handlerQueue is still what the map says when its turn comes; its
\* handler still owns its descriptor, unless a closed handler was registered.
THEOREM QueueFresh ==
  Spec => [](/\ Clean => QueueNotStale
             /\ \A p \in queue : sel.map[p.handler] = p.events)
<1>1. ASSUME SInv
      PROVE  /\ Clean => QueueNotStale
             /\ \A p \in queue : sel.map[p.handler] = p.events
  <2>1. \A p \in queue :
          p.events # {} /\ p.events = sel.map[p.handler] /\ p.handler \in Handlers
    BY <1>1 DEF SInv, InvQueue, SelectTypeOK
  <2>2. Clean => \A c \in Conns : sel.map[c] # {} <=> Holds(c)
    BY <1>1 DEF SInv, HInv, InvClean, InvLinked
  <2> QED BY <2>1, <2>2 DEF QueueNotStale, Handlers
<1> QED
  BY <1>1, Inductive, PTL

\* What select() is given is what the map asks for, and all of it is open.
THEOREM SetsFollowMap == Spec => [](Clean => SetsInSync)
<1>1. ASSUME SInv, Clean PROVE SetsInSync
  <2>1. /\ InvSets /\ InvBase(sel.map) /\ InvLinked(sel.map)
    BY <1>1 DEF SInv, HInv, InvClean
  <2>2. ASSUME NEW x \in Handlers
        PROVE  sel.map[x] # {} <=> sel.map[x] \cap ReadBits # {}
    <3>1. sel.map[x] \in {{}, Listening, Reading, Writing}
      BY <1>1, SInvFacts
    <3>2. /\ Listening \cap ReadBits # {} /\ Reading \cap ReadBits # {}
          /\ Writing \cap ReadBits # {}
      BY DEF Listening, Reading, Writing, ReadBits
    <3> HIDE DEF Listening, Reading, Writing
    <3> QED BY <3>1, <3>2
  <2>3. sel.read = {handle[h] : h \in {x \in Handlers : sel.map[x] \cap ReadBits # {}}}
    BY <2>1, <2>2 DEF InvSets
  <2>4. ASSUME NEW i \in sel.read \cup sel.write PROVE Open(i)
    <3>1. PICK x \in Handlers : i = handle[x] /\ sel.map[x] # {}
      BY <2>1 DEF InvSets
    <3>2. x = Listener \/ Holds(x)
      BY <2>1, <3>1 DEF InvLinked, Handlers
    <3> QED
      BY <2>1, <3>1, <3>2, SocketsAssumption DEF Open, Holds, InvBase, Handlers
  <2> QED BY <2>1, <2>3, <2>4 DEF SetsInSync, InvSets
<1> QED
  BY <1>1, Inductive, PTL

\* readySockets never runs out before each descriptor that select() reported
\* has had its turn.
THEOREM ReadyServed == Spec => [](Clean => EveryReadyServed)
<1>1. SInv /\ Clean => EveryReadyServed
  BY DEF SInv, InvCount, EveryReadyServed, Queued, OfTurn, BitsOf
<1> QED
  BY <1>1, Inductive, PTL

\* A handler is in the map exactly while it owns an open descriptor, and its
\* file is open no longer than that.
THEOREM NothingLeaks == Spec => [](Clean => NoLeak)
<1>1. ASSUME SInv, Clean PROVE NoLeak
  <2>1. PICK M : M = sel.map
    OBVIOUS
  <2>2. InvBase(M) /\ InvClean(M)
    BY <1>1, <2>1 DEF SInv, HInv
  <2> QED BY <2>1, <2>2, CleanPromises DEF NoLeak, Registered
<1> QED
  BY <1>1, Inductive, PTL

\* What is sent on a connection answers the request it carried, read whole.
THEOREM AnswersItsOwn == Spec => [](Clean => OwnResponse)
<1>1. ASSUME SInv, Clean PROVE OwnResponse
  <2>1. PICK M : M = sel.map
    OBVIOUS
  <2>2. InvBase(M) /\ InvClean(M)
    BY <1>1, <2>1 DEF SInv, HInv
  <2> QED BY <2>2, CleanPromises DEF OwnResponse
<1> QED
  BY <1>1, Inductive, PTL

\* What the proofs below say of a call that ends the process.
EndsFor == turn # None /\ MayEnd(turn.handler)

LEMMA AcceptEnds ==
  ASSUME SInv, HandleAccept, server' # server
  PROVE  EndsFor
<1>1. PICK h : h = turn.handler
  OBVIOUS
<1>2. turn # None /\ turn.at = "read" /\ "ACCEPT" \in turn.events /\ h \in Handlers
  BY <1>1 DEF HandleAccept, AtStage, Accepts, SInv, SelectTypeOK
<1>3. backlog # {} /\ FreeFds = {} /\ Fatal
  BY DEF HandleAccept, Accept
<1>4. h = Listener
  BY <1>1, <1>2 DEF SInv, SelectTypeOK, InvTurn
<1> QED
  BY <1>1, <1>2, <1>3, <1>4 DEF EndsFor, MayEnd, Fatal

LEMMA ReadEnds ==
  ASSUME SInv, HandleRead, server' # server
  PROVE  EndsFor
<1>1. PICK h : h = turn.handler
  OBVIOUS
<1>2. /\ turn # None /\ "READ" \in turn.events /\ h \in Handlers
      /\ sel.map[h] = turn.events
  BY <1>1 DEF HandleRead, AtStage, Reads, SInv, SelectTypeOK, InvTurn
<1>3. \/ /\ owner[handle[h]] # None
         /\ \E n \in Receivable(handle[h]) : \E v \in ReadVerdicts(h, n) : Read(h, n, v)
      \/ ReadFails(h)
  BY <1>1 DEF HandleRead
<1>4. PICK M : M = sel.map
  OBVIOUS
<1>5. HInv(M) /\ M[h] # {} /\ h \in Conns /\ handle[h] \in Fds
  BY <1>2, <1>4, SInvFacts, Interests DEF SInv
<1>6. MayEnd(h)
  BY <1>3, <1>5, ReadMayEnd, FailMayEnd
<1> QED
  BY <1>1, <1>2, <1>6 DEF EndsFor

LEMMA WriteEnds ==
  ASSUME SInv, HandleWrite, server' # server
  PROVE  EndsFor
<1>1. PICK h : h = turn.handler
  OBVIOUS
<1>2. /\ turn # None /\ "WRITE" \in turn.events /\ h \in Handlers
      /\ sel.map[h] = turn.events
  BY <1>1 DEF HandleWrite, AtStage, SInv, SelectTypeOK, InvTurn
<1>3. ProcessThrows(h) \/ (SendFails(handle[h]) /\ Fatal)
  <2>1. ProcessThrows(h) \/ Write(h) \/ (SendFails(handle[h]) /\ Fatal)
    BY <1>1 DEF HandleWrite
  <2>2. ASSUME Write(h) PROVE FALSE
    <3>1. server' = server
      BY <2>2 DEF Write
    <3> QED BY <3>1
  <2> QED BY <2>1, <2>2
<1>4. PICK M : M = sel.map
  OBVIOUS
<1>5. HInv(M) /\ M[h] = Writing /\ M[h] # {} /\ h \in Conns
  BY <1>2, <1>4, SInvFacts, Interests DEF SInv
<1>6. Fatal => peer' = peer
  BY DEF Fatal, sockVars
<1>7. MayEnd(h)
  BY <1>3, <1>5, <1>6, ThrowMayEnd, SendMayEnd
<1> QED
  BY <1>1, <1>2, <1>7 DEF EndsFor

LEMMA OthersEndNothing ==
  ASSUME server' # server, [Next]_vars
  PROVE  SelectFails \/ HandleAccept \/ HandleRead \/ HandleWrite
<1>1. ~UNCHANGED vars
  BY DEF vars, handlerVars
<1>2. ~Select /\ ~Take /\ ~Peek /\ ~NothingToRead /\ ~Outside
  BY DEF Select, Take, Peek, NothingToRead, Outside, handlerVars
<1>3. ~PeekFails
  BY DEF PeekFails, Close
<1> QED
  BY <1>1, <1>2, <1>3 DEF Next, ServerStep

\* The process ends in no step but those that DiesForCause lists: never because a
\* turn, a set or a count was wrong, never for what happened to another
\* connection than that of the turn, and in select() only over a handler that
\* was registered again after it was closed.  HandlersInit is all that is asked
\* of the requests, and nothing of the faults.
THEOREM EndsKnown == Spec => DiesForCause
<1>1. ASSUME SInv, [Next]_vars, server' # server
      PROVE  IF turn = None THEN ~Clean /\ \E c \in Conns : Registered(c) /\ ~Holds(c)
             ELSE MayEnd(turn.handler)
  <2>1. CASE SelectFails
    BY <1>1, <2>1, ClosedInSets DEF SelectFails, AtSelect
  <2>2. CASE HandleAccept \/ HandleRead \/ HandleWrite
    BY <1>1, <2>2, AcceptEnds, ReadEnds, WriteEnds DEF EndsFor
  <2> QED BY <1>1, <2>1, <2>2, OthersEndNothing
<1> QED
  BY <1>1, Inductive, PTL DEF Spec, DiesForCause

\* The reactor implements the service, whatever its clients do, as long as they
\* send requests that leave neither a revived handler nor a number that is no
\* int: a step of the walk is a step of the service or is not seen.
THEOREM Implements == ASSUME PlainRequestsOnly PROVE Spec => ImplementsService
<1>1. Init => Service!Init
  BY InitServes DEF Init
<1>2. SInv /\ [Next]_vars => [Service!Next]_(Service!vars)
  <2> SUFFICES ASSUME SInv, [Next]_vars PROVE [Service!Next]_(Service!vars)
    OBVIOUS
  <2>1. CASE Next
    <3>1. PICK M : M = sel.map
      OBVIOUS
    <3>2. PICK N : N = sel'.map
      OBVIOUS
    <3>3. HInv(M) /\ HandlersStep(M, N)
      BY <2>1, <3>1, <3>2, ServerKeeps DEF SInv
    <3>4. server = "running"
      BY <2>1, RunsOn
    <3> QED BY <3>3, <3>4, HandlersServe
  <2>2. CASE UNCHANGED vars
    BY <2>2, FaultyDiskStays
       DEF vars, sockVars, handlerVars, Service!vars, Phase, Holds, Closed
  <2> QED BY <2>1, <2>2
<1> QED
  BY <1>1, <1>2, Inductive, PTL DEF Spec, ImplementsService, Service!Spec
============================================================================
