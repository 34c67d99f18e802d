------------------------ MODULE EventHandlersProofs ------------------------
(***************************************************************************)
(* What the two reactors have in common: the handlers, the descriptors and *)
(* the clients, whatever dispatcher calls the handlers back.  A dispatcher *)
(* appears here only as its map M of the events each handler is registered *)
(* for, and a step of a reactor as a step of the handlers that takes the   *)
(* map from M to N.                                                        *)
(*                                                                         *)
(* The argument.  While no handler was revived on a descriptor it closed,  *)
(* a handler is in the map exactly while the descriptor it was made for is *)
(* its own, so that what it reads, sends and closes is its client's.       *)
(***************************************************************************)
EXTENDS EventHandlers, FiniteSetTheorems, TLAPS

Listening == {"ACCEPT", "CLOSE"}
Reading   == {"READ", "CLOSE"}
Writing   == {"WRITE", "CLOSE"}

----------------------------------------------------------------------------
(* The invariant.  Its first part holds of every state, the second one     *)
(* while the state is clean.                                               *)

\* A handler waits for nothing, for bytes or for room, and has a descriptor
\* while it waits; a connection has a handler once it was accepted.
InvBase(M) ==
  /\ SocketsTypeOK /\ HandlersTypeOK
  /\ M \in [Handlers -> SUBSET ALL_EVENTS]
  /\ handle[Listener] = Listener
  /\ M[Listener] = Listening
  /\ \A c \in Conns :
       /\ handle[c] \in Fds \cup {None}
       /\ M[c] \in {{}, Reading, Writing}
       /\ handle[c] = None => M[c] = {}
       /\ peer[c] = "away" \/ c \in backlog => handle[c] = None
       /\ c \in backlog => peer[c] # "away"

\* The descriptor table: a descriptor is the connection's whose handler was
\* made for it, or one handler's file, or free.
InvTable ==
  /\ \A f \in Fds : owner[f] # None => handle[owner[f]] = f
  /\ \A c \in Conns : file[c] # None => Holds(c) /\ owner[file[c]] = None /\ wrote[c] > 0
  /\ \A c, d \in Conns : file[c] = file[d] /\ file[c] # None => c = d

\* No segment is read twice, and none is lost but by a reset.
InvSegments ==
  \A c \in Conns :
    /\ got[c] + inbox[c] + unsent[c] <= Total(c)
    /\ peer[c] # "reset" => got[c] + inbox[c] + unsent[c] = Total(c)
    /\ peer[c] = "reset" => inbox[c] = 0

\* A response is sent on its own connection, after the whole request, and the
\* connection is closed with its last chunk.
InvResponses ==
  \A c \in Conns :
    /\ handle[c] = None => got[c] = 0 /\ wrote[c] = 0
    /\ delivered[c] = IF wrote[c] = 0 THEN {} ELSE {c}
    /\ wrote[c] <= Writes
    /\ Holds(c) => wrote[c] < Writes
    /\ wrote[c] > 0 => request[c].kind \in Answerable /\ got[c] = Total(c)

\* The map holds the handlers whose descriptor is their own: those that still
\* read have sent nothing, those that write have an answer to send.
InvLinked(M) ==
  \A c \in Conns :
    /\ M[c] # {} <=> Holds(c)
    /\ M[c] = Reading => wrote[c] = 0
    /\ M[c] = Writing => request[c].kind \in Answerable /\ got[c] = Total(c)

InvClean(M) == InvTable /\ InvSegments /\ InvResponses /\ InvLinked(M)

HInv(M) == InvBase(M) /\ RevivedMeetNoFiles /\ (Clean => InvClean(M))

----------------------------------------------------------------------------
(* A step of a reactor, as the handlers and their clients see it.          *)

DoesNothing(M, N) == UNCHANGED sockVars /\ UNCHANGED handlerVars /\ N = M

ClientDoes(M, N) ==
  server = "running" /\ ClientStep /\ UNCHANGED handlerVars /\ N = M

DoesAccept(M, N) ==
  \E c \in backlog, f \in FreeFds : Accept(c, f) /\ N = [M EXCEPT ![c] = Reading]

\* What handleRead leaves in the map, per verdict.
WaitsAfter(v) ==
  CASE v \in {"more", "abort"}   -> Reading
    [] v \in {"reply", "revive"} -> Writing
    [] v = "close"               -> {}

DoesRead(M, N) ==
  \E h \in Conns :
    /\ M[h] = Reading /\ owner[handle[h]] # None
    /\ \E n \in Receivable(handle[h]) : \E v \in ReadVerdicts(h, n) :
         Read(h, n, v) /\ N = [M EXCEPT ![h] = WaitsAfter(v)]

DoesFailToRead(M, N) ==
  \E h \in Conns : M[h] = Reading /\ ReadFails(h) /\ N = [M EXCEPT ![h] = {}]

DoesWrite(M, N) ==
  \E h \in Conns :
    /\ M[h] = Writing /\ SendReturns(handle[h]) /\ Write(h)
    /\ N = IF LastChunk(h) THEN [M EXCEPT ![h] = {}] ELSE M

DoesThrow(M, N) == \E h \in Conns : M[h] = Writing /\ ProcessThrows(h) /\ N = M

DoesClose(M, N) ==
  \E h \in Conns :
    /\ M[h] # {} /\ (Holds(h) => peer[h] \in {"fin", "reset"})
    /\ Close(h) /\ N = [M EXCEPT ![h] = {}]

DoesEnd(M, N) ==
  /\ Fatal /\ N = M
  /\ \/ backlog # {} /\ FreeFds = {}
     \/ \E h \in Conns : M[h] # {} /\ SendFails(handle[h])
     \/ ~Clean

HandlersStep(M, N) ==
  \/ DoesNothing(M, N) \/ ClientDoes(M, N) \/ DoesAccept(M, N) \/ DoesRead(M, N)
  \/ DoesFailToRead(M, N) \/ DoesWrite(M, N) \/ DoesThrow(M, N) \/ DoesClose(M, N)
  \/ DoesEnd(M, N)

----------------------------------------------------------------------------
(* Facts about the sets and the numbers.                                   *)

LEMMA Interests ==
  /\ Reading # {} /\ Writing # {} /\ Reading # Writing
  /\ Listening # {} /\ "READ" \notin Listening /\ "WRITE" \notin Listening
  /\ {Listening, Reading, Writing, {}} \subseteq SUBSET ALL_EVENTS
BY DEF Listening, Reading, Writing, ALL_EVENTS

\* A request has at least one segment.
LEMMA RequestFacts ==
  ASSUME SocketsTypeOK, NEW c \in Conns
  PROVE  /\ request[c].kind \in Kinds /\ request[c].head \in Nat /\ request[c].body \in Nat
         /\ request[c].head > 0 /\ Total(c) \in Nat
         /\ request[c].head <= Total(c) /\ Total(c) > 0
<1>1. request[c] \in [kind : Kinds, head : Nat \ {0}, body : Nat]
  BY SocketsAssumption DEF SocketsTypeOK
<1> QED
  BY <1>1 DEF Total

\* What a handler can receive, and what handleRead may make of it.
LEMMA Receives ==
  ASSUME SocketsTypeOK, NEW f \in Fds, owner[f] # None, NEW n \in Receivable(f)
  PROVE  /\ owner[f] \in Conns /\ n \in Nat /\ n <= inbox[owner[f]]
         /\ n = 0 => peer[owner[f]] = "fin"
<1>1. owner[f] \in Conns /\ inbox[owner[f]] \in Nat
  BY DEF SocketsTypeOK
<1> QED
  BY <1>1 DEF Receivable

LEMMA VerdictFacts ==
  ASSUME SocketsTypeOK, HandlersTypeOK, NEW h \in Conns, NEW n \in Nat,
         NEW v \in ReadVerdicts(h, n)
  PROVE  /\ v \in Verdicts
         /\ n = 0 => v = "close"
         /\ n > 0 /\ Intact(h) =>
              /\ v = "reply" => request[h].kind \in Answerable /\ got[h] + n >= Total(h)
              /\ v = "close" => request[h].kind \in Revivers \cup {"malformed"}
              /\ v \in {"revive", "abort"} =>
                   /\ request[h].kind \in Revivers \cup {"badlength"}
                   /\ got[h] + n >= request[h].head
              /\ v = "revive" => request[h].kind \in Revivers
              /\ v = "abort" => request[h].kind \in {"badlength", "toolong"}
<1> DEFINE k == request[h].kind
           now == got[h] + n
           whole == now >= Total(h)
           byKind == CASE k \in Answerable -> {IF whole THEN "reply" ELSE "more"}
                       [] k = "nopath" -> {IF whole THEN "revive" ELSE "close"}
                       [] k = "malformed" -> {"close"}
                       [] k = "badlength" -> {"abort"}
                       [] k = "toolong" -> {"close", "revive", "abort"}
<1>1. k \in Kinds /\ request[h].head \in Nat /\ now \in Nat
  BY RequestFacts DEF HandlersTypeOK
<1>2. ASSUME v \in byKind
      PROVE  /\ v \in Verdicts
             /\ v = "reply" => k \in Answerable /\ whole
             /\ v = "close" => k \in Revivers \cup {"malformed"}
             /\ v \in {"revive", "abort"} => k \in Revivers \cup {"badlength"}
             /\ v = "revive" => k \in Revivers
             /\ v = "abort" => k \in {"badlength", "toolong"}
  <2> HIDE DEF whole, k
  <2>1. k \in {"good", "file", "list", "nopath", "malformed", "badlength", "toolong"}
    BY <1>1 DEF Kinds
  <2>2. CASE k \in Answerable
    BY <1>2, <2>2 DEF Answerable, Verdicts, Revivers
  <2>3. CASE k = "nopath"
    BY <1>2, <2>3 DEF Answerable, Verdicts, Revivers
  <2>4. CASE k = "malformed"
    BY <1>2, <2>4 DEF Answerable, Verdicts, Revivers
  <2>5. CASE k = "badlength"
    BY <1>2, <2>5 DEF Answerable, Verdicts, Revivers
  <2>6. CASE k = "toolong"
    BY <1>2, <2>6 DEF Answerable, Verdicts, Revivers
  <2> QED BY <2>1, <2>2, <2>3, <2>4, <2>5, <2>6 DEF Answerable
<1> HIDE DEF byKind
<1>3. v \in CASE n = 0                                       -> {"close"}
              [] n > 0 /\ ~Intact(h)                         -> Verdicts
              [] n > 0 /\ Intact(h) /\ now < request[h].head -> {"more"}
              [] n > 0 /\ Intact(h) /\ now >= request[h].head -> byKind
  BY DEF ReadVerdicts, byKind
<1>4. CASE n = 0
  BY <1>3, <1>4 DEF Verdicts
<1>5. CASE n > 0 /\ ~Intact(h)
  BY <1>3, <1>5 DEF Verdicts
<1>6. CASE n > 0 /\ Intact(h) /\ now < request[h].head
  <2>1. v = "more"
    <3> HIDE DEF now
    <3> QED BY <1>1, <1>3, <1>6
  <2> QED BY <1>6, <2>1 DEF Verdicts
<1>7. CASE n > 0 /\ Intact(h) /\ now >= request[h].head
  <2>1. v \in byKind
    <3> HIDE DEF now
    <3> QED BY <1>1, <1>3, <1>7
  <2> QED BY <1>2, <1>7, <2>1
<1> QED
  BY <1>1, <1>4, <1>5, <1>6, <1>7

----------------------------------------------------------------------------
(* What every step of the handlers keeps, revived handlers or not.         *)

\* The map, as a step leaves it.
LEMMA MapKeeps ==
  ASSUME NEW M \in [Handlers -> SUBSET ALL_EVENTS], NEW c \in Conns,
         NEW s \in {{}, Reading, Writing}, NEW N, N = [M EXCEPT ![c] = s]
  PROVE  /\ N \in [Handlers -> SUBSET ALL_EVENTS]
         /\ N[c] = s
         /\ \A x \in Handlers : x # c => N[x] = M[x]
         /\ c \in Handlers /\ c # Listener /\ Listener \in Handlers
<1>1. c \in Handlers /\ s \in SUBSET ALL_EVENTS
  BY Interests DEF Handlers
<1> QED
  BY <1>1, EventHandlersAssumption DEF Handlers

LEMMA ClientTypes ==
  ASSUME SocketsTypeOK, ClientStep
  PROVE  /\ SocketsTypeOK' /\ owner' = owner /\ request' = request
         /\ \A x \in Conns :
              /\ peer'[x] = "away" \/ x \in backlog' => peer[x] = "away" \/ x \in backlog
              /\ x \in backlog' /\ peer'[x] = "away" => x \in backlog /\ peer[x] = "away"
<1>1. PICK c \in Conns :
        Connect(c) \/ Send(c) \/ Fin(c) \/ Reset(c) \/ Stall(c) \/ Abort(c)
  BY DEF ClientStep
<1>2. CASE Connect(c)
  BY <1>2 DEF SocketsTypeOK, PeerStates, Connect
<1>3. CASE Send(c)
  BY <1>3 DEF SocketsTypeOK, PeerStates, Send
<1>4. CASE Fin(c) \/ Stall(c)
  BY <1>4 DEF SocketsTypeOK, PeerStates, Fin, Stall
<1>5. CASE Reset(c) \/ Abort(c)
  BY <1>5 DEF SocketsTypeOK, PeerStates, Reset, Abort
<1> QED
  BY <1>1, <1>2, <1>3, <1>4, <1>5

\* handleRead takes no more segments than there are.
LEMMA ReadKeepsTypes ==
  ASSUME SocketsTypeOK, HandlersTypeOK, NEW h \in Conns, handle[h] \in Fds,
         owner[handle[h]] # None, NEW n \in Receivable(handle[h]), NEW v, Read(h, n, v)
  PROVE  SocketsTypeOK' /\ HandlersTypeOK'
<1>1. /\ owner[handle[h]] \in Conns /\ n \in Nat /\ n <= inbox[owner[handle[h]]]
  BY Receives
<1>2. inbox' \in [Conns -> Nat] /\ got' \in [Conns -> Nat]
  BY <1>1 DEF SocketsTypeOK, HandlersTypeOK, Read
<1>3. owner' \in [Fds -> Conns \cup {None}]
  BY DEF SocketsTypeOK, Read
<1> QED
  BY <1>2, <1>3 DEF SocketsTypeOK, HandlersTypeOK, Read

LEMMA ReadFailsKeepsTypes ==
  ASSUME SocketsTypeOK, HandlersTypeOK, NEW h \in Conns, handle[h] \in Fds, ReadFails(h)
  PROVE  /\ SocketsTypeOK' /\ HandlersTypeOK'
         /\ \A c \in Conns : peer'[c] = "away" => peer[c] = "away"
<1>1. inbox' \in [Conns -> Nat] /\ peer' \in [Conns -> PeerStates]
      /\ owner' \in [Fds -> Conns \cup {None}]
  BY DEF SocketsTypeOK, ReadFails, PeerStates
<1>2. SocketsTypeOK' /\ HandlersTypeOK'
  BY <1>1 DEF SocketsTypeOK, HandlersTypeOK, ReadFails
<1> QED
  BY <1>2 DEF SocketsTypeOK, ReadFails

LEMMA WriteKeepsTypes ==
  ASSUME SocketsTypeOK, HandlersTypeOK, NEW h \in Conns, handle[h] \in Fds,
         SendReturns(handle[h]), Write(h)
  PROVE  SocketsTypeOK' /\ HandlersTypeOK'
<1>1. owner[handle[h]] \in Conns
  BY DEF SocketsTypeOK, SendReturns
<1>2. SocketsTypeOK'
  <2>1. owner' \in [Fds -> Conns \cup {None}]
    BY DEF SocketsTypeOK, Write
  <2> QED BY <2>1 DEF SocketsTypeOK, Write
<1>3. delivered' \in [Conns -> SUBSET Conns]
  <2>1. delivered[owner[handle[h]]] \cup {h} \in SUBSET Conns
    BY <1>1 DEF HandlersTypeOK
  <2> QED BY <1>1, <2>1 DEF HandlersTypeOK, Write
<1>4. file' \in [Conns -> Fds \cup {None}]
  <2>1. PICK g \in Opened(h) : file' = [file EXCEPT ![h] = IF LastChunk(h) THEN None ELSE g]
    BY DEF Write
  <2>2. g \in Fds \cup {None}
    BY <2>1 DEF Opened, FreeFds, HandlersTypeOK
  <2> QED BY <2>1, <2>2 DEF HandlersTypeOK
<1>5. wrote' \in [Conns -> Nat]
  BY DEF HandlersTypeOK, Write
<1> QED
  BY <1>2, <1>3, <1>4, <1>5 DEF HandlersTypeOK, Write

\* A handler that is in the map is a connection's, with a descriptor.
LEMMA RegisteredHasFd ==
  ASSUME NEW M, InvBase(M), NEW h \in Conns, M[h] # {}
  PROVE  handle[h] \in Fds
BY DEF InvBase

\* The first part of the invariant, and the request as it is read: nothing that
\* was read is unread, so that a clean state comes from a clean one.
LEMMA BaseKeeps ==
  ASSUME NEW M, NEW N, InvBase(M), HandlersStep(M, N)
  PROVE  InvBase(N)' /\ (Clean' => Clean) /\ request' = request
<1> DEFINE Others(h) ==
      /\ \A c \in Conns : peer'[c] = "away" => peer[c] = "away"
      /\ backlog' = backlog /\ handle' = handle
      /\ request' = request /\ \A c \in Conns : got'[c] >= got[c]
<1>0. /\ Listener \notin Conns /\ Reading # {} /\ Writing # {}
      /\ \A c \in Conns : got[c] \in Nat /\ request[c].head \in Nat
      /\ SocketsTypeOK /\ HandlersTypeOK /\ M \in [Handlers -> SUBSET ALL_EVENTS]
  BY EventHandlersAssumption, Interests, RequestFacts DEF InvBase, HandlersTypeOK
<1>1. ASSUME NEW h \in Conns, M[h] # {}, NEW s \in {{}, Reading, Writing},
             N = [M EXCEPT ![h] = s] \/ N = M,
             SocketsTypeOK', HandlersTypeOK', Others(h)
      PROVE  InvBase(N)' /\ (Clean' => Clean) /\ request' = request
  <2>1. /\ N \in [Handlers -> SUBSET ALL_EVENTS] /\ N[Listener] = M[Listener]
        /\ \A x \in Conns : N[x] = M[x] \/ (x = h /\ N[x] = s)
    <3>1. CASE N = [M EXCEPT ![h] = s]
      BY <1>0, <3>1, MapKeeps DEF Handlers
    <3>2. CASE N = M
      BY <1>0, <3>2
    <3> QED BY <1>1, <3>1, <3>2
  <2>2. InvBase(N)'
    BY <1>0, <1>1, <2>1 DEF InvBase
  <2>3. Clean' => Clean
    <3> SUFFICES ASSUME NEW c \in Conns, request[c].kind \in Revivers,
                        got'[c] < request[c].head
                 PROVE  got[c] < request[c].head
      BY <1>1 DEF Clean
    <3>1. got'[c] \in Nat /\ got[c] \in Nat /\ request[c].head \in Nat /\ got'[c] >= got[c]
      BY <1>0, <1>1 DEF HandlersTypeOK
    <3> QED BY <3>1
  <2> QED BY <1>1, <2>2, <2>3
<1>2. CASE DoesNothing(M, N)
  BY <1>2 DEF DoesNothing, sockVars, handlerVars, InvBase, Clean, SocketsTypeOK, HandlersTypeOK
<1>3. CASE ClientDoes(M, N)
  <2>1. /\ SocketsTypeOK' /\ request' = request
        /\ \A x \in Conns :
              /\ peer'[x] = "away" \/ x \in backlog' => peer[x] = "away" \/ x \in backlog
              /\ x \in backlog' /\ peer'[x] = "away" => x \in backlog /\ peer[x] = "away"
    BY <1>0, <1>3, ClientTypes DEF ClientDoes
  <2>2. /\ HandlersTypeOK' /\ handle' = handle /\ got' = got /\ N = M
    BY <1>0, <1>3 DEF ClientDoes, HandlersTypeOK, handlerVars
  <2> QED BY <2>1, <2>2 DEF InvBase, Clean
<1>4. CASE DoesAccept(M, N)
  <2>1. PICK c \in backlog, f \in FreeFds : Accept(c, f) /\ N = [M EXCEPT ![c] = Reading]
    BY <1>4 DEF DoesAccept
  <2>2. c \in Conns /\ f \in Fds /\ handle[c] = None /\ peer[c] # "away"
    BY DEF FreeFds, InvBase, SocketsTypeOK
  <2>3. /\ N \in [Handlers -> SUBSET ALL_EVENTS] /\ N[c] = Reading /\ c # Listener
        /\ \A x \in Handlers : x # c => N[x] = M[x]
    BY <1>0, <2>1, <2>2, MapKeeps
  <2>4. SocketsTypeOK' /\ HandlersTypeOK'
    BY <1>0, <2>1, <2>2 DEF SocketsTypeOK, HandlersTypeOK, Accept
  <2>5. /\ handle'[c] = f /\ f # None
        /\ \A x \in Handlers : x # c => handle'[x] = handle[x]
    BY <1>0, <2>1, <2>2, SocketsAssumption DEF HandlersTypeOK, Accept, Handlers
  <2>6. /\ handle'[Listener] = Listener /\ N[Listener] = Listening
    BY <2>3, <2>5 DEF InvBase, Handlers
  <2>7. ASSUME NEW x \in Conns
        PROVE  /\ handle'[x] \in Fds \cup {None}
               /\ N[x] \in {{}, Reading, Writing}
               /\ handle'[x] = None => N[x] = {}
               /\ peer'[x] = "away" \/ x \in backlog' => handle'[x] = None
               /\ x \in backlog' => peer'[x] # "away"
    <3>1. peer' = peer /\ backlog' = backlog \ {c}
      BY <2>1 DEF Accept
    <3>2. CASE x = c
      BY <2>2, <2>3, <2>5, <3>1, <3>2
    <3>3. CASE x # c
      BY <2>3, <2>5, <3>1, <3>3 DEF InvBase, Handlers
    <3> QED BY <3>2, <3>3
  <2>8. (Clean' => Clean) /\ request' = request
    BY <2>1 DEF Accept, Clean
  <2> QED BY <2>3, <2>4, <2>6, <2>7, <2>8 DEF InvBase
<1>5. CASE DoesRead(M, N)
  <2>1. PICK h \in Conns : /\ M[h] = Reading /\ owner[handle[h]] # None
                           /\ \E n \in Receivable(handle[h]) : \E v \in ReadVerdicts(h, n) :
                                Read(h, n, v) /\ N = [M EXCEPT ![h] = WaitsAfter(v)]
    BY <1>5 DEF DoesRead
  <2>2. PICK n \in Receivable(handle[h]) : \E v \in ReadVerdicts(h, n) :
               Read(h, n, v) /\ N = [M EXCEPT ![h] = WaitsAfter(v)]
    BY <2>1
  <2>3. PICK v \in ReadVerdicts(h, n) : Read(h, n, v) /\ N = [M EXCEPT ![h] = WaitsAfter(v)]
    BY <2>2
  <2>4. handle[h] \in Fds /\ n \in Nat
    BY <1>0, <2>1, RegisteredHasFd, Receives
  <2>5. WaitsAfter(v) \in {{}, Reading, Writing}
    BY <1>0, <2>4, VerdictFacts DEF WaitsAfter, Verdicts
  <2>6. SocketsTypeOK' /\ HandlersTypeOK'
    BY <1>0, <2>1, <2>3, <2>4, ReadKeepsTypes
  <2>7. Others(h)
    BY <1>0, <2>3, <2>4 DEF Read, HandlersTypeOK
  <2> QED BY <1>0, <1>1, <2>1, <2>3, <2>5, <2>6, <2>7
<1>6. CASE DoesFailToRead(M, N)
  <2>1. PICK h \in Conns : M[h] = Reading /\ ReadFails(h) /\ N = [M EXCEPT ![h] = {}]
    BY <1>6 DEF DoesFailToRead
  <2>2. /\ SocketsTypeOK' /\ HandlersTypeOK'
        /\ \A c \in Conns : peer'[c] = "away" => peer[c] = "away"
    BY <1>0, <2>1, RegisteredHasFd, ReadFailsKeepsTypes
  <2>3. Others(h)
    BY <1>0, <2>1, <2>2 DEF ReadFails
  <2> QED BY <1>0, <1>1, <2>1, <2>2, <2>3
<1>7. CASE DoesWrite(M, N)
  <2>1. PICK h \in Conns : /\ M[h] = Writing /\ SendReturns(handle[h]) /\ Write(h)
                           /\ N = IF LastChunk(h) THEN [M EXCEPT ![h] = {}] ELSE M
    BY <1>7 DEF DoesWrite
  <2>2. SocketsTypeOK' /\ HandlersTypeOK'
    BY <1>0, <2>1, RegisteredHasFd, WriteKeepsTypes
  <2>3. Others(h)
    BY <1>0, <2>1 DEF Write
  <2> QED BY <1>0, <1>1, <2>1, <2>2, <2>3
<1>8. CASE DoesThrow(M, N) \/ DoesEnd(M, N)
  BY <1>8 DEF DoesThrow, ProcessThrows, DoesEnd, Fatal, sockVars, InvBase, Clean,
              SocketsTypeOK, HandlersTypeOK
<1>9. CASE DoesClose(M, N)
  <2>1. PICK h \in Conns : M[h] # {} /\ Close(h) /\ N = [M EXCEPT ![h] = {}]
    BY <1>9 DEF DoesClose
  <2>2. SocketsTypeOK' /\ HandlersTypeOK'
    BY <1>0, <2>1 DEF SocketsTypeOK, HandlersTypeOK, Close
  <2>3. Others(h)
    BY <1>0, <2>1 DEF Close
  <2> QED BY <1>0, <1>1, <2>1, <2>2, <2>3
<1> QED
  BY <1>2, <1>3, <1>4, <1>5, <1>6, <1>7, <1>8, <1>9 DEF HandlersStep

----------------------------------------------------------------------------
(* What they keep while the state is clean.                                *)

\* A handler of the map owns its descriptor, alone.
LEMMA OwnFd ==
  ASSUME NEW M, InvBase(M), InvLinked(M), NEW h \in Conns, M[h] # {}
  PROVE  /\ Holds(h) /\ handle[h] \in Fds /\ owner[handle[h]] = h
         /\ h \notin backlog /\ peer[h] # "away" /\ h # None
         /\ M[h] \in {Reading, Writing}
<1>1. Holds(h) /\ M[h] \in {Reading, Writing}
  BY DEF InvLinked, InvBase
<1>2. handle[h] \in Fds /\ handle[h] # None /\ h # None
  BY <1>1, SocketsAssumption DEF Holds
<1> QED
  BY <1>1, <1>2 DEF Holds, InvBase

\* The handlers that own a descriptor once h may have closed its own.
LEMMA HoldsAfter ==
  ASSUME SocketsTypeOK, NEW h \in Conns, Holds(h), handle' = handle
  PROVE  /\ owner' = owner => \A x \in Conns : Holds(x)' <=> Holds(x)
         /\ owner' = [owner EXCEPT ![handle[h]] = None] =>
              \A x \in Conns : Holds(x)' <=> Holds(x) /\ x # h
<1>1. owner' = owner => \A x \in Conns : Holds(x)' <=> Holds(x)
  BY DEF Holds
<1>2. ASSUME owner' = [owner EXCEPT ![handle[h]] = None], NEW x \in Conns
      PROVE  Holds(x)' <=> Holds(x) /\ x # h
  <2>1. x # None /\ owner \in [Fds -> Conns \cup {None}] /\ handle[h] \in Fds
    BY SocketsAssumption DEF SocketsTypeOK, Holds
  <2>2. CASE handle[x] \in Fds
    BY <1>2, <2>1, <2>2 DEF Holds
  <2>3. CASE handle[x] \notin Fds
    BY <2>3 DEF Holds
  <2> QED BY <2>2, <2>3
<1> QED
  BY <1>1, <1>2

\* A callback of h keeps the table if it closes the file with the descriptor,
\* and opens none but a free one.
LEMMA TableKeeps ==
  ASSUME SocketsTypeOK, InvTable, NEW h \in Conns, Holds(h), handle' = handle,
         \/ owner' = owner
         \/ owner' = [owner EXCEPT ![handle[h]] = None] /\ file'[h] = None,
         \A x \in Conns : x # h => file'[x] = file[x] /\ wrote'[x] = wrote[x],
         file'[h] # None => wrote'[h] > 0,
         file'[h] \in {None, file[h]} \cup FreeFds
  PROVE  InvTable'
<1>1. /\ owner \in [Fds -> Conns \cup {None}] /\ handle[h] \in Fds
      /\ owner[handle[h]] = h /\ h # None
  BY SocketsAssumption DEF SocketsTypeOK, Holds
<1>2. \A f \in Fds : owner'[f] = owner[f] \/ owner'[f] = None
  BY <1>1
<1>3. \A f \in Fds : owner'[f] # None => handle'[owner'[f]] = f
  BY <1>2 DEF InvTable
<1>4. ASSUME NEW c \in Conns, file'[c] # None
      PROVE  Holds(c)' /\ owner'[file'[c]] = None /\ wrote'[c] > 0
  <2>1. Holds(c) /\ Holds(c)'
    <3>1. CASE c = h
      BY <1>4, <3>1, HoldsAfter
    <3>2. CASE c # h
      BY <1>4, <3>2, HoldsAfter DEF InvTable
    <3> QED BY <3>1, <3>2
  <2>2. wrote'[c] > 0
    BY <1>4 DEF InvTable
  <2>3. owner[file'[c]] = None /\ (file'[c] \in Fds => owner'[file'[c]] = None)
    BY <1>2, <1>4 DEF InvTable, FreeFds
  <2>4. owner'[file'[c]] = None
    <3>1. CASE owner' = owner
      BY <2>3, <3>1
    <3>2. CASE owner' # owner
      <4>1. owner' = [owner EXCEPT ![handle[h]] = None]
        BY <3>2
      <4>2. file'[c] # handle[h]
        BY <1>1, <2>3
      <4>3. CASE file'[c] \in Fds
        BY <2>3, <4>3
      <4>4. CASE file'[c] \notin Fds
        BY <1>1, <2>3, <4>1, <4>4
      <4> QED BY <4>3, <4>4
    <3> QED BY <3>1, <3>2
  <2> QED BY <2>1, <2>2, <2>4
<1>5. ASSUME NEW c \in Conns, NEW d \in Conns, file'[c] = file'[d], file'[c] # None
      PROVE  c = d
  BY <1>5 DEF InvTable, FreeFds
<1> QED
  BY <1>3, <1>4, <1>5 DEF InvTable

LEMMA ClientKeeps ==
  ASSUME NEW M, InvBase(M), InvClean(M), NEW N, ClientDoes(M, N)
  PROVE  InvClean(N)'
<1>1. /\ handle' = handle /\ got' = got /\ wrote' = wrote /\ delivered' = delivered
      /\ file' = file /\ N = M
  BY DEF ClientDoes, handlerVars
<1>2. SocketsTypeOK /\ HandlersTypeOK /\ owner' = owner /\ request' = request
  BY ClientTypes DEF InvBase, ClientDoes
<1>3. InvTable' /\ InvResponses' /\ InvLinked(N)'
  BY <1>1, <1>2 DEF InvClean, InvTable, InvResponses, InvLinked, Holds, Total
<1>4. InvSegments'
  <2>1. PICK c \in Conns :
          Connect(c) \/ Send(c) \/ Fin(c) \/ Reset(c) \/ Stall(c) \/ Abort(c)
    BY DEF ClientDoes, ClientStep
  <2> SUFFICES ASSUME NEW x \in Conns
               PROVE  /\ got[x] + inbox'[x] + unsent'[x] <= Total(x)
                      /\ peer'[x] # "reset" => got[x] + inbox'[x] + unsent'[x] = Total(x)
                      /\ peer'[x] = "reset" => inbox'[x] = 0
    BY <1>1, <1>2 DEF InvSegments, Total
  <2>2. /\ got[x] \in Nat /\ inbox[x] \in Nat /\ unsent[x] \in Nat /\ Total(x) \in Nat
    BY <1>2, RequestFacts DEF SocketsTypeOK, HandlersTypeOK
  <2>3. /\ got[x] + inbox[x] + unsent[x] <= Total(x)
        /\ peer[x] # "reset" => got[x] + inbox[x] + unsent[x] = Total(x)
        /\ peer[x] = "reset" => inbox[x] = 0
    BY DEF InvClean, InvSegments
  <2> HIDE DEF Total
  <2>4. CASE Connect(c) \/ Fin(c) \/ Stall(c)
    BY <1>2, <2>3, <2>4 DEF SocketsTypeOK, Connect, Fin, Stall
  <2>5. CASE Send(c)
    BY <1>2, <2>2, <2>3, <2>5 DEF SocketsTypeOK, Send
  <2>6. CASE Reset(c) \/ Abort(c)
    <3>1. /\ inbox'[x] = IF x = c THEN 0 ELSE inbox[x]
          /\ peer'[x] = IF x = c THEN "reset" ELSE peer[x]
          /\ unsent' = unsent
      BY <1>2, <2>6 DEF SocketsTypeOK, Reset, Abort
    <3> QED BY <2>2, <2>3, <3>1
  <2> QED BY <2>1, <2>4, <2>5, <2>6
<1> QED
  BY <1>3, <1>4 DEF InvClean

LEMMA AcceptKeeps ==
  ASSUME NEW M, InvBase(M), InvClean(M), NEW N, DoesAccept(M, N)
  PROVE  InvClean(N)'
<1>1. PICK c \in backlog, f \in FreeFds : Accept(c, f) /\ N = [M EXCEPT ![c] = Reading]
  BY DEF DoesAccept
<1>2. /\ c \in Conns /\ f \in Fds /\ owner[f] = None /\ \A x \in Conns : file[x] # f
      /\ c # None /\ f # None /\ handle[c] = None /\ ~Holds(c)
  BY SocketsAssumption DEF FreeFds, InvBase, SocketsTypeOK, Holds
<1>3. /\ got' = got /\ wrote' = wrote /\ delivered' = delivered /\ file' = file
      /\ request' = request /\ peer' = peer /\ inbox' = inbox /\ unsent' = unsent
      /\ SocketsTypeOK /\ HandlersTypeOK /\ M \in [Handlers -> SUBSET ALL_EVENTS]
      /\ Conns \subseteq Handlers /\ Reading # {} /\ Reading # Writing
  BY <1>1, Interests DEF Accept, InvBase, Handlers
<1>4. /\ handle'[c] = f /\ \A x \in Conns : x # c => handle'[x] = handle[x]
      /\ owner'[f] = c /\ \A i \in Fds : i # f => owner'[i] = owner[i]
      /\ N[c] = Reading /\ \A x \in Conns : x # c => N[x] = M[x]
  BY <1>1, <1>2, <1>3 DEF Accept, SocketsTypeOK, HandlersTypeOK
<1>5. /\ got[c] = 0 /\ wrote[c] = 0 /\ file[c] = None /\ Writes > 0
  <2>1. got[c] = 0 /\ wrote[c] = 0
    BY <1>2 DEF InvClean, InvResponses
  <2>2. file[c] = None
    BY <1>2 DEF InvClean, InvTable
  <2> QED BY <2>1, <2>2, EventHandlersAssumption
<1>6. Holds(c)' /\ \A x \in Conns : x # c => (Holds(x)' <=> Holds(x))
  <2>1. Holds(c)'
    BY <1>2, <1>4 DEF Holds
  <2>2. ASSUME NEW x \in Conns, x # c PROVE Holds(x)' <=> Holds(x)
    <3>1. x # None /\ handle'[x] = handle[x]
      BY <1>4, <2>2, SocketsAssumption
    <3>2. CASE handle[x] = f
      BY <1>2, <1>4, <2>2, <3>1, <3>2 DEF Holds
    <3>3. CASE handle[x] # f
      BY <1>4, <3>1, <3>3 DEF Holds
    <3> QED BY <3>2, <3>3
  <2> QED BY <2>1, <2>2
<1>7. InvTable'
  <2>1. ASSUME NEW i \in Fds, owner'[i] # None PROVE handle'[owner'[i]] = i
    <3>1. CASE i = f
      BY <1>4, <3>1
    <3>2. CASE i # f
      <4>1. owner'[i] = owner[i] /\ owner[i] \in Conns /\ handle[owner[i]] = i
        BY <1>3, <1>4, <2>1, <3>2 DEF InvClean, InvTable, SocketsTypeOK
      <4>2. owner[i] # c
        BY <1>2, <4>1, SocketsAssumption
      <4> QED BY <1>4, <4>1, <4>2
    <3> QED BY <3>1, <3>2
  <2>2. ASSUME NEW x \in Conns, file[x] # None
        PROVE  Holds(x)' /\ owner'[file[x]] = None /\ wrote[x] > 0
    <3>1. x # c /\ Holds(x) /\ owner[file[x]] = None /\ wrote[x] > 0 /\ file[x] \in Fds
      BY <1>3, <1>5, <2>2 DEF InvClean, InvTable, HandlersTypeOK
    <3> QED BY <1>2, <1>4, <1>6, <3>1
  <2> QED BY <1>3, <2>1, <2>2 DEF InvClean, InvTable
<1>8. InvSegments'
  BY <1>3 DEF InvClean, InvSegments, Total
<1>9. InvResponses'
  <2> SUFFICES ASSUME NEW x \in Conns
               PROVE  /\ handle'[x] = None => got[x] = 0 /\ wrote[x] = 0
                      /\ Holds(x)' => wrote[x] < Writes
    BY <1>3 DEF InvClean, InvResponses, Total
  <2>1. CASE x = c
    BY <1>5, <2>1
  <2>2. CASE x # c
    BY <1>4, <1>6, <2>2 DEF InvClean, InvResponses
  <2> QED BY <2>1, <2>2
<1>10. InvLinked(N)'
  BY <1>3, <1>4, <1>5, <1>6 DEF InvClean, InvLinked, Total
<1> QED
  BY <1>7, <1>8, <1>9, <1>10 DEF InvClean

\* What is left of the map, per verdict.
LEMMA WaitsFacts ==
  /\ WaitsAfter("more") = Reading /\ WaitsAfter("abort") = Reading
  /\ WaitsAfter("reply") = Writing /\ WaitsAfter("revive") = Writing
  /\ WaitsAfter("close") = {}
BY DEF WaitsAfter

\* The rest of the invariant when h closes its descriptor and nothing else
\* that the clients see changes but what h has read.
LEMMA RestAfterClose ==
  ASSUME NEW M, InvBase(M), InvClean(M), NEW h \in Conns, M[h] # {}, NEW N,
         N = [M EXCEPT ![h] = {}], handle' = handle, request' = request,
         owner' = [owner EXCEPT ![handle[h]] = None], 
         wrote' = wrote, delivered' = delivered, wrote[h] > 0 => got'[h] = got[h],
         \A x \in Conns : x # h => got'[x] = got[x]
  PROVE  InvResponses' /\ InvLinked(N)'
<1>1. /\ Holds(h) /\ handle[h] # None
      /\ SocketsTypeOK /\ M \in [Handlers -> SUBSET ALL_EVENTS] /\ Conns \subseteq Handlers
  BY OwnFd, SocketsAssumption DEF InvClean, InvBase, Handlers
<1>2. \A x \in Conns : Holds(x)' <=> Holds(x) /\ x # h
  BY <1>1, HoldsAfter
<1>3. N[h] = {} /\ \A x \in Conns : x # h => N[x] = M[x]
  BY <1>1
<1>4. InvResponses'
  <2> SUFFICES ASSUME NEW x \in Conns
               PROVE  /\ handle[x] = None => got'[x] = 0 /\ wrote[x] = 0
                      /\ delivered[x] = IF wrote[x] = 0 THEN {} ELSE {x}
                      /\ wrote[x] <= Writes
                      /\ Holds(x)' => wrote[x] < Writes
                      /\ wrote[x] > 0 => request[x].kind \in Answerable /\ got'[x] = Total(x)
    BY DEF InvResponses, Total
  <2>1. /\ handle[x] = None => got[x] = 0 /\ wrote[x] = 0
        /\ delivered[x] = IF wrote[x] = 0 THEN {} ELSE {x}
        /\ wrote[x] <= Writes
        /\ Holds(x) => wrote[x] < Writes
        /\ wrote[x] > 0 => request[x].kind \in Answerable /\ got[x] = Total(x)
    BY DEF InvClean, InvResponses
  <2>2. CASE x = h
    BY <1>1, <1>2, <2>1, <2>2
  <2>3. CASE x # h
    BY <1>2, <2>1, <2>3
  <2> QED BY <2>2, <2>3
<1>5. InvLinked(N)'
  <2> SUFFICES ASSUME NEW x \in Conns
               PROVE  /\ N[x] # {} <=> Holds(x)'
                      /\ N[x] = Reading => wrote[x] = 0
                      /\ N[x] = Writing =>
                           request[x].kind \in Answerable /\ got'[x] = Total(x)
    BY DEF InvLinked, Total
  <2>1. CASE x = h
    BY <1>2, <1>3, <2>1, Interests
  <2>2. CASE x # h
    BY <1>2, <1>3, <2>2 DEF InvClean, InvLinked
  <2> QED BY <2>1, <2>2
<1> QED
  BY <1>4, <1>5

LEMMA ReadKeeps ==
  ASSUME NEW M, InvBase(M), InvClean(M), NEW N, DoesRead(M, N), Clean'
  PROVE  InvClean(N)'
<1>1. PICK h \in Conns : /\ M[h] = Reading /\ owner[handle[h]] # None
                         /\ \E n \in Receivable(handle[h]) : \E v \in ReadVerdicts(h, n) :
                              Read(h, n, v) /\ N = [M EXCEPT ![h] = WaitsAfter(v)]
  BY DEF DoesRead
<1>2. /\ Holds(h) /\ handle[h] \in Fds /\ owner[handle[h]] = h /\ handle[h] # None
      /\ M[h] # {} /\ wrote[h] = 0 /\ file[h] = None
      /\ SocketsTypeOK /\ HandlersTypeOK /\ M \in [Handlers -> SUBSET ALL_EVENTS]
      /\ Conns \subseteq Handlers
  <2>1. M[h] # {} /\ Holds(h) /\ handle[h] \in Fds /\ owner[handle[h]] = h
    BY <1>1, OwnFd, Interests DEF InvClean
  <2>2. wrote[h] = 0
    BY <1>1 DEF InvClean, InvLinked
  <2>3. file[h] = None
    BY <2>2 DEF InvClean, InvTable
  <2> QED BY <2>1, <2>2, <2>3, SocketsAssumption DEF InvBase, Handlers
<1>3. PICK n \in Receivable(handle[h]) : \E v \in ReadVerdicts(h, n) :
             Read(h, n, v) /\ N = [M EXCEPT ![h] = WaitsAfter(v)]
  BY <1>1
<1>4. PICK v \in ReadVerdicts(h, n) : Read(h, n, v) /\ N = [M EXCEPT ![h] = WaitsAfter(v)]
  BY <1>3
<1>5. n \in Nat /\ n <= inbox[h] /\ v \in Verdicts
  <2>1. n \in Nat /\ n <= inbox[h]
    BY <1>1, <1>2, Receives
  <2> QED BY <1>2, <2>1, VerdictFacts
<1>6. /\ got' = [got EXCEPT ![h] = @ + n] /\ inbox' = [inbox EXCEPT ![h] = @ - n]
      /\ owner' = IF v \in {"close", "revive"} THEN [owner EXCEPT ![handle[h]] = None] ELSE owner
      /\ request' = request /\ peer' = peer /\ unsent' = unsent /\ handle' = handle
      /\ wrote' = wrote /\ delivered' = delivered /\ file' = file
  BY <1>2, <1>4 DEF Read
<1>7. ASSUME NEW x \in Conns
      PROVE  /\ got[x] \in Nat /\ inbox[x] \in Nat /\ unsent[x] \in Nat /\ Total(x) \in Nat
             /\ got[x] + inbox[x] + unsent[x] <= Total(x)
             /\ peer[x] # "reset" => got[x] + inbox[x] + unsent[x] = Total(x)
             /\ peer[x] = "reset" => inbox[x] = 0
  BY <1>2, RequestFacts DEF SocketsTypeOK, HandlersTypeOK, InvClean, InvSegments
<1>8. /\ got'[h] = got[h] + n /\ \A x \in Conns : x # h => got'[x] = got[x]
      /\ inbox'[h] = inbox[h] - n /\ \A x \in Conns : x # h => inbox'[x] = inbox[x]
  BY <1>2, <1>6 DEF SocketsTypeOK, HandlersTypeOK
<1>9. InvTable'
  BY <1>2, <1>6, TableKeeps DEF InvClean
<1>10. InvSegments'
  <2> SUFFICES ASSUME NEW x \in Conns
               PROVE  /\ got'[x] + inbox'[x] + unsent[x] <= Total(x)
                      /\ peer[x] # "reset" => got'[x] + inbox'[x] + unsent[x] = Total(x)
                      /\ peer[x] = "reset" => inbox'[x] = 0
    BY <1>6 DEF InvSegments, Total
  <2> HIDE DEF Total
  <2>1. CASE x = h
    BY <1>5, <1>7, <1>8, <2>1
  <2>2. CASE x # h
    BY <1>7, <1>8, <2>2
  <2> QED BY <2>1, <2>2
<1>11. n > 0 => Intact(h)
  BY <1>2, <1>5, <1>7 DEF Intact
<1>12. v # "revive"
  <2> SUFFICES ASSUME v = "revive" PROVE FALSE
    OBVIOUS
  <2>1. n > 0
    BY <1>2, <1>5, VerdictFacts
  <2>2. request[h].kind \in Revivers /\ got[h] + n >= request[h].head
    BY <1>2, <1>5, <1>11, <2>1, VerdictFacts
  <2>3. got'[h] < request[h].head
    BY <1>6, <2>2 DEF Clean
  <2>4. request[h].head \in Nat
    BY <1>2, RequestFacts
  <2> QED BY <1>5, <1>7, <1>8, <2>2, <2>3, <2>4
<1>13. InvResponses' /\ InvLinked(N)'
  <2>1. CASE v = "close"
    <3>1. N = [M EXCEPT ![h] = {}]
      BY <1>4, <2>1, WaitsFacts
    <3>2. owner' = [owner EXCEPT ![handle[h]] = None] /\ ~(wrote[h] > 0)
      BY <1>2, <1>6, <2>1
    <3> QED BY <1>2, <1>6, <1>8, <3>1, <3>2, RestAfterClose
  <2>2. CASE v # "close"
    <3>1. /\ owner' = owner /\ \A x \in Conns : Holds(x)' <=> Holds(x)
      BY <1>2, <1>6, <1>12, <2>2, HoldsAfter
    <3>2. v \in {"more", "reply", "abort"}
      BY <1>5, <1>12, <2>2 DEF Verdicts
    <3>3. InvResponses'
      <4> SUFFICES ASSUME NEW x \in Conns
                   PROVE  /\ handle[x] = None => got'[x] = 0 /\ wrote[x] = 0
                          /\ delivered[x] = IF wrote[x] = 0 THEN {} ELSE {x}
                          /\ wrote[x] <= Writes
                          /\ Holds(x)' => wrote[x] < Writes
                          /\ wrote[x] > 0 =>
                               request[x].kind \in Answerable /\ got'[x] = Total(x)
        BY <1>6 DEF InvResponses, Total
      <4>1. /\ handle[x] = None => got[x] = 0 /\ wrote[x] = 0
            /\ delivered[x] = IF wrote[x] = 0 THEN {} ELSE {x}
            /\ wrote[x] <= Writes
            /\ Holds(x) => wrote[x] < Writes
            /\ wrote[x] > 0 => request[x].kind \in Answerable /\ got[x] = Total(x)
        BY DEF InvClean, InvResponses
      <4>2. CASE x = h
        BY <1>2, <3>1, <4>1, <4>2
      <4>3. CASE x # h
        BY <1>8, <3>1, <4>1, <4>3
      <4> QED BY <4>2, <4>3
    <3>4. v = "reply" => request[h].kind \in Answerable /\ got'[h] = Total(h)
      <4> SUFFICES ASSUME v = "reply"
                   PROVE  request[h].kind \in Answerable /\ got'[h] = Total(h)
        OBVIOUS
      <4>1. n > 0
        BY <1>2, <1>5, VerdictFacts
      <4>2. request[h].kind \in Answerable /\ got[h] + n >= Total(h)
        BY <1>2, <1>5, <1>11, <4>1, VerdictFacts
      <4> HIDE DEF Total
      <4> QED BY <1>5, <1>7, <1>8, <4>2
    <3>5. InvLinked(N)'
      <4> SUFFICES ASSUME NEW x \in Conns
                   PROVE  /\ N[x] # {} <=> Holds(x)'
                          /\ N[x] = Reading => wrote[x] = 0
                          /\ N[x] = Writing =>
                               request[x].kind \in Answerable /\ got'[x] = Total(x)
        BY <1>6 DEF InvLinked, Total
      <4>1. /\ N[h] = (IF v = "reply" THEN Writing ELSE Reading)
            /\ \A y \in Conns : y # h => N[y] = M[y]
        BY <1>2, <1>4, <3>2, WaitsFacts
      <4>2. CASE x = h
        BY <1>2, <3>1, <3>4, <4>1, <4>2, Interests
      <4>3. CASE x # h
        BY <1>8, <3>1, <4>1, <4>3 DEF InvClean, InvLinked
      <4> QED BY <4>2, <4>3
    <3> QED BY <3>3, <3>5
  <2> QED BY <2>1, <2>2
<1> QED
  BY <1>9, <1>10, <1>13 DEF InvClean

LEMMA ReadFailsKeeps ==
  ASSUME NEW M, InvBase(M), InvClean(M), NEW N, DoesFailToRead(M, N)
  PROVE  InvClean(N)'
<1>1. PICK h \in Conns : M[h] = Reading /\ ReadFails(h) /\ N = [M EXCEPT ![h] = {}]
  BY DEF DoesFailToRead
<1>2. /\ Holds(h) /\ handle[h] \in Fds /\ owner[handle[h]] = h
      /\ M[h] # {} /\ wrote[h] = 0 /\ file[h] = None /\ SocketsTypeOK /\ HandlersTypeOK
  <2>1. M[h] # {} /\ Holds(h) /\ handle[h] \in Fds /\ owner[handle[h]] = h
    BY <1>1, OwnFd, Interests DEF InvClean
  <2>2. wrote[h] = 0
    BY <1>1 DEF InvClean, InvLinked
  <2>3. file[h] = None
    BY <2>2 DEF InvClean, InvTable
  <2> QED BY <2>1, <2>2, <2>3 DEF InvBase
<1>3. /\ \A x \in Conns : peer'[x] = IF x = h THEN "reset" ELSE peer[x]
      /\ \A x \in Conns : inbox'[x] = IF x = h THEN 0 ELSE inbox[x]
      /\ owner' = [owner EXCEPT ![handle[h]] = None]
      /\ request' = request /\ unsent' = unsent /\ handle' = handle /\ got' = got
      /\ wrote' = wrote /\ delivered' = delivered /\ file' = file
  BY <1>1, <1>2 DEF ReadFails
<1>4. InvTable'
  BY <1>2, <1>3, TableKeeps DEF InvClean
<1>5. InvSegments'
  <2> SUFFICES ASSUME NEW x \in Conns
               PROVE  /\ got[x] + inbox'[x] + unsent[x] <= Total(x)
                      /\ peer'[x] # "reset" => got[x] + inbox'[x] + unsent[x] = Total(x)
                      /\ peer'[x] = "reset" => inbox'[x] = 0
    BY <1>3 DEF InvSegments, Total
  <2>1. /\ got[x] \in Nat /\ inbox[x] \in Nat /\ unsent[x] \in Nat /\ Total(x) \in Nat
    BY <1>2, RequestFacts DEF SocketsTypeOK, HandlersTypeOK
  <2>2. /\ got[x] + inbox[x] + unsent[x] <= Total(x)
        /\ peer[x] # "reset" => got[x] + inbox[x] + unsent[x] = Total(x)
        /\ peer[x] = "reset" => inbox[x] = 0
    BY DEF InvClean, InvSegments
  <2> QED BY <1>3, <2>1, <2>2
<1>6. InvResponses' /\ InvLinked(N)'
  BY <1>1, <1>2, <1>3, RestAfterClose
<1> QED
  BY <1>4, <1>5, <1>6 DEF InvClean

LEMMA CloseKeeps ==
  ASSUME NEW M, InvBase(M), InvClean(M), NEW N, DoesClose(M, N)
  PROVE  InvClean(N)'
<1>1. PICK h \in Conns : M[h] # {} /\ Close(h) /\ N = [M EXCEPT ![h] = {}]
  BY DEF DoesClose
<1>2. Holds(h) /\ SocketsTypeOK /\ HandlersTypeOK
  BY <1>1, OwnFd DEF InvClean, InvBase
<1>3. /\ owner' = [owner EXCEPT ![handle[h]] = None] /\ file' = [file EXCEPT ![h] = None]
      /\ request' = request /\ unsent' = unsent /\ handle' = handle /\ got' = got
      /\ peer' = peer /\ inbox' = inbox /\ wrote' = wrote /\ delivered' = delivered
  BY <1>1 DEF Close
<1>4. file'[h] = None /\ \A x \in Conns : x # h => file'[x] = file[x]
  BY <1>2, <1>3 DEF HandlersTypeOK
<1>5. InvTable'
  BY <1>2, <1>3, <1>4, TableKeeps DEF InvClean
<1>6. InvSegments'
  BY <1>3 DEF InvClean, InvSegments, Total
<1>7. InvResponses' /\ InvLinked(N)'
  BY <1>1, <1>3, RestAfterClose
<1> QED
  BY <1>5, <1>6, <1>7 DEF InvClean

\* What handleWrite does to its own handler's response.
LEMMA WriteFacts ==
  ASSUME NEW M, InvBase(M), InvClean(M), NEW h \in Conns, M[h] = Writing, Write(h)
  PROVE  /\ Holds(h) /\ handle[h] \in Fds /\ owner[handle[h]] = h
         /\ request[h].kind \in Answerable /\ got[h] = Total(h)
         /\ wrote[h] \in Nat /\ wrote[h] < Writes /\ wrote'[h] = wrote[h] + 1
         /\ delivered'[h] = {h}
         /\ LastChunk(h) <=> wrote'[h] = Writes
         /\ IF LastChunk(h)
              THEN owner' = [owner EXCEPT ![handle[h]] = None] /\ file'[h] = None
              ELSE owner' = owner /\ file'[h] \in Opened(h)
         /\ \A x \in Conns : x # h =>
              wrote'[x] = wrote[x] /\ delivered'[x] = delivered[x] /\ file'[x] = file[x]
<1>1. /\ Holds(h) /\ handle[h] \in Fds /\ owner[handle[h]] = h
      /\ SocketsTypeOK /\ HandlersTypeOK /\ Writes \in Nat
  BY OwnFd, Interests, EventHandlersAssumption DEF InvClean, InvBase
<1>2. request[h].kind \in Answerable /\ got[h] = Total(h)
  BY DEF InvClean, InvLinked
<1>3. wrote[h] \in Nat /\ wrote[h] < Writes /\ delivered[h] = IF wrote[h] = 0 THEN {} ELSE {h}
  BY <1>1 DEF InvClean, InvResponses, HandlersTypeOK
<1>4. /\ wrote'[h] = wrote[h] + 1
      /\ delivered'[h] = {h}
      /\ \A x \in Conns : x # h => wrote'[x] = wrote[x] /\ delivered'[x] = delivered[x]
      /\ owner' = IF LastChunk(h) THEN [owner EXCEPT ![handle[h]] = None] ELSE owner
  BY <1>1, <1>3 DEF HandlersTypeOK, Write
<1>5. LastChunk(h) <=> wrote'[h] = Writes
  BY <1>1, <1>3, <1>4 DEF LastChunk
<1>6. /\ IF LastChunk(h) THEN file'[h] = None ELSE file'[h] \in Opened(h)
      /\ \A x \in Conns : x # h => file'[x] = file[x]
  <2>1. PICK g \in Opened(h) : file' = [file EXCEPT ![h] = IF LastChunk(h) THEN None ELSE g]
    BY DEF Write
  <2> QED BY <1>1, <2>1 DEF HandlersTypeOK
<1> QED
  BY <1>1, <1>2, <1>3, <1>4, <1>5, <1>6

LEMMA WriteKeeps ==
  ASSUME NEW M, InvBase(M), InvClean(M), NEW N, DoesWrite(M, N)
  PROVE  InvClean(N)'
<1>1. PICK h \in Conns : /\ M[h] = Writing /\ SendReturns(handle[h]) /\ Write(h)
                         /\ N = IF LastChunk(h) THEN [M EXCEPT ![h] = {}] ELSE M
  BY DEF DoesWrite
<1>2. /\ Holds(h) /\ handle[h] \in Fds /\ handle[h] # None /\ SocketsTypeOK
      /\ request[h].kind \in Answerable /\ got[h] = Total(h)
      /\ wrote[h] \in Nat /\ wrote[h] < Writes /\ wrote'[h] = wrote[h] + 1
      /\ delivered'[h] = {h} /\ (LastChunk(h) <=> wrote'[h] = Writes) /\ Writes \in Nat
  BY <1>1, WriteFacts, SocketsAssumption, EventHandlersAssumption DEF InvBase
<1>3. /\ IF LastChunk(h)
           THEN owner' = [owner EXCEPT ![handle[h]] = None] /\ file'[h] = None
           ELSE owner' = owner /\ file'[h] \in Opened(h)
      /\ \A x \in Conns : x # h =>
           wrote'[x] = wrote[x] /\ delivered'[x] = delivered[x] /\ file'[x] = file[x]
  BY <1>1, WriteFacts
<1>4. /\ request' = request /\ peer' = peer /\ unsent' = unsent /\ inbox' = inbox
      /\ handle' = handle /\ got' = got
  BY <1>1 DEF Write
<1>5. InvTable'
  <2>1. file'[h] \in {None, file[h]} \cup FreeFds
    BY <1>3 DEF Opened
  <2>2. wrote'[h] > 0
    BY <1>2
  <2> QED BY <1>2, <1>3, <1>4, <2>1, <2>2, TableKeeps DEF InvClean
<1>6. InvSegments'
  BY <1>4 DEF InvClean, InvSegments, Total
<1>7. \A x \in Conns : Holds(x)' <=> Holds(x) /\ (x # h \/ ~LastChunk(h))
  BY <1>2, <1>3, <1>4, HoldsAfter
<1>8. InvResponses'
  <2> SUFFICES ASSUME NEW x \in Conns
               PROVE  /\ handle[x] = None => got[x] = 0 /\ wrote'[x] = 0
                      /\ delivered'[x] = IF wrote'[x] = 0 THEN {} ELSE {x}
                      /\ wrote'[x] <= Writes
                      /\ Holds(x)' => wrote'[x] < Writes
                      /\ wrote'[x] > 0 => request[x].kind \in Answerable /\ got[x] = Total(x)
    BY <1>4 DEF InvResponses, Total
  <2>1. CASE x = h
    <3>1. wrote'[h] # 0 /\ wrote'[h] <= Writes /\ (wrote'[h] # Writes => wrote'[h] < Writes)
      BY <1>2
    <3> QED BY <1>2, <1>7, <2>1, <3>1
  <2>2. CASE x # h
    BY <1>3, <1>7, <2>2 DEF InvClean, InvResponses
  <2> QED BY <2>1, <2>2
<1>9. InvLinked(N)'
  <2> SUFFICES ASSUME NEW x \in Conns
               PROVE  /\ N[x] # {} <=> Holds(x)'
                      /\ N[x] = Reading => wrote'[x] = 0
                      /\ N[x] = Writing => request[x].kind \in Answerable /\ got[x] = Total(x)
    BY <1>4 DEF InvLinked, Total
  <2>1. M \in [Handlers -> SUBSET ALL_EVENTS] /\ Conns \subseteq Handlers
    BY DEF InvBase, Handlers
  <2>2. /\ N[h] = IF LastChunk(h) THEN {} ELSE Writing
        /\ \A y \in Conns : y # h => N[y] = M[y]
    BY <1>1, <2>1
  <2>3. CASE x = h
    BY <1>2, <1>7, <2>2, <2>3, Interests
  <2>4. CASE x # h
    BY <1>3, <1>7, <2>2, <2>4 DEF InvClean, InvLinked
  <2> QED BY <2>3, <2>4
<1> QED
  BY <1>5, <1>6, <1>8, <1>9 DEF InvClean

\* A step that only ends the process, or changes nothing.
LEMMA RestKeeps ==
  ASSUME NEW M, InvClean(M), NEW N,
         DoesNothing(M, N) \/ DoesThrow(M, N) \/ DoesEnd(M, N)
  PROVE  InvClean(N)'
<1>1. /\ UNCHANGED sockVars /\ N = M
      /\ UNCHANGED <<handle, got, wrote, delivered, file>>
  BY DEF DoesNothing, DoesThrow, DoesEnd, ProcessThrows, Fatal, handlerVars
<1> QED
  BY <1>1 DEF sockVars, InvClean, InvTable, InvSegments, InvResponses, InvLinked, Holds, Total

\* The invariant is inductive, for any dispatcher whose steps are steps of the
\* handlers.
LEMMA HandlersKeep ==
  ASSUME NEW M, HInv(M), NEW N, HandlersStep(M, N)
  PROVE  HInv(N)'
<1>1. /\ InvBase(M) /\ InvBase(N)' /\ (Clean' => Clean)
      /\ RevivedMeetNoFiles'
  BY BaseKeeps DEF HInv, RevivedMeetNoFiles
<1>2. ASSUME Clean' PROVE InvClean(N)'
  <2>1. InvClean(M)
    BY <1>1, <1>2 DEF HInv
  <2> QED
    BY <1>1, <1>2, <2>1, ClientKeeps, AcceptKeeps, ReadKeeps, ReadFailsKeeps, WriteKeeps,
       CloseKeeps, RestKeeps DEF HandlersStep
<1> QED
  BY <1>1, <1>2 DEF HInv

\* The start: no connection has a handler yet.
LEMMA InitKeeps ==
  ASSUME SocketsInit, HandlersInit,
         NEW M, M = [h \in Handlers |-> IF h = Listener THEN Listening ELSE {}]
  PROVE  HInv(M)
<1>1. SocketsTypeOK
  <2>1. \A r \in Requests : r.head + r.body \in Nat
    BY SocketsAssumption
  <2>2. unsent \in [Conns -> Nat]
    BY <2>1 DEF SocketsInit, Total
  <2> QED BY <2>2 DEF SocketsInit, SocketsTypeOK, PeerStates
<1>2. HandlersTypeOK
  BY DEF HandlersInit, HandlersTypeOK, Handlers
<1>3. /\ M \in [Handlers -> SUBSET ALL_EVENTS] /\ M[Listener] = Listening
      /\ handle[Listener] = Listener
      /\ \A c \in Conns : M[c] = {} /\ handle[c] = None
  BY Interests, EventHandlersAssumption DEF HandlersInit, Handlers
<1>4. InvBase(M)
  BY <1>1, <1>2, <1>3 DEF InvBase, SocketsInit
<1>5. /\ \A c \in Conns : ~Holds(c) /\ file[c] = None /\ M[c] # Reading /\ M[c] # Writing
      /\ \A f \in Fds : owner[f] = None
  BY <1>3, Interests, SocketsAssumption DEF Holds, HandlersInit, SocketsInit
<1>6. InvTable /\ InvLinked(M)
  BY <1>3, <1>5 DEF InvTable, InvLinked
<1>7. InvSegments
  <2> SUFFICES ASSUME NEW c \in Conns
               PROVE  got[c] + inbox[c] + unsent[c] = Total(c) /\ Total(c) \in Nat
                      /\ peer[c] # "reset"
    BY DEF InvSegments
  <2> QED BY <1>1, RequestFacts DEF SocketsInit, HandlersInit
<1>8. InvResponses
  BY <1>5, EventHandlersAssumption DEF InvResponses, HandlersInit
<1> QED
  BY <1>4, <1>6, <1>7, <1>8 DEF HInv, InvClean, HandlersInit

----------------------------------------------------------------------------
(* What the reactors promise, as far as it is about the handlers.          *)

\* No descriptor outlives its handler, and what is sent is sent to its client.
LEMMA CleanPromises ==
  ASSUME NEW M, InvBase(M), InvClean(M), NEW c \in Conns
  PROVE  /\ M[c] # {} <=> Holds(c)
         /\ file[c] # None => Holds(c)
         /\ delivered[c] # {} => delivered[c] = {c} /\ got[c] = Total(c)
<1>1. (M[c] # {} <=> Holds(c)) /\ (file[c] # None => Holds(c))
  BY DEF InvClean, InvTable, InvLinked
<1>2. delivered[c] = (IF wrote[c] = 0 THEN {} ELSE {c}) /\ (wrote[c] > 0 => got[c] = Total(c))
  BY DEF InvClean, InvResponses
<1>3. CASE wrote[c] > 0
  BY <1>1, <1>2, <1>3
<1>4. CASE ~(wrote[c] > 0)
  <2>1. wrote[c] = 0
    BY <1>4 DEF InvBase, HandlersTypeOK
  <2> QED BY <1>1, <1>2, <2>1
<1> QED
  BY <1>3, <1>4

----------------------------------------------------------------------------
(* What may end the process: MayEnd, for each call that can.               *)

\* Before a handler was revived, a registered one has its descriptor and, but
\* for a reset, all bytes of its request.
LEMMA CleanIsIntact ==
  ASSUME NEW M, HInv(M), NEW h \in Conns, M[h] # {}, Clean
  PROVE  Holds(h) /\ (peer[h] # "reset" => Intact(h)) /\ (peer[h] = "reset" => inbox[h] = 0)
<1>1. InvBase(M) /\ InvClean(M)
  BY DEF HInv
<1> QED
  BY <1>1, OwnFd DEF InvClean, InvSegments, Intact

\* send() or getpeername() finds the connection gone.
LEMMA SendMayEnd ==
  ASSUME NEW M, HInv(M), NEW h \in Conns, M[h] # {}, SendFails(handle[h]), peer' = peer
  PROVE  MayEnd(h)
<1>1. h # Listener
  BY EventHandlersAssumption
<1>2. CASE Holds(h)
  <2>1. peer'[h] = "reset"
    BY <1>2, SocketsAssumption DEF Holds, SendFails
  <2> QED BY <1>1, <2>1 DEF MayEnd
<1>3. CASE ~Holds(h)
  <2>1. ~Clean /\ ~Intact(h)
    BY <1>3, CleanIsIntact DEF Intact
  <2> QED BY <1>1, <2>1 DEF MayEnd
<1> QED
  BY <1>2, <1>3

\* recv() fails.
LEMMA FailMayEnd ==
  ASSUME NEW M, HInv(M), NEW h \in Conns, M[h] # {}, ReadFails(h)
  PROVE  MayEnd(h)
<1>1. h # Listener
  BY EventHandlersAssumption
<1>2. CASE Holds(h)
  <2>1. peer'[h] = "reset"
    BY <1>2 DEF Holds, ReadFails
  <2> QED BY <1>1, <2>1 DEF MayEnd
<1>3. CASE ~Holds(h)
  <2>1. ~Clean /\ ~Intact(h)
    BY <1>3, CleanIsIntact DEF Intact
  <2> QED BY <1>1, <2>1 DEF MayEnd
<1> QED
  BY <1>2, <1>3

\* recv() returns n segments, and what handleRead makes of them ends the process.
LEMMA ReadMayEnd ==
  ASSUME NEW M, HInv(M), NEW h \in Conns, M[h] # {}, handle[h] \in Fds,
         owner[handle[h]] # None, NEW n \in Receivable(handle[h]),
         NEW v \in ReadVerdicts(h, n), Read(h, n, v), server' # server
  PROVE  MayEnd(h)
<1>1. SocketsTypeOK /\ HandlersTypeOK /\ h # Listener
  BY EventHandlersAssumption DEF HInv, InvBase
<1>2. v = "abort" /\ server' = "aborted" /\ n \in Nat /\ n <= inbox[owner[handle[h]]]
  BY <1>1, Receives DEF Read
<1>3. n # 0 /\ n > 0
  BY <1>1, <1>2, VerdictFacts
<1>4. CASE Intact(h)
  <2>1. request[h].kind \in {"badlength", "toolong"} /\ got[h] + n >= request[h].head
    BY <1>1, <1>2, <1>3, <1>4, VerdictFacts
  <2>2. got'[h] = got[h] + n /\ got[h] \in Nat /\ request[h].head \in Nat
    BY <1>1, RequestFacts DEF Read, HandlersTypeOK
  <2>3. got[h] < got'[h] /\ request[h].head <= got'[h]
    BY <1>2, <1>3, <2>1, <2>2
  <2> QED BY <1>1, <1>2, <2>1, <2>3 DEF MayEnd
<1>5. CASE ~Intact(h)
  <2>1. ASSUME Clean PROVE FALSE
    <3>1. owner[handle[h]] = h /\ inbox[h] = 0
      BY <1>5, <2>1, CleanIsIntact DEF Holds
    <3> QED BY <1>2, <1>3, <3>1
  <2> QED BY <1>1, <1>5, <2>1 DEF MayEnd
<1> QED
  BY <1>4, <1>5

\* process() throws.
LEMMA ThrowMayEnd ==
  ASSUME NEW M, HInv(M), NEW h \in Conns, M[h] = Writing, ProcessThrows(h)
  PROVE  MayEnd(h)
<1>1. h # Listener /\ server' = "aborted" /\ (CannotList(h) \/ DiskMayFail(h))
  BY EventHandlersAssumption DEF ProcessThrows
<1>2. request[h].kind \in {"file", "list"}
  BY <1>1 DEF CannotList, DiskMayFail, OnFaultyDisk
<1>3. Clean
  BY <1>2 DEF HInv, RevivedMeetNoFiles, Clean
<1>4. got[h] = Total(h)
  BY <1>3 DEF HInv, InvClean, InvLinked
<1> QED
  BY <1>1, <1>4 DEF MayEnd

----------------------------------------------------------------------------
(* The service.  A request that is not answered is refused, and none of    *)
(* them revives its handler or ends the process.                           *)

PlainRequestsOnly == \A r \in Requests : r.kind \in Answerable \cup {"malformed"}

LEMMA PlainIsClean == PlainRequestsOnly /\ SocketsTypeOK => Clean
BY DEF PlainRequestsOnly, SocketsTypeOK, Clean, Answerable, Revivers

\* A place of the service is a descriptor: the connections that are served and
\* the files that are sent take all that are not free, one each.
LEMMA Places ==
  ASSUME SocketsTypeOK, HandlersTypeOK, InvTable
  PROVE  /\ Cardinality({c \in Conns : Holds(c)}) + Cardinality({c \in Conns : file[c] # None})
              = Cardinality(Fds) - Cardinality(FreeFds)
         /\ Cardinality(Fds) \in Nat /\ Cardinality(FreeFds) \in Nat
         /\ Cardinality(FreeFds) = 0 <=> FreeFds = {}
<1> DEFINE H == {c \in Conns : Holds(c)}
           R == {c \in Conns : file[c] # None}
           FH == {f \in Fds : owner[f] # None}
           FR == {f \in Fds : \E c \in Conns : file[c] = f}
           ofFile(f) == CHOOSE c \in Conns : file[c] = f
           bh == [f \in FH |-> owner[f]]
           br == [f \in FR |-> ofFile(f)]
<1>1. IsFiniteSet(Fds) /\ None \notin Fds /\ None \notin Conns
  BY SocketsAssumption
<1>2. IsFiniteSet(FH) /\ IsFiniteSet(FR) /\ IsFiniteSet(FreeFds)
  BY <1>1, FS_Subset DEF FreeFds
<1>3. Cardinality(H) = Cardinality(FH)
  <2>1. bh \in [FH -> H]
    BY DEF SocketsTypeOK, InvTable, Holds
  <2>2. bh \in Injection(FH, H)
    BY <2>1 DEF Injection, IsInjective, InvTable
  <2>3. \A c \in H : \E f \in FH : bh[f] = c
    BY <1>1 DEF Holds
  <2>4. bh \in Bijection(FH, H)
    BY <2>1, <2>2, <2>3 DEF Bijection, Surjection
  <2> QED BY <1>2, <2>4, FS_Bijection DEF ExistsBijection
<1>4. Cardinality(R) = Cardinality(FR)
  <2>1. \A f \in FR : ofFile(f) \in Conns /\ file[ofFile(f)] = f
    OBVIOUS
  <2>2. br \in [FR -> R]
    BY <1>1, <2>1
  <2>3. br \in Injection(FR, R)
    BY <2>1, <2>2 DEF Injection, IsInjective
  <2>4. ASSUME NEW c \in R PROVE \E f \in FR : br[f] = c
    <3>1. file[c] \in FR
      BY DEF HandlersTypeOK
    <3>2. file[ofFile(file[c])] = file[c] /\ ofFile(file[c]) \in Conns /\ file[c] # None
      BY <2>1, <3>1
    <3>3. ofFile(file[c]) = c
      BY <3>2 DEF InvTable
    <3> QED BY <3>1, <3>3
  <2>5. br \in Bijection(FR, R)
    BY <2>2, <2>3, <2>4 DEF Bijection, Surjection
  <2> QED BY <1>2, <2>5, FS_Bijection DEF ExistsBijection
<1>5. FH \cap FR = {} /\ FH \cup FR = Fds \ FreeFds /\ Fds \cap FreeFds = FreeFds
  BY <1>1 DEF InvTable, FreeFds
<1>6. Cardinality(FH \cup FR) = Cardinality(FH) + Cardinality(FR)
  <2>1. Cardinality(FH \cup FR)
          = Cardinality(FH) + Cardinality(FR) - Cardinality(FH \cap FR)
    BY <1>2, FS_Union
  <2>2. Cardinality(FH \cap FR) = 0
    BY <1>5, FS_EmptySet
  <2>3. Cardinality(FH) \in Nat /\ Cardinality(FR) \in Nat
    BY <1>2, FS_CardinalityType
  <2> QED BY <2>1, <2>2, <2>3
<1>7. Cardinality(Fds \ FreeFds) = Cardinality(Fds) - Cardinality(FreeFds)
  BY <1>1, <1>5, FS_Difference
<1>8. /\ Cardinality(Fds) \in Nat /\ Cardinality(FreeFds) \in Nat
      /\ Cardinality(FreeFds) = 0 <=> FreeFds = {}
  BY <1>1, <1>2, FS_CardinalityType, FS_EmptySet
<1> QED
  BY <1>3, <1>4, <1>5, <1>6, <1>7, <1>8

\* The phases, one at a time.
LEMMA Phases ==
  ASSUME NEW M, InvBase(M), NEW c \in Conns
  PROVE  /\ peer[c] = "away" => Phase(c) = "away"
         /\ c \in backlog => Phase(c) = "waiting"
         /\ Holds(c) => Phase(c) = "serving"
         /\ Closed(c) /\ wrote[c] = Writes => Phase(c) = "done"
         /\ /\ peer[c] # "away" /\ c \notin backlog /\ ~Holds(c)
            /\ ~(Closed(c) /\ wrote[c] = Writes)
            => Phase(c) = "dropped"
<1>1. /\ c \in backlog => peer[c] # "away" /\ ~Holds(c) /\ ~Closed(c)
      /\ peer[c] = "away" => ~Holds(c) /\ ~Closed(c)
      /\ ~(Holds(c) /\ Closed(c))
  BY SocketsAssumption DEF InvBase, Holds, Closed
<1> HIDE DEF Holds, Closed
<1> QED
  BY <1>1 DEF Phase

\* The same of the next state.
LEMMA PhasesNext ==
  ASSUME NEW N, InvBase(N)', NEW c \in Conns
  PROVE  /\ peer'[c] = "away" => Phase(c)' = "away"
         /\ c \in backlog' => Phase(c)' = "waiting"
         /\ Holds(c)' => Phase(c)' = "serving"
         /\ Closed(c)' /\ wrote'[c] = Writes => Phase(c)' = "done"
         /\ /\ peer'[c] # "away" /\ c \notin backlog' /\ ~Holds(c)'
            /\ ~(Closed(c)' /\ wrote'[c] = Writes)
            => Phase(c)' = "dropped"
<1>1. /\ c \in backlog' => peer'[c] # "away" /\ ~Holds(c)' /\ ~Closed(c)'
      /\ peer'[c] = "away" => ~Holds(c)' /\ ~Closed(c)'
      /\ ~(Holds(c)' /\ Closed(c)')
  BY SocketsAssumption DEF InvBase, Holds, Closed
<1> HIDE DEF Holds, Closed
<1> QED
  BY <1>1 DEF Phase

LEMMA ServingHolds ==
  ASSUME NEW M, InvBase(M), NEW c \in Conns
  PROVE  Phase(c) = "serving" <=> Holds(c)
<1> HIDE DEF Holds, Closed
<1>1. CASE Holds(c)
  BY <1>1, Phases
<1>2. CASE ~Holds(c)
  BY <1>2 DEF Phase
<1> QED
  BY <1>1, <1>2

\* Nothing happens to the phase of a connection whose own state stays.
LEMMA PhaseStays ==
  ASSUME NEW c \in Conns, peer'[c] = "away" <=> peer[c] = "away",
         c \in backlog' <=> c \in backlog, Holds(c)' <=> Holds(c),
         Closed(c)' <=> Closed(c), wrote'[c] = wrote[c]
  PROVE  Phase(c)' = Phase(c)
<1> HIDE DEF Holds, Closed
<1> QED
  BY DEF Phase

\* What a callback of h leaves of the phases.
LEMMA PhasesAfter ==
  ASSUME NEW M, InvBase(M), NEW N, InvBase(N)', NEW h \in Conns, Holds(h), handle' = handle,
         backlog' = backlog, \A x \in Conns : peer'[x] = "away" <=> peer[x] = "away",
         \A x \in Conns : x # h => wrote'[x] = wrote[x]
  PROVE  /\ owner' = owner => \A x \in Conns : Phase(x)' = Phase(x)
         /\ owner' = [owner EXCEPT ![handle[h]] = None] =>
              /\ \A x \in Conns : x # h => Phase(x)' = Phase(x)
              /\ Phase(h)' = IF wrote'[h] = Writes THEN "done" ELSE "dropped"
         /\ Phase(h) = "serving"
<1>1. /\ SocketsTypeOK /\ peer[h] # "away" /\ h \notin backlog
  BY SocketsAssumption DEF InvBase, Holds
<1>2. /\ \A x \in Conns : Closed(x) <=> handle[x] \in Fds /\ ~Holds(x)
      /\ \A x \in Conns : Closed(x)' <=> handle[x] \in Fds /\ ~Holds(x)'
  BY DEF Closed, Holds
<1>3. /\ owner' = owner => \A x \in Conns : Holds(x)' <=> Holds(x)
      /\ owner' = [owner EXCEPT ![handle[h]] = None] =>
           \A x \in Conns : Holds(x)' <=> Holds(x) /\ x # h
  BY <1>1, HoldsAfter
<1>4. Phase(h) = "serving" /\ handle[h] \in Fds
  BY Phases DEF Holds
<1>5. ASSUME owner' = owner, NEW x \in Conns PROVE Phase(x)' = Phase(x)
  <2>1. CASE x = h
    BY <1>3, <1>4, <1>5, <2>1, PhasesNext
  <2>2. CASE x # h
    BY <1>2, <1>3, <1>5, <2>2, PhaseStays
  <2> QED BY <2>1, <2>2
<1>6. ASSUME owner' = [owner EXCEPT ![handle[h]] = None]
      PROVE  /\ \A x \in Conns : x # h => Phase(x)' = Phase(x)
             /\ Phase(h)' = IF wrote'[h] = Writes THEN "done" ELSE "dropped"
  <2>1. ASSUME NEW x \in Conns, x # h PROVE Phase(x)' = Phase(x)
    BY <1>2, <1>3, <1>6, <2>1, PhaseStays
  <2>2. Phase(h)' = IF wrote'[h] = Writes THEN "done" ELSE "dropped"
    BY <1>1, <1>2, <1>3, <1>4, <1>6, PhasesNext
  <2> QED BY <2>1, <2>2
<1> QED
  BY <1>4, <1>5, <1>6

\* The service is full when no descriptor is free.
LEMMA FullMeans ==
  ASSUME NEW M, InvBase(M), InvTable
  PROVE  Service!Full <=> FreeFds = {}
<1> DEFINE S == {c \in Conns : Holds(c)}
           R == {c \in Conns : file[c] # None}
<1>1. {c \in Conns : [x \in Conns |-> Phase(x)][c] = "serving"} = S
  BY ServingHolds
<1>2. {c \in Conns : [x \in Conns |-> file[x] # None][c]} = R
  OBVIOUS
<1>3. Service!Full <=> Cardinality(S) + Cardinality(R) >= Cardinality(Fds)
  <2>1. \A X : Service!Cardinality(X) = Cardinality(X)
    BY DEF Service!Cardinality, Cardinality
  <2> QED BY <1>1, <1>2, <2>1 DEF Service!Full, Service!Serving
<1>4. /\ Cardinality(S) + Cardinality(R) = Cardinality(Fds) - Cardinality(FreeFds)
      /\ Cardinality(Fds) \in Nat /\ Cardinality(FreeFds) \in Nat
      /\ Cardinality(FreeFds) = 0 <=> FreeFds = {}
  BY Places DEF InvBase
<1> HIDE DEF S, R
<1>5. Cardinality(S) + Cardinality(R) >= Cardinality(Fds) <=> Cardinality(FreeFds) = 0
  BY <1>4
<1> QED
  BY <1>3, <1>4, <1>5

\* The disk of a client is what its request makes it.
LEMMA FaultyDiskStays ==
  ASSUME request' = request
  PROVE  \A x \in Conns : OnFaultyDisk(x)' = OnFaultyDisk(x)
BY DEF OnFaultyDisk

\* What a step shows when it changes nothing but the client of c, or nothing.
LEMMA SameService ==
  ASSUME NEW M, InvBase(M), handlerVars' = handlerVars, request' = request,
         \A x \in Conns : Phase(x)' = Phase(x), NEW c \in Conns,
         \A x \in Conns : x # c => peer'[x] = peer[x] /\ unsent'[x] = unsent[x]
  PROVE  /\ /\ unsent'[c] = 0 <=> unsent[c] = 0
            /\ peer'[c] \in {"fin", "reset"} <=> peer[c] \in {"fin", "reset"}
            => UNCHANGED Service!vars
         /\ /\ Phase(c) \in {"waiting", "serving"}
            /\ unsent[c] # 0 /\ peer[c] \notin {"fin", "reset"}
            /\ unsent'[c] = 0 /\ peer'[c] = peer[c]
            => Service!Ask(c)
         /\ /\ Phase(c) \in {"waiting", "serving"}
            /\ unsent'[c] = unsent[c] /\ peer'[c] \in {"fin", "reset"}
            => Service!Leave(c)
<1>1. /\ wrote' = wrote /\ file' = file /\ server' = server
      /\ [x \in Conns |-> Phase(x)]' = [x \in Conns |-> Phase(x)]
      /\ \A x \in Conns : OnFaultyDisk(x)' = OnFaultyDisk(x)
  BY FaultyDiskStays DEF handlerVars
<1>2. ASSUME unsent'[c] = 0 <=> unsent[c] = 0,
             peer'[c] \in {"fin", "reset"} <=> peer[c] \in {"fin", "reset"}
      PROVE  UNCHANGED Service!vars
  <2>1. \A x \in Conns : /\ unsent'[x] = 0 <=> unsent[x] = 0
                         /\ peer'[x] \in {"fin", "reset"} <=> peer[x] \in {"fin", "reset"}
    BY <1>2
  <2> QED BY <1>1, <2>1 DEF Service!vars
<1>3. ASSUME Phase(c) \in {"waiting", "serving"},
             unsent[c] # 0 /\ peer[c] \notin {"fin", "reset"},
             unsent'[c] = 0 /\ peer'[c] = peer[c]
      PROVE  Service!Ask(c)
  BY <1>1, <1>3 DEF Service!Ask
<1>4. ASSUME Phase(c) \in {"waiting", "serving"},
             unsent'[c] = unsent[c] /\ peer'[c] \in {"fin", "reset"}
      PROVE  Service!Leave(c)
  BY <1>1, <1>4, ZenonT(60) DEF Service!Leave
<1> QED
  BY <1>2, <1>3, <1>4

LEMMA ClientServed ==
  ASSUME NEW M, InvBase(M), InvTable, NEW N, InvBase(N)', server = "running",
         ClientDoes(M, N)
  PROVE  [Service!Next]_(Service!vars)
<1>1. /\ handlerVars' = handlerVars /\ handle' = handle /\ wrote' = wrote /\ SocketsTypeOK
      /\ file' = file /\ server' = server
  BY DEF ClientDoes, handlerVars, InvBase
<1>2. /\ request' = request /\ owner' = owner
      /\ \A x \in Conns : OnFaultyDisk(x)' = OnFaultyDisk(x)
  BY <1>1, ClientTypes, FaultyDiskStays DEF ClientDoes
<1>3. \A x \in Conns : (Holds(x)' <=> Holds(x)) /\ (Closed(x)' <=> Closed(x))
  BY <1>1, <1>2 DEF Holds, Closed
<1>4. PICK c \in Conns :
        Connect(c) \/ Send(c) \/ Fin(c) \/ Reset(c) \/ Stall(c) \/ Abort(c)
  BY DEF ClientDoes, ClientStep
<1>5. Attached(c) => Phase(c) \in {"waiting", "serving"}
  <2>1. CASE c \in backlog
    BY <2>1, Phases
  <2>2. ASSUME NEW f \in Fds, owner[f] = c PROVE Phase(c) \in {"waiting", "serving"}
    <3>1. handle[c] = f /\ Holds(c)
      BY <2>2, SocketsAssumption DEF InvTable, Holds
    <3> QED BY <3>1, Phases
  <2> QED BY <2>1, <2>2 DEF Attached
<1>6. \A x \in Conns : x # c => peer'[x] = peer[x] /\ unsent'[x] = unsent[x]
                                /\ (x \in backlog' <=> x \in backlog)
  <2>1. CASE Connect(c) \/ Abort(c)
    BY <1>1, <2>1 DEF SocketsTypeOK, Connect, Abort
  <2>2. CASE Send(c) \/ Fin(c) \/ Reset(c) \/ Stall(c)
    BY <1>1, <2>2 DEF SocketsTypeOK, Send, Fin, Reset, Stall
  <2> QED BY <1>4, <2>1, <2>2
<1>7. \A x \in Conns : x # c => Phase(x)' = Phase(x)
  BY <1>1, <1>3, <1>6, PhaseStays
<1>8. ASSUME peer'[c] = "away" <=> peer[c] = "away", c \in backlog' <=> c \in backlog
      PROVE  \A x \in Conns : Phase(x)' = Phase(x)
  BY <1>1, <1>3, <1>7, <1>8, PhaseStays
<1>9. ASSUME NEW v, Phase(c)' = v
      PROVE  [x \in Conns |-> Phase(x)]' = [[x \in Conns |-> Phase(x)] EXCEPT ![c] = v]
  BY <1>7, <1>9
<1>10. CASE Connect(c)
  <2>1. /\ Phase(c) = "away" /\ Phase(c)' = "waiting"
        /\ unsent' = unsent /\ peer'[c] = "open" /\ peer[c] = "away"
    BY <1>1, <1>10, Phases, PhasesNext DEF SocketsTypeOK, Connect
  <2>2. [x \in Conns |-> Phase(x)]' = [[x \in Conns |-> Phase(x)] EXCEPT ![c] = "waiting"]
    BY <1>9, <2>1
  <2>3. \A x \in Conns : peer'[x] \in {"fin", "reset"} <=> peer[x] \in {"fin", "reset"}
    BY <1>6, <2>1
  <2>4. Service!Arrive(c)
    BY <1>1, <1>2, <2>1, <2>2, <2>3 DEF Service!Arrive, Service!Move
  <2> QED BY <2>4 DEF Service!Next
<1>11. CASE Send(c)
  <2>1. /\ \A x \in Conns : Phase(x)' = Phase(x)
        /\ peer'[c] = peer[c] /\ peer[c] = "open" /\ unsent[c] > 0 /\ unsent[c] \in Nat
    BY <1>1, <1>8, <1>11 DEF SocketsTypeOK, Send
  <2>2. unsent'[c] # 0 => UNCHANGED Service!vars
    BY <1>1, <1>2, <1>6, <2>1, SameService
  <2>3. unsent'[c] = 0 => Service!Ask(c)
    BY <1>1, <1>2, <1>5, <1>6, <1>11, <2>1, SameService DEF Send
  <2> QED BY <2>2, <2>3 DEF Service!Next
<1>12. CASE Fin(c) \/ Reset(c)
  <2>1. /\ peer'[c] \in {"fin", "reset"} /\ peer[c] # "away" /\ unsent' = unsent /\ Attached(c)
        /\ backlog' = backlog
    BY <1>1, <1>12 DEF SocketsTypeOK, Fin, Reset
  <2>2. \A x \in Conns : Phase(x)' = Phase(x)
    BY <1>8, <2>1
  <2>3. Service!Leave(c)
    BY <1>1, <1>2, <1>5, <1>6, <2>1, <2>2, SameService
  <2> QED BY <2>3 DEF Service!Next
<1>13. CASE Stall(c)
  <2>1. /\ peer'[c] = "stalled" /\ peer[c] = "open" /\ unsent' = unsent /\ backlog' = backlog
    BY <1>1, <1>13 DEF SocketsTypeOK, Stall
  <2>2. \A x \in Conns : Phase(x)' = Phase(x)
    BY <1>8, <2>1
  <2> QED BY <1>1, <1>2, <1>6, <2>1, <2>2, SameService
<1>14. CASE Abort(c)
  <2>1. /\ Phase(c) = "waiting" /\ unsent' = unsent /\ c \notin backlog' /\ handle[c] = None
        /\ peer'[c] = "reset"
    BY <1>1, <1>14, Phases DEF SocketsTypeOK, Abort, InvBase
  <2>2. Phase(c)' = "dropped"
    <3>1. ~Holds(c)' /\ ~Closed(c)'
      BY <1>1, <2>1, SocketsAssumption DEF Holds, Closed
    <3> QED BY <2>1, <3>1, PhasesNext
  <2>3. [x \in Conns |-> Phase(x)]' = [[x \in Conns |-> Phase(x)] EXCEPT ![c] = "dropped"]
    BY <1>9, <2>2
  <2>4. Service!Vanish(c)
    BY <1>1, <1>2, <1>6, <2>1, <2>3 DEF Service!Vanish, Service!Move
  <2> QED BY <2>4 DEF Service!Next
<1> QED
  BY <1>4, <1>10, <1>11, <1>12, <1>13, <1>14

LEMMA AcceptServed ==
  ASSUME NEW M, InvBase(M), InvTable, NEW N, InvBase(N)', server = "running",
         DoesAccept(M, N)
  PROVE  Service!Next
<1>1. PICK c \in backlog, f \in FreeFds : Accept(c, f)
  BY DEF DoesAccept
<1>2. /\ c \in Conns /\ c # None /\ f \in Fds /\ owner[f] = None /\ FreeFds # {}
      /\ SocketsTypeOK /\ HandlersTypeOK /\ Conns \subseteq Handlers
  BY SocketsAssumption DEF FreeFds, InvBase, SocketsTypeOK, Handlers
<1>3. /\ request' = request /\ peer' = peer /\ unsent' = unsent /\ backlog' = backlog \ {c}
      /\ wrote' = wrote /\ file' = file /\ server' = server
      /\ handle'[c] = f /\ \A x \in Conns : x # c => handle'[x] = handle[x]
      /\ owner'[f] = c /\ \A i \in Fds : i # f => owner'[i] = owner[i]
  BY <1>1, <1>2 DEF Accept, SocketsTypeOK, HandlersTypeOK
<1>4. Phase(c) = "waiting" /\ Phase(c)' = "serving"
  <2>1. Holds(c)'
    BY <1>2, <1>3 DEF Holds
  <2> QED BY <1>2, <2>1, Phases, PhasesNext
<1>5. ASSUME NEW x \in Conns, x # c PROVE Phase(x)' = Phase(x)
  <2>1. (Holds(x)' <=> Holds(x)) /\ (Closed(x)' <=> Closed(x))
    <3>1. handle'[x] = handle[x] /\ x # None
      BY <1>3, <1>5, SocketsAssumption
    <3>2. CASE handle[x] = f
      BY <1>2, <1>3, <1>5, <3>1, <3>2 DEF Holds, Closed
    <3>3. CASE handle[x] # f
      BY <1>3, <3>1, <3>3 DEF Holds, Closed
    <3> QED BY <3>2, <3>3
  <2> QED BY <1>3, <1>5, <2>1, PhaseStays
<1>6. [x \in Conns |-> Phase(x)]' = [[x \in Conns |-> Phase(x)] EXCEPT ![c] = "serving"]
  BY <1>4, <1>5
<1>7. ~Service!Full
  BY <1>2, FullMeans
<1>8. Service!Admit(c)
  BY <1>2, <1>3, <1>4, <1>6, <1>7, FaultyDiskStays DEF Service!Admit, Service!Move
<1> QED
  BY <1>2, <1>8 DEF Service!Next

\* What a handler meets that reads, of its own client.
LEMMA ReadsItsOwn ==
  ASSUME NEW M, InvBase(M), InvClean(M), NEW h \in Conns, M[h] = Reading,
         NEW n \in Receivable(handle[h]), NEW v \in ReadVerdicts(h, n)
  PROVE  /\ Holds(h) /\ handle[h] \in Fds /\ owner[handle[h]] = h
         /\ wrote[h] = 0 /\ file[h] = None
         /\ n \in Nat /\ n <= inbox[h] /\ (n = 0 => peer[h] = "fin") /\ (n > 0 => Intact(h))
         /\ v \in Verdicts
<1>1. /\ Holds(h) /\ handle[h] \in Fds /\ owner[handle[h]] = h /\ h # None
      /\ SocketsTypeOK /\ HandlersTypeOK
  BY OwnFd, Interests DEF InvClean, InvBase
<1>2. wrote[h] = 0 /\ file[h] = None
  BY DEF InvClean, InvLinked, InvTable
<1>3. n \in Nat /\ n <= inbox[h] /\ (n = 0 => peer[h] = "fin")
  BY <1>1, Receives
<1>4. /\ inbox[h] \in Nat
      /\ peer[h] # "reset" => got[h] + inbox[h] + unsent[h] = Total(h)
      /\ peer[h] = "reset" => inbox[h] = 0
  BY <1>1 DEF SocketsTypeOK, InvClean, InvSegments
<1>5. n > 0 => Intact(h)
  BY <1>1, <1>3, <1>4 DEF Intact
<1>6. v \in Verdicts
  BY <1>1, <1>3, VerdictFacts
<1> QED
  BY <1>1, <1>2, <1>3, <1>5, <1>6

LEMMA ReadServed ==
  ASSUME NEW M, InvBase(M), InvClean(M), NEW N, InvBase(N)', server = "running",
         PlainRequestsOnly, DoesRead(M, N)
  PROVE  [Service!Next]_(Service!vars)
<1>1. PICK h \in Conns : /\ M[h] = Reading /\ owner[handle[h]] # None
                         /\ \E n \in Receivable(handle[h]) : \E v \in ReadVerdicts(h, n) :
                              Read(h, n, v)
  BY DEF DoesRead
<1>2. PICK n \in Receivable(handle[h]) : \E v \in ReadVerdicts(h, n) : Read(h, n, v)
  BY <1>1
<1>3. PICK v \in ReadVerdicts(h, n) : Read(h, n, v)
  BY <1>2
<1>4. /\ Holds(h) /\ wrote[h] = 0 /\ file[h] = None /\ n \in Nat /\ v \in Verdicts
      /\ (n = 0 => peer[h] = "fin") /\ (n > 0 => Intact(h))
      /\ SocketsTypeOK /\ HandlersTypeOK
  BY <1>1, ReadsItsOwn DEF InvBase
<1>5. /\ v \in {"more", "reply", "close"}
      /\ v = "close" => peer[h] = "fin" \/ request[h].kind \notin Answerable
      /\ n = 0 => v = "close"
  <2>1. request[h].kind \in Answerable \cup {"malformed"}
    BY <1>4 DEF PlainRequestsOnly, SocketsTypeOK
  <2>2. /\ request[h].kind \notin Revivers \cup {"badlength"}
        /\ request[h].kind \in Revivers \cup {"malformed"} => request[h].kind \notin Answerable
    BY <2>1 DEF Answerable, Revivers
  <2>3. n = 0 \/ n > 0
    BY <1>4
  <2> QED BY <1>4, <2>2, <2>3, VerdictFacts DEF Verdicts
<1>6. /\ request' = request /\ peer' = peer /\ unsent' = unsent /\ backlog' = backlog
      /\ handle' = handle /\ wrote' = wrote /\ file' = file /\ server' = server
      /\ v = "close" => owner' = [owner EXCEPT ![handle[h]] = None]
      /\ v # "close" => owner' = owner
  BY <1>3, <1>5 DEF Read
<1>7. Writes # 0
  BY EventHandlersAssumption
<1>8. CASE v # "close"
  <2>1. \A x \in Conns : Phase(x)' = Phase(x)
    BY <1>4, <1>6, <1>8, PhasesAfter
  <2> QED BY <1>6, <2>1, FaultyDiskStays DEF Service!vars
<1>9. CASE v = "close"
  <2>1. /\ Phase(h) = "serving" /\ Phase(h)' = "dropped"
        /\ \A x \in Conns : x # h => Phase(x)' = Phase(x)
    BY <1>4, <1>6, <1>7, <1>9, PhasesAfter
  <2>2. [x \in Conns |-> Phase(x)]' = [[x \in Conns |-> Phase(x)] EXCEPT ![h] = "dropped"]
    BY <2>1
  <2>3. [x \in Conns |-> file[x] # None]' = [[x \in Conns |-> file[x] # None] EXCEPT ![h] = FALSE]
    BY <1>4, <1>6
  <2>4. Service!Drop(h)
    BY <1>5, <1>6, <1>9, <2>1, <2>2, <2>3, FaultyDiskStays DEF Service!Drop, Service!Move
  <2> QED BY <2>4 DEF Service!Next
<1> QED
  BY <1>8, <1>9

LEMMA ReadFailsServed ==
  ASSUME NEW M, InvBase(M), InvClean(M), NEW N, InvBase(N)', server = "running",
         DoesFailToRead(M, N)
  PROVE  Service!Next
<1>1. PICK h \in Conns : M[h] = Reading /\ ReadFails(h)
  BY DEF DoesFailToRead
<1>2. /\ Holds(h) /\ owner[handle[h]] = h /\ wrote[h] = 0 /\ file[h] = None
      /\ peer[h] # "away" /\ Writes # 0 /\ handle[h] \in Fds
  <2>1. Holds(h) /\ owner[handle[h]] = h /\ peer[h] # "away" /\ handle[h] \in Fds
    BY <1>1, OwnFd, Interests DEF InvClean
  <2>2. wrote[h] = 0 /\ file[h] = None
    BY <1>1 DEF InvClean, InvLinked, InvTable
  <2> QED BY <2>1, <2>2, EventHandlersAssumption
<1>3. /\ \A x \in Conns : peer'[x] = IF x = h THEN "reset" ELSE peer[x]
      /\ owner' = [owner EXCEPT ![handle[h]] = None]
      /\ request' = request /\ unsent' = unsent /\ handle' = handle /\ backlog' = backlog
      /\ wrote' = wrote /\ file' = file /\ server' = "aborted"
  BY <1>1, <1>2 DEF ReadFails
<1>4. /\ Phase(h) = "serving" /\ Phase(h)' = "dropped"
      /\ \A x \in Conns : x # h => Phase(x)' = Phase(x)
  BY <1>2, <1>3, PhasesAfter
<1>5. [x \in Conns |-> Phase(x)]' = [[x \in Conns |-> Phase(x)] EXCEPT ![h] = "dropped"]
  BY <1>4
<1>6. Service!EndOver(h)
  BY <1>3, <1>4, <1>5, FaultyDiskStays DEF Service!EndOver
<1>7. Service!End
  BY <1>3, <1>6 DEF Service!End
<1> QED
  BY <1>7 DEF Service!Next

LEMMA WriteServed ==
  ASSUME NEW M, InvBase(M), InvClean(M), NEW N, InvBase(N)', server = "running",
         DoesWrite(M, N)
  PROVE  Service!Next
<1>1. PICK h \in Conns : M[h] = Writing /\ Write(h)
  BY DEF DoesWrite
<1>2. /\ Holds(h) /\ request[h].kind \in Answerable /\ got[h] = Total(h)
      /\ wrote[h] \in Nat /\ wrote[h] < Writes /\ wrote'[h] = wrote[h] + 1
      /\ LastChunk(h) <=> wrote'[h] = Writes
      /\ IF LastChunk(h)
           THEN owner' = [owner EXCEPT ![handle[h]] = None] /\ file'[h] = None
           ELSE owner' = owner /\ file'[h] \in Opened(h)
      /\ \A x \in Conns : x # h => wrote'[x] = wrote[x] /\ file'[x] = file[x]
  BY <1>1, WriteFacts
<1>3. /\ request' = request /\ peer' = peer /\ unsent' = unsent /\ backlog' = backlog
      /\ handle' = handle /\ server' = server /\ wrote' = [wrote EXCEPT ![h] = @ + 1]
      /\ \A x \in Conns : OnFaultyDisk(x)' = OnFaultyDisk(x)
  BY <1>1, FaultyDiskStays DEF Write
<1>4. Writes \in Nat /\ Writes > 1 /\ SocketsTypeOK /\ HandlersTypeOK
  BY EventHandlersAssumption DEF InvBase
<1>5. unsent[h] = 0
  <2>1. /\ got[h] + inbox[h] + unsent[h] <= Total(h)
        /\ got[h] \in Nat /\ inbox[h] \in Nat /\ unsent[h] \in Nat /\ Total(h) \in Nat
    BY <1>4, RequestFacts DEF InvClean, InvSegments, SocketsTypeOK, HandlersTypeOK
  <2> HIDE DEF Total
  <2> QED BY <1>2, <2>1
<1>6. /\ Phase(h) = "serving"
      /\ Phase(h)' = IF wrote[h] + 1 = Writes THEN "done" ELSE "serving"
      /\ \A x \in Conns : x # h => Phase(x)' = Phase(x)
  BY <1>2, <1>3, PhasesAfter
<1>7. [x \in Conns |-> Phase(x)]' =
        [[x \in Conns |-> Phase(x)] EXCEPT ![h] = IF wrote[h] + 1 = Writes THEN "done" ELSE "serving"]
  BY <1>6
<1>8. \/ file'[h] # None <=> file[h] # None /\ wrote[h] + 1 < Writes
      \/ wrote[h] = 0 /\ ~Service!Full /\ file'[h] # None
  <2>1. CASE LastChunk(h)
    BY <1>2, <1>4, <2>1
  <2>2. CASE ~LastChunk(h)
    <3>1. wrote[h] + 1 < Writes
      BY <1>2, <1>4, <2>2
    <3>2. CASE First(h) /\ request[h].kind = "file" /\ FreeFds # {}
      <4>1. file'[h] \in FreeFds \/ file'[h] = file[h]
        BY <1>2, <2>2, <3>2 DEF Opened
      <4>2. file'[h] \in FreeFds => file'[h] # None
        BY SocketsAssumption DEF FreeFds
      <4>3. ~Service!Full
        BY <3>2, FullMeans DEF InvClean
      <4> QED BY <3>1, <3>2, <4>1, <4>2, <4>3 DEF First
    <3>3. CASE ~(First(h) /\ request[h].kind = "file" /\ FreeFds # {})
      BY <1>2, <2>2, <3>1, <3>3 DEF Opened
    <3> QED BY <3>2, <3>3
  <2> QED BY <2>1, <2>2
<1> DEFINE reads == [x \in Conns |-> file[x] # None]
<1>9. \/ reads' = [reads EXCEPT ![h] = @ /\ (wrote[h] + 1 < Writes)]
      \/ wrote[h] = 0 /\ ~Service!Full /\ reads' = [reads EXCEPT ![h] = TRUE]
  <2>1. \A x \in Conns : x # h => (file'[x] # None <=> file[x] # None)
    BY <1>2
  <2>2. CASE file'[h] # None <=> file[h] # None /\ wrote[h] + 1 < Writes
    BY <2>1, <2>2
  <2>3. CASE wrote[h] = 0 /\ ~Service!Full /\ file'[h] # None
    BY <2>1, <2>3
  <2> QED BY <1>8, <2>2, <2>3
<1>10. Service!Tell(h)
  BY <1>2, <1>3, <1>4, <1>5, <1>6, <1>7, <1>9 DEF Service!Tell, Service!Move
<1> QED
  BY <1>10 DEF Service!Next

LEMMA CloseServed ==
  ASSUME NEW M, InvBase(M), InvClean(M), NEW N, InvBase(N)', server = "running",
         DoesClose(M, N)
  PROVE  Service!Next
<1>1. PICK h \in Conns : M[h] # {} /\ (Holds(h) => peer[h] \in {"fin", "reset"}) /\ Close(h)
  BY DEF DoesClose
<1>2. /\ Holds(h) /\ peer[h] \in {"fin", "reset"} /\ wrote[h] \in Nat /\ wrote[h] < Writes
      /\ HandlersTypeOK /\ Writes \in Nat
  BY <1>1, OwnFd, EventHandlersAssumption
     DEF InvClean, InvResponses, InvBase, HandlersTypeOK
<1>3. /\ owner' = [owner EXCEPT ![handle[h]] = None]
      /\ file'[h] = None /\ \A x \in Conns : x # h => file'[x] = file[x]
      /\ request' = request /\ unsent' = unsent /\ handle' = handle /\ backlog' = backlog
      /\ peer' = peer /\ wrote' = wrote /\ server' = server
  BY <1>1, <1>2 DEF Close, HandlersTypeOK
<1>4. /\ Phase(h) = "serving" /\ Phase(h)' = "dropped"
      /\ \A x \in Conns : x # h => Phase(x)' = Phase(x)
  <2>1. wrote'[h] # Writes
    BY <1>2, <1>3
  <2> QED BY <1>2, <1>3, <2>1, PhasesAfter
<1>5. [x \in Conns |-> Phase(x)]' = [[x \in Conns |-> Phase(x)] EXCEPT ![h] = "dropped"]
  BY <1>4
<1>6. [x \in Conns |-> file[x] # None]' = [[x \in Conns |-> file[x] # None] EXCEPT ![h] = FALSE]
  BY <1>3
<1>7. Service!Drop(h)
  BY <1>2, <1>3, <1>4, <1>5, <1>6, FaultyDiskStays DEF Service!Drop, Service!Move
<1> QED
  BY <1>7 DEF Service!Next

LEMMA EndServed ==
  ASSUME NEW M, InvBase(M), InvClean(M), NEW N, server = "running", Clean,
         DoesThrow(M, N) \/ DoesEnd(M, N)
  PROVE  Service!Next
<1>1. /\ UNCHANGED sockVars /\ UNCHANGED <<handle, got, wrote, delivered, file>>
      /\ server' # "running"
  BY DEF DoesThrow, DoesEnd, ProcessThrows, Fatal
<1>2. /\ request' = request /\ peer' = peer /\ unsent' = unsent
      /\ \A x \in Conns : Phase(x)' = Phase(x)
      /\ \A x \in Conns : OnFaultyDisk(x)' = OnFaultyDisk(x)
      /\ wrote' = wrote /\ file' = file
  BY <1>1, FaultyDiskStays DEF sockVars, Phase, Holds, Closed
<1>3. [x \in Conns |-> Phase(x)]' = [x \in Conns |-> Phase(x)]
  BY <1>2
<1>4. ASSUME FreeFds = {}, NEW c \in Conns,
             \/ Phase(c) = "waiting"
             \/ Phase(c) = "serving" /\ unsent[c] = 0 /\ wrote[c] = 0
      PROVE  Service!Next
  <2>1. Service!Full
    BY <1>4, FullMeans DEF InvClean
  <2>2. Service!EndFull
    BY <1>2, <1>3, <1>4, <2>1 DEF Service!EndFull
  <2> QED BY <1>1, <1>2, <2>2 DEF Service!Next, Service!End
<1>5. CASE DoesThrow(M, N)
  <2>1. PICK h \in Conns : M[h] = Writing /\ (CannotList(h) \/ DiskMayFail(h))
    BY <1>5 DEF DoesThrow, ProcessThrows
  <2>2. /\ wrote[h] = 0 /\ Phase(h) = "serving" /\ got[h] = Total(h)
    BY <2>1, OwnFd, Phases, Interests DEF CannotList, DiskMayFail, First, InvClean, InvLinked
  <2>3. unsent[h] = 0
    <3>1. /\ got[h] + inbox[h] + unsent[h] <= Total(h)
          /\ got[h] \in Nat /\ inbox[h] \in Nat /\ unsent[h] \in Nat /\ Total(h) \in Nat
      BY RequestFacts DEF InvClean, InvSegments, InvBase, SocketsTypeOK, HandlersTypeOK
    <3> HIDE DEF Total
    <3> QED BY <2>2, <3>1
  <2>4. CASE CannotList(h)
    BY <1>4, <2>2, <2>3, <2>4 DEF CannotList
  <2>5. CASE DiskMayFail(h)
    <3>1. Service!EndUnread
      BY <1>2, <1>3, <2>2, <2>3, <2>5 DEF Service!EndUnread, DiskMayFail
    <3> QED BY <1>1, <1>2, <3>1 DEF Service!Next, Service!End
  <2> QED BY <2>1, <2>4, <2>5
<1>6. CASE backlog # {} /\ FreeFds = {}
  <2>1. PICK c \in Conns : c \in backlog
    BY <1>6 DEF InvBase, SocketsTypeOK
  <2> QED BY <1>4, <1>6, <2>1, Phases
<1>7. CASE \E h \in Conns : M[h] # {} /\ SendFails(handle[h])
  <2>1. PICK h \in Conns : M[h] # {} /\ SendFails(handle[h])
    BY <1>7
  <2>2. Phase(h) = "serving" /\ peer[h] = "reset"
    BY <2>1, OwnFd, Phases DEF InvClean, SendFails
  <2>3. Service!EndOver(h)
    BY <1>2, <1>3, <2>2 DEF Service!EndOver
  <2> QED BY <1>1, <1>2, <2>3 DEF Service!Next, Service!End
<1> QED
  BY <1>5, <1>6, <1>7 DEF DoesEnd

\* Every step of the handlers is one of the service, or none of it is seen.
LEMMA HandlersServe ==
  ASSUME NEW M, HInv(M), NEW N, HandlersStep(M, N), PlainRequestsOnly, server = "running"
  PROVE  [Service!Next]_(Service!vars)
<1>1. InvBase(M) /\ InvClean(M) /\ InvBase(N)' /\ Clean /\ InvTable
  BY BaseKeeps, PlainIsClean DEF HInv, InvBase, InvClean
<1>2. CASE DoesNothing(M, N)
  BY <1>2, FaultyDiskStays DEF DoesNothing, sockVars, handlerVars, Service!vars, Phase, Holds, Closed
<1> QED
  BY <1>1, <1>2, ClientServed, AcceptServed, ReadServed, ReadFailsServed, WriteServed,
     CloseServed, EndServed DEF HandlersStep

\* The service begins as it should.
LEMMA InitServes ==
  ASSUME SocketsInit, HandlersInit
  PROVE  Service!Init
<1>1. /\ \A c \in Conns : peer[c] = "away" /\ file[c] = None
      /\ wrote = [c \in Conns |-> 0] /\ server = "running"
  BY DEF SocketsInit, HandlersInit
<1>2. \A c \in Conns : Phase(c) = "away"
  <2>1. PICK M : M = [h \in Handlers |-> IF h = Listener THEN Listening ELSE {}]
    OBVIOUS
  <2>2. InvBase(M)
    BY <2>1, InitKeeps DEF HInv
  <2> QED BY <1>1, <2>2, Phases
<1>3. \A c \in Conns : unsent[c] # 0
  <2>1. \A r \in Requests : r.head + r.body # 0
    BY SocketsAssumption
  <2> QED BY <2>1 DEF SocketsInit, Total
<1>4. \A c \in Conns :
        [asked |-> unsent[c] = 0, good |-> request[c].kind \in Answerable,
         disk |-> OnFaultyDisk(c),
         gone |-> peer[c] \in {"fin", "reset"}]
          \in [asked : {FALSE}, good : BOOLEAN, disk : BOOLEAN, gone : {FALSE}]
  <2> SUFFICES ASSUME NEW c \in Conns
               PROVE  /\ (unsent[c] = 0) \in {FALSE}
                      /\ (request[c].kind \in Answerable) \in BOOLEAN
                      /\ OnFaultyDisk(c) \in BOOLEAN
                      /\ (peer[c] \in {"fin", "reset"}) \in {FALSE}
    OBVIOUS
  <2>1. ~(unsent[c] = 0) /\ ~(peer[c] \in {"fin", "reset"})
    BY <1>1, <1>3
  <2>2. (unsent[c] = 0) \in {FALSE}
    BY <2>1
  <2>3. /\ (request[c].kind \in Answerable) \in BOOLEAN
        /\ OnFaultyDisk(c) \in BOOLEAN
    BY DEF OnFaultyDisk
  <2>4. (peer[c] \in {"fin", "reset"}) \in {FALSE}
    <3>1. (peer[c] \in {"fin", "reset"}) = FALSE
      BY <2>1
    <3>2. \A v : v = FALSE => v \in {FALSE}
      OBVIOUS
    <3> QED BY <3>1, <3>2, Zenon
  <2> QED BY <2>2, <2>3, <2>4
<1> QED
  BY <1>1, <1>2, <1>4 DEF Service!Init
============================================================================
