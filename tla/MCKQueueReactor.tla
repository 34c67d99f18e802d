-------------------------- MODULE MCKQueueReactor --------------------------
(* Instances of KQueueReactor for TLC.                                     *)
EXTENDS KQueueReactor, TLC

Ask(kind, head, body) == [kind |-> kind, head |-> head, body |-> body]

\* Requests the server answers, or refuses, as it means to.
PlainRequests == {Ask("file", 1, 1), Ask("malformed", 1, 0)}

\* Answers of each kind, which compete for descriptors.
AnswerableRequests == {Ask("good", 1, 0), Ask("file", 1, 0), Ask("list", 1, 1)}

ShortRequests == {Ask("good", 1, 0)}

\* One of each kind.
AllRequests ==
  {Ask("good", 1, 0), Ask("file", 1, 0), Ask("list", 1, 0), Ask("nopath", 1, 1),
   Ask("malformed", 1, 0), Ask("badlength", 1, 0), Ask("toolong", 1, 0)}

NoPathRequests == {Ask("good", 1, 0), Ask("nopath", 1, 0)}

\* A bound: the three clients send requests of at most two kinds.
TwoKinds == Cardinality({request[c].kind : c \in Conns}) <= 2

TwoKindsInit == Init /\ TwoKinds

TwoKindsSpec == TwoKindsInit /\ [][Next]_vars

Symmetry == Permutations(Conns) \cup Permutations(Fds)
============================================================================
