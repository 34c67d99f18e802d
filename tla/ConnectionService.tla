------------------------- MODULE ConnectionService -------------------------
(***************************************************************************)
(* What the server promises its clients, whatever dispatcher it runs on:   *)
(* it admits the connections that arrive, tells each one the chunks of the *)
(* response to its own request, in order and only after the whole request  *)
(* has been sent, and gives a connection up early only if its client has   *)
(* left or its request is not one it can answer.  Descriptors, batches,    *)
(* events and handlers are not visible here.                               *)
(***************************************************************************)
EXTENDS Naturals, FiniteSets

CONSTANTS
  Conns,     \* the connections
  Capacity,  \* how many places there are to serve them in
  Chunks     \* chunks in a response

VARIABLES
  phase,   \* phase[c]: away, waiting, serving, done or dropped
  told,    \* told[c]: chunks of its response c was sent
  reads,   \* reads[c]: its response takes a second place, until it is told
  client,  \* client[c]: [asked, good, disk, gone], what the client has done
  up       \* the process runs

vars == <<phase, told, reads, client, up>>

Serving == {c \in Conns : phase[c] = "serving"}

Full == Cardinality(Serving) + Cardinality({c \in Conns : reads[c]}) >= Capacity

Init ==
  /\ phase = [c \in Conns |-> "away"]
  /\ told = [c \in Conns |-> 0]
  /\ reads = [c \in Conns |-> FALSE]
  /\ client \in [Conns -> [asked : {FALSE}, good : BOOLEAN, disk : BOOLEAN,
                       gone : {FALSE}]]
  /\ up = TRUE

Move(c, from, to) == phase[c] = from /\ phase' = [phase EXCEPT ![c] = to]

----------------------------------------------------------------------------
(* The client.                                                             *)

Arrive(c) == Move(c, "away", "waiting") /\ UNCHANGED <<told, reads, client, up>>

\* The last of its request is on the way.
Ask(c) ==
  /\ phase[c] \in {"waiting", "serving"}
  /\ ~client[c].asked /\ ~client[c].gone
  /\ client' = [client EXCEPT ![c].asked = TRUE]
  /\ UNCHANGED <<phase, told, reads, up>>

Leave(c) ==
  /\ phase[c] \in {"waiting", "serving"}
  /\ client' = [client EXCEPT ![c].gone = TRUE]
  /\ UNCHANGED <<phase, told, reads, up>>

\* It gives up before it was admitted.
Vanish(c) ==
  /\ Move(c, "waiting", "dropped")
  /\ client' = [client EXCEPT ![c].gone = TRUE]
  /\ UNCHANGED <<told, reads, up>>

----------------------------------------------------------------------------
(* The server.                                                             *)

Admit(c) == Move(c, "waiting", "serving") /\ ~Full /\ UNCHANGED <<told, reads, client, up>>

\* A second place can be taken with the first chunk, if there is one, and is
\* given back with the last.
Tell(c) ==
  /\ client[c].asked /\ client[c].good
  /\ told[c] < Chunks
  /\ told' = [told EXCEPT ![c] = @ + 1]
  /\ \/ reads' = [reads EXCEPT ![c] = @ /\ (told[c] + 1 < Chunks)]
     \/ told[c] = 0 /\ Chunks > 1 /\ ~Full /\ reads' = [reads EXCEPT ![c] = TRUE]
  /\ Move(c, "serving", IF told[c] + 1 = Chunks THEN "done" ELSE "serving")
  /\ UNCHANGED <<client, up>>

Drop(c) ==
  /\ client[c].gone \/ ~client[c].good
  /\ Move(c, "serving", "dropped")
  /\ reads' = [reads EXCEPT ![c] = FALSE]
  /\ UNCHANGED <<told, client, up>>

\* The process ends: with no place for the next connection or for what the
\* next response takes, before the first chunk of a response from a disk that
\* may fail, or over a connection whose client left, perhaps in the very call
\* that found it out.
EndFull ==
  /\ Full
  /\ \E c \in Conns :
       \/ phase[c] = "waiting"
       \/ phase[c] = "serving" /\ client[c].asked /\ told[c] = 0
  /\ UNCHANGED <<phase, client>>

EndUnread ==
  /\ \E c \in Conns :
       phase[c] = "serving" /\ client[c].asked /\ client[c].disk /\ told[c] = 0
  /\ UNCHANGED <<phase, client>>

EndOver(c) ==
  /\ phase[c] = "serving"
  /\ phase' \in {phase, [phase EXCEPT ![c] = "dropped"]}
  /\ client' = [client EXCEPT ![c].gone = TRUE]

End ==
  /\ up' = FALSE
  /\ EndFull \/ EndUnread \/ \E c \in Conns : EndOver(c)
  /\ UNCHANGED <<told, reads>>

----------------------------------------------------------------------------
Next ==
  /\ up
  /\ \/ End
     \/ \E c \in Conns :
          \/ Arrive(c) \/ Ask(c) \/ Leave(c) \/ Vanish(c)
          \/ Admit(c) \/ Tell(c) \/ Drop(c)

Spec == Init /\ [][Next]_vars
============================================================================
