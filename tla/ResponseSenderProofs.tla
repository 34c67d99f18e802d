------------------------ MODULE ResponseSenderProofs ------------------------
(***************************************************************************)
(* Proofs about ResponseSender, for every chunk size, every size of header *)
(* block, made-up body and file, and any number of changes to the disk.    *)
(***************************************************************************)
EXTENDS ResponseSender, TLAPS

----------------------------------------------------------------------------
(* The inductive invariant.                                                *)

\* Until a response is being written nothing has been read or sent, and an
\* exchange that was aborted was aborted before that.
NothingYet ==
  stage \in {"locate", "decide", "size", "open", "aborted"} =>
    /\ ~response.headEof /\ ~response.textEof /\ ~response.made
    /\ response.text = 0 /\ response.calls = 0
    /\ ~file.open /\ ~file.eof /\ ~file.bad /\ file.pos = 0
    /\ sent.head = 0 /\ sent.body = 0
    /\ stage = "size" => asked.method \in {"GET", "HEAD"}

\* What canServe found is still there as long as the disk has not changed.
FoundIsThere ==
  changes = 0 =>
    /\ stage = "decide" => target = CanServe
    /\ stage = "size" => Node(target) = "file"

\* The header block: what was sent and what is left make it up, and the body
\* waits for its end.
Head ==
  stage \in {"open", "write", "done"} =>
    /\ sent.head + response.head = asked.header
    /\ response.headEof => response.head = 0 /\ response.calls >= 1
    /\ ~response.headEof => sent.body = 0 /\ ~response.textEof /\ ~file.eof
    /\ response.textEof \/ file.eof => response.calls >= 2

\* A made-up body: likewise, and no file is open.
MadeUp ==
  (stage \in {"write", "done"} /\ response.made) =>
    /\ ~file.open
    /\ response.length = asked.text
    /\ sent.body + response.text = asked.text
    /\ response.textEof => response.text = 0

\* A file, or the header block of one: while it has not changed its length is
\* the one announced, and what was read of it was sent.
FromDisk ==
  (stage \in {"open", "write", "done"} /\ ~response.made) =>
    /\ asked.method \in {"GET", "HEAD"}
    /\ response.text = 0
    /\ sent.body = file.pos
    /\ ~file.open => file.pos = 0
    /\ ~touched => /\ response.length = disk.size
                   /\ file.pos <= disk.size
                   /\ stage = "open" => Node(target) = "file"
                   /\ stage # "open" /\ disk.io = "fine" =>
                        /\ file.open <=> asked.method = "GET"
                        /\ ~file.bad
                        /\ file.eof => file.pos = disk.size

\* An exchange that goes on has something left to read, one that is done has not.
Ended ==
  /\ stage = "write" => IF file.open THEN ~file.eof ELSE ~response.textEof
  /\ stage = "done" => IF file.open THEN file.eof ELSE response.textEof

IInv ==
  /\ TypeOK /\ NothingYet /\ FoundIsThere /\ Head /\ MadeUp /\ FromDisk /\ Ended
  /\ ListsOnlyIfAllowed /\ AbortsOnlyOnRace

----------------------------------------------------------------------------
(* Helpers.                                                                *)

\* Smaller is the smaller of two numbers.
LEMMA SmallerIs ==
  ASSUME NEW a \in Nat, NEW b \in Nat
  PROVE  /\ Smaller(a, b) \in Nat /\ Smaller(a, b) <= a /\ Smaller(a, b) <= b
         /\ a < b => Smaller(a, b) = a
         /\ ~(a < b) => Smaller(a, b) = b
BY DEF Smaller

\* The fields of a response have their types.
LEMMA ResponseFields ==
  ASSUME NEW r \in Responses
  PROVE  /\ r.status \in Statuses /\ r.made \in BOOLEAN
         /\ r.length \in Nat /\ r.head \in Nat /\ r.text \in Nat
         /\ r.headEof \in BOOLEAN /\ r.textEof \in BOOLEAN
         /\ r.calls \in 0 .. MaxCalls
BY DEF Responses, MaxCalls

\* So have those of the state.
LEMMA Fields ==
  ASSUME TypeOK
  PROVE  /\ response.status \in Statuses /\ response.made \in BOOLEAN
         /\ response.headEof \in BOOLEAN /\ response.textEof \in BOOLEAN
         /\ response.length \in Nat /\ response.head \in Nat /\ response.text \in Nat
         /\ response.calls \in 0 .. MaxCalls
         /\ file.open \in BOOLEAN /\ file.bad \in BOOLEAN /\ file.eof \in BOOLEAN
         /\ file.pos \in Nat
         /\ sent.head \in Nat /\ sent.body \in Nat
         /\ asked.header \in Nat /\ asked.text \in Nat /\ asked.listing \in BOOLEAN
         /\ disk.size \in Nat /\ changes \in Nat
<1>1. response \in Responses
  BY DEF TypeOK
<1>2. /\ file.open \in BOOLEAN /\ file.bad \in BOOLEAN /\ file.eof \in BOOLEAN
      /\ file.pos \in Nat
  BY DEF TypeOK, Files
<1>3. sent.head \in Nat /\ sent.body \in Nat
  BY DEF TypeOK
<1>4. asked.header \in Nat /\ asked.text \in Nat /\ asked.listing \in BOOLEAN
  BY ResponseAssumption DEF TypeOK
<1>5. disk.size \in Nat /\ changes \in Nat
  <2>1. disk.size \in FileSizes
    BY DEF TypeOK, Disks
  <2>2. disk.size \in Nat
    BY <2>1, ResponseAssumption
  <2>3. changes \in 0 .. MaxChanges
    BY DEF TypeOK
  <2>4. changes \in Nat
    BY <2>3
  <2> QED
    BY <2>2, <2>4
<1>6. /\ response.status \in Statuses /\ response.made \in BOOLEAN
      /\ response.length \in Nat /\ response.head \in Nat /\ response.text \in Nat
      /\ response.headEof \in BOOLEAN /\ response.textEof \in BOOLEAN
      /\ response.calls \in 0 .. MaxCalls
  BY <1>1, ResponseFields
<1> QED
  BY <1>2, <1>3, <1>4, <1>5, <1>6

\* A response stays one in each of the ways a step changes it.
LEMMA WithText ==
  ASSUME NEW r \in Responses, NEW status \in Statuses, NEW made \in BOOLEAN,
         NEW length \in Nat, NEW head \in Nat
  PROVE  [r EXCEPT !.status = status, !.made = made, !.length = length, !.head = head,
                   !.text = length] \in Responses
<1>0. /\ r.status \in Statuses /\ r.made \in BOOLEAN
      /\ r.length \in Nat /\ r.head \in Nat /\ r.text \in Nat
      /\ r.headEof \in BOOLEAN /\ r.textEof \in BOOLEAN /\ r.calls \in 0 .. MaxCalls
  BY ResponseFields
<1> DEFINE r1 == [r EXCEPT !.status = status]
<1>1. r1 = [status |-> status, made |-> r.made, length |-> r.length, head |-> r.head,
           headEof |-> r.headEof, text |-> r.text, textEof |-> r.textEof, calls |-> r.calls]
  BY DEF Responses
<1> DEFINE r2 == [r1 EXCEPT !.made = made]
<1>2. r2 = [status |-> status, made |-> made, length |-> r.length, head |-> r.head,
           headEof |-> r.headEof, text |-> r.text, textEof |-> r.textEof, calls |-> r.calls]
  <2> HIDE DEF r1
  <2> QED
    BY <1>1
<1> DEFINE r3 == [r2 EXCEPT !.length = length]
<1>3. r3 = [status |-> status, made |-> made, length |-> length, head |-> r.head,
           headEof |-> r.headEof, text |-> r.text, textEof |-> r.textEof, calls |-> r.calls]
  <2> HIDE DEF r2
  <2> QED
    BY <1>2
<1> DEFINE r4 == [r3 EXCEPT !.head = head]
<1>4. r4 = [status |-> status, made |-> made, length |-> length, head |-> head,
           headEof |-> r.headEof, text |-> r.text, textEof |-> r.textEof, calls |-> r.calls]
  <2> HIDE DEF r3
  <2> QED
    BY <1>3
<1> DEFINE r5 == [r4 EXCEPT !.text = length]
<1>5. r5 = [status |-> status, made |-> made, length |-> length, head |-> head,
           headEof |-> r.headEof, text |-> length, textEof |-> r.textEof, calls |-> r.calls]
  <2> HIDE DEF r4
  <2> QED
    BY <1>4
<1>6. r5 \in Responses
  <2> HIDE DEF r5
  <2> QED
    BY <1>0, <1>5 DEF Responses
<1> QED
  BY <1>6

LEMMA WithLength ==
  ASSUME NEW r \in Responses, NEW length \in Nat, NEW head \in Nat
  PROVE  [r EXCEPT !.length = length, !.head = head] \in Responses
<1>0. /\ r.status \in Statuses /\ r.made \in BOOLEAN
      /\ r.length \in Nat /\ r.head \in Nat /\ r.text \in Nat
      /\ r.headEof \in BOOLEAN /\ r.textEof \in BOOLEAN /\ r.calls \in 0 .. MaxCalls
  BY ResponseFields
<1> DEFINE r1 == [r EXCEPT !.length = length]
<1>1. r1 = [status |-> r.status, made |-> r.made, length |-> length, head |-> r.head,
           headEof |-> r.headEof, text |-> r.text, textEof |-> r.textEof, calls |-> r.calls]
  BY DEF Responses
<1> DEFINE r2 == [r1 EXCEPT !.head = head]
<1>2. r2 = [status |-> r.status, made |-> r.made, length |-> length, head |-> head,
           headEof |-> r.headEof, text |-> r.text, textEof |-> r.textEof, calls |-> r.calls]
  <2> HIDE DEF r1
  <2> QED
    BY <1>1
<1>3. r2 \in Responses
  <2> HIDE DEF r2
  <2> QED
    BY <1>0, <1>2 DEF Responses
<1> QED
  BY <1>3

LEMMA WithHead ==
  ASSUME NEW r \in Responses, NEW head \in Nat, NEW eof \in BOOLEAN, NEW calls \in 0 .. MaxCalls
  PROVE  [r EXCEPT !.head = head, !.headEof = eof, !.calls = calls] \in Responses
<1>0. /\ r.status \in Statuses /\ r.made \in BOOLEAN
      /\ r.length \in Nat /\ r.head \in Nat /\ r.text \in Nat
      /\ r.headEof \in BOOLEAN /\ r.textEof \in BOOLEAN /\ r.calls \in 0 .. MaxCalls
  BY ResponseFields
<1> DEFINE r1 == [r EXCEPT !.head = head]
<1>1. r1 = [status |-> r.status, made |-> r.made, length |-> r.length, head |-> head,
           headEof |-> r.headEof, text |-> r.text, textEof |-> r.textEof, calls |-> r.calls]
  BY DEF Responses
<1> DEFINE r2 == [r1 EXCEPT !.headEof = eof]
<1>2. r2 = [status |-> r.status, made |-> r.made, length |-> r.length, head |-> head,
           headEof |-> eof, text |-> r.text, textEof |-> r.textEof, calls |-> r.calls]
  <2> HIDE DEF r1
  <2> QED
    BY <1>1
<1> DEFINE r3 == [r2 EXCEPT !.calls = calls]
<1>3. r3 = [status |-> r.status, made |-> r.made, length |-> r.length, head |-> head,
           headEof |-> eof, text |-> r.text, textEof |-> r.textEof, calls |-> calls]
  <2> HIDE DEF r2
  <2> QED
    BY <1>2
<1>4. r3 \in Responses
  <2> HIDE DEF r3
  <2> QED
    BY <1>0, <1>3 DEF Responses
<1> QED
  BY <1>4

LEMMA WithRest ==
  ASSUME NEW r \in Responses, NEW text \in Nat, NEW eof \in BOOLEAN, NEW calls \in 0 .. MaxCalls
  PROVE  [r EXCEPT !.text = text, !.textEof = eof, !.calls = calls] \in Responses
<1>0. /\ r.status \in Statuses /\ r.made \in BOOLEAN
      /\ r.length \in Nat /\ r.head \in Nat /\ r.text \in Nat
      /\ r.headEof \in BOOLEAN /\ r.textEof \in BOOLEAN /\ r.calls \in 0 .. MaxCalls
  BY ResponseFields
<1> DEFINE r1 == [r EXCEPT !.text = text]
<1>1. r1 = [status |-> r.status, made |-> r.made, length |-> r.length, head |-> r.head,
           headEof |-> r.headEof, text |-> text, textEof |-> r.textEof, calls |-> r.calls]
  BY DEF Responses
<1> DEFINE r2 == [r1 EXCEPT !.textEof = eof]
<1>2. r2 = [status |-> r.status, made |-> r.made, length |-> r.length, head |-> r.head,
           headEof |-> r.headEof, text |-> text, textEof |-> eof, calls |-> r.calls]
  <2> HIDE DEF r1
  <2> QED
    BY <1>1
<1> DEFINE r3 == [r2 EXCEPT !.calls = calls]
<1>3. r3 = [status |-> r.status, made |-> r.made, length |-> r.length, head |-> r.head,
           headEof |-> r.headEof, text |-> text, textEof |-> eof, calls |-> calls]
  <2> HIDE DEF r2
  <2> QED
    BY <1>2
<1>4. r3 \in Responses
  <2> HIDE DEF r3
  <2> QED
    BY <1>0, <1>3 DEF Responses
<1> QED
  BY <1>4

LEMMA WithCalls ==
  ASSUME NEW r \in Responses, NEW calls \in 0 .. MaxCalls
  PROVE  [r EXCEPT !.calls = calls] \in Responses
<1>0. /\ r.status \in Statuses /\ r.made \in BOOLEAN
      /\ r.length \in Nat /\ r.head \in Nat /\ r.text \in Nat
      /\ r.headEof \in BOOLEAN /\ r.textEof \in BOOLEAN /\ r.calls \in 0 .. MaxCalls
  BY ResponseFields
<1> DEFINE r1 == [r EXCEPT !.calls = calls]
<1>1. r1 = [status |-> r.status, made |-> r.made, length |-> r.length, head |-> r.head,
           headEof |-> r.headEof, text |-> r.text, textEof |-> r.textEof, calls |-> calls]
  BY DEF Responses
<1>2. r1 \in Responses
  <2> HIDE DEF r1
  <2> QED
    BY <1>0, <1>1 DEF Responses
<1> QED
  BY <1>2

LEMMA WithStatus ==
  ASSUME NEW r \in Responses, NEW status \in Statuses
  PROVE  [r EXCEPT !.status = status] \in Responses
<1>0. /\ r.status \in Statuses /\ r.made \in BOOLEAN
      /\ r.length \in Nat /\ r.head \in Nat /\ r.text \in Nat
      /\ r.headEof \in BOOLEAN /\ r.textEof \in BOOLEAN /\ r.calls \in 0 .. MaxCalls
  BY ResponseFields
<1> DEFINE r1 == [r EXCEPT !.status = status]
<1>1. r1 = [status |-> status, made |-> r.made, length |-> r.length, head |-> r.head,
           headEof |-> r.headEof, text |-> r.text, textEof |-> r.textEof, calls |-> r.calls]
  BY DEF Responses
<1>2. r1 \in Responses
  <2> HIDE DEF r1
  <2> QED
    BY <1>0, <1>1 DEF Responses
<1> QED
  BY <1>2

LEMMA WithPlace ==
  ASSUME NEW f \in Files, NEW pos \in Nat, NEW eof \in BOOLEAN
  PROVE  [f EXCEPT !.pos = pos, !.eof = eof] \in Files
<1>0. f.open \in BOOLEAN /\ f.bad \in BOOLEAN
  BY DEF Files
<1> DEFINE g == [f EXCEPT !.pos = pos]
<1>1. g = [open |-> f.open, bad |-> f.bad, eof |-> f.eof, pos |-> pos]
  BY DEF Files
<1>2. [g EXCEPT !.eof = eof] = [open |-> f.open, bad |-> f.bad, eof |-> eof, pos |-> pos]
  <2> HIDE DEF g
  <2> QED
    BY <1>1
<1> DEFINE h == [g EXCEPT !.eof = eof]
<1>3. h \in Files
  <2>1. h = [open |-> f.open, bad |-> f.bad, eof |-> eof, pos |-> pos]
    BY <1>2
  <2> HIDE DEF h
  <2> QED
    BY <1>0, <2>1 DEF Files
<1> QED
  BY <1>3

\* The calls counted: one, then two and no more.
LEMMA CountedIs ==
  ASSUME TypeOK
  PROVE  /\ Counted \in 0 .. MaxCalls
         /\ Counted >= 1
         /\ response.calls >= 1 => Counted >= 2
BY Fields DEF Counted, Smaller, MaxCalls

\* What is left of a file is a number.
LEMMA FileLeftIs ==
  ASSUME TypeOK
  PROVE  /\ FileLeft \in Nat
         /\ (~file.bad /\ file.pos <= disk.size) => FileLeft = disk.size - file.pos
<1>1. disk.size \in Nat /\ file.pos \in Nat
  BY Fields
<1>2. FileLeft = IF disk.size > file.pos /\ ~file.bad THEN disk.size - file.pos ELSE 0
  BY DEF FileLeft
<1>3. CASE file.bad
  BY <1>1, <1>2, <1>3
<1>4. CASE ~file.bad
  BY <1>1, <1>2, <1>4
<1> QED
  BY <1>3, <1>4

----------------------------------------------------------------------------
(* Every step keeps the invariant.                                         *)

LEMMA InitInv == Init => IInv
<1> SUFFICES ASSUME Init PROVE IInv
  OBVIOUS
<1>1. TypeOK
  <2>1. changes \in 0 .. MaxChanges
    BY ResponseAssumption DEF Init
  <2>2. response \in Responses
    BY DEF Init, MaxCalls, Responses, Statuses
  <2>3. file \in Files
    BY DEF Init, Files
  <2> QED
    BY <2>1, <2>2, <2>3 DEF Init, TypeOK, Stages
<1>2. NothingYet /\ FoundIsThere
  BY DEF Init, NothingYet, FoundIsThere
<1>3. Head /\ MadeUp /\ FromDisk /\ Ended
  BY DEF Init, Head, MadeUp, FromDisk, Ended
<1>4. ListsOnlyIfAllowed /\ AbortsOnlyOnRace
  BY DEF Init, ListsOnlyIfAllowed, AbortsOnlyOnRace
<1> QED
  BY <1>1, <1>2, <1>3, <1>4 DEF IInv

\* Looking for the path's file.
LEMMA LocateInv == IInv /\ Locate => IInv'
<1> SUFFICES ASSUME IInv, Locate PROVE IInv'
  OBVIOUS
<1> USE DEF IInv, Locate
<1>1. TypeOK'
  BY DEF TypeOK, CanServe, Stages
<1>2. NothingYet' /\ Head' /\ MadeUp' /\ FromDisk' /\ Ended'
  BY DEF NothingYet, Head, MadeUp, FromDisk, Ended
<1>3. FoundIsThere'
  BY DEF FoundIsThere, CanServe
<1>4. ListsOnlyIfAllowed' /\ AbortsOnlyOnRace'
  BY DEF ListsOnlyIfAllowed, AbortsOnlyOnRace
<1> QED
  BY <1>1, <1>2, <1>3, <1>4

\* The response is a status with a made-up body.
LEMMA TextInv ==
  ASSUME IInv, stage = "decide", NEW status \in Statuses,
         status = 200 => asked.listing, Text(status),
         UNCHANGED <<asked, disk, changes, target, file, sent, touched>>
  PROVE  IInv'
<1> USE DEF IInv, Text
<1>1. TypeOK'
  <2>1. asked.header \in Nat /\ asked.text \in Nat
    BY Fields
  <2>2. response' = [response EXCEPT !.status = status, !.made = TRUE, !.length = asked.text,
                                     !.head = asked.header, !.text = asked.text]
    BY DEF Text
  <2>3. [response EXCEPT !.status = status, !.made = TRUE, !.length = asked.text,
                         !.head = asked.header, !.text = asked.text] \in Responses
    <3>1. response \in Responses /\ TRUE \in BOOLEAN
      BY DEF TypeOK
    <3> QED
      BY <2>1, <3>1, WithText
  <2> QED
    BY <2>2, <2>3 DEF TypeOK, Stages
<1>2. NothingYet' /\ FoundIsThere'
  BY DEF NothingYet, FoundIsThere
<1>3. Head' /\ MadeUp' /\ FromDisk' /\ Ended'
  BY ResponseAssumption DEF TypeOK, NothingYet, Head, MadeUp, FromDisk, Ended
<1>4. ListsOnlyIfAllowed' /\ AbortsOnlyOnRace'
  BY DEF TypeOK, ListsOnlyIfAllowed, AbortsOnlyOnRace
<1> QED
  BY <1>1, <1>2, <1>3, <1>4

\* The process ends: over a changed disk, or a directory that cannot be read.
LEMMA AbortInv ==
  ASSUME IInv, stage \in {"decide", "size"}, stage' = "aborted", changes > 0 \/ disk.io = "denied",
         UNCHANGED <<asked, disk, changes, target, response, file, sent, touched>>
  PROVE  IInv'
<1> USE DEF IInv
<1>1. TypeOK'
  BY DEF TypeOK, Stages
<1>2. NothingYet' /\ FoundIsThere' /\ Head' /\ MadeUp' /\ FromDisk' /\ Ended'
  BY DEF NothingYet, FoundIsThere, Head, MadeUp, FromDisk, Ended
<1>3. ListsOnlyIfAllowed' /\ AbortsOnlyOnRace'
  BY DEF ListsOnlyIfAllowed, AbortsOnlyOnRace
<1> QED
  BY <1>1, <1>2, <1>3

\* Deciding what to answer.
LEMMA DecideInv == IInv /\ Decide => IInv'
<1> SUFFICES ASSUME IInv, Decide PROVE IInv'
  OBVIOUS
<1>0. /\ stage = "decide"
      /\ UNCHANGED <<asked, disk, changes, target, file, sent, touched>>
  BY DEF Decide
<1>1. CASE target = "none"
  <2>1. Text(404)
    BY <1>1 DEF Decide
  <2> QED
    BY <1>0, <2>1, TextInv DEF Statuses
<1>2. CASE target # "none" /\ Node(target) = "dir"
  <2>1. SendDirectoryListing
    BY <1>2 DEF Decide
  <2>2. \/ Text(403)
        \/ asked.listing /\ Text(200)
        \/ disk.io = "denied" /\ stage' = "aborted" /\ UNCHANGED response
    BY <2>1 DEF SendDirectoryListing
  <2>3. CASE Text(403)
    BY <1>0, <2>3, TextInv DEF Statuses
  <2>4. CASE asked.listing /\ Text(200)
    BY <1>0, <2>4, TextInv DEF Statuses
  <2>5. CASE disk.io = "denied" /\ stage' = "aborted" /\ UNCHANGED response
    BY <1>0, <2>5, AbortInv
  <2> QED
    BY <2>2, <2>3, <2>4, <2>5
<1>3. CASE target # "none" /\ Node(target) # "dir"
  <2>1. CASE asked.method \in {"GET", "HEAD"}
    <3>0. response' = [response EXCEPT !.status = 200] /\ stage' = "size"
      BY <1>3, <2>1 DEF Decide
    <3>a. response' \in Responses
      <4>1. response \in Responses /\ 200 \in Statuses
        BY DEF IInv, TypeOK, Statuses
      <4>2. [response EXCEPT !.status = 200] \in Responses
        BY <4>1, WithStatus
      <4> QED
        BY <3>0, <4>2
    <3> USE <1>0, <3>0 DEF IInv
    <3>1. TypeOK'
      BY <3>a DEF TypeOK, Stages
    <3>2. NothingYet' /\ Head' /\ MadeUp' /\ FromDisk' /\ Ended'
      BY <2>1 DEF TypeOK, NothingYet, Head, MadeUp, FromDisk, Ended
    <3>3. FoundIsThere'
      BY <1>3 DEF FoundIsThere, CanServe, Node, TypeOK, Disks, Nodes
    <3>4. ListsOnlyIfAllowed' /\ AbortsOnlyOnRace'
      BY DEF TypeOK, NothingYet, ListsOnlyIfAllowed, AbortsOnlyOnRace
    <3> QED
      BY <3>1, <3>2, <3>3, <3>4
  <2>2. CASE asked.method \notin {"GET", "HEAD"}
    <3>1. Text(405)
      BY <1>3, <2>2 DEF Decide
    <3> QED
      BY <1>0, <3>1, TextInv DEF Statuses
  <2> QED
    BY <2>1, <2>2
<1> QED
  BY <1>1, <1>2, <1>3

\* The status line and headers, of a file whose length is taken.
LEMMA SendStatusInv == IInv /\ SendStatus => IInv'
<1> SUFFICES ASSUME IInv, SendStatus PROVE IInv'
  OBVIOUS
<1>0. /\ stage = "size"
      /\ UNCHANGED <<asked, disk, changes, target, file, sent, touched>>
  BY DEF SendStatus
<1>1. CASE Node(target) = "file"
  <2>0. /\ response' = [response EXCEPT !.length = disk.size, !.head = asked.header]
        /\ stage' = "open"
    BY <1>1 DEF SendStatus
  <2>1. disk.size \in Nat /\ asked.header \in Nat
    BY Fields DEF IInv
  <2>a. response' \in Responses
    <3>1. [response EXCEPT !.length = disk.size, !.head = asked.header] \in Responses
      BY <2>1, WithLength DEF IInv, TypeOK
    <3> QED
      BY <2>0, <3>1
  <2>b. /\ response'.length = disk.size /\ response'.head = asked.header
        /\ response'.made = response.made /\ response'.text = response.text
        /\ response'.headEof = response.headEof /\ response'.textEof = response.textEof
        /\ response'.calls = response.calls /\ response'.status = response.status
    BY <2>0 DEF IInv, TypeOK, Responses
  <2> USE <1>0, <2>0, <2>1 DEF IInv
  <2>2. TypeOK'
    BY <2>a DEF TypeOK, Stages
  <2>3. NothingYet' /\ FoundIsThere'
    BY <2>b DEF NothingYet, FoundIsThere
  <2>4. Head' /\ MadeUp' /\ Ended'
    BY <2>b, Fields DEF NothingYet, Head, MadeUp, Ended
  <2>5. FromDisk'
    <3>1. asked.method \in {"GET", "HEAD"}
      BY DEF NothingYet
    <3>2. Node(target)' = "file"
      BY <1>1 DEF Node
    <3> QED
      BY <2>b, <3>1, <3>2 DEF NothingYet, FromDisk
  <2>6. ListsOnlyIfAllowed' /\ AbortsOnlyOnRace'
    BY <2>b DEF ListsOnlyIfAllowed, AbortsOnlyOnRace
  <2> QED
    BY <2>2, <2>3, <2>4, <2>5, <2>6
<1>2. CASE Node(target) # "file"
  <2>1. stage' = "aborted" /\ UNCHANGED response
    BY <1>2 DEF SendStatus
  <2>2. changes > 0
    BY <1>0, <1>2 DEF IInv, FoundIsThere, TypeOK
  <2> QED
    BY <1>0, <2>1, <2>2, AbortInv
<1> QED
  BY <1>1, <1>2

\* Opening the file.
LEMMA OpenFileInv == IInv /\ OpenFile => IInv'
<1> SUFFICES ASSUME IInv, OpenFile PROVE IInv'
  OBVIOUS
<1> USE DEF IInv, OpenFile
<1>a. file' \in Files
  BY DEF TypeOK, Files
<1>1. TypeOK'
  BY <1>a DEF TypeOK, Stages
<1>2. NothingYet' /\ FoundIsThere'
  BY DEF NothingYet, FoundIsThere
<1>3. Head' /\ MadeUp' /\ Ended'
  BY DEF TypeOK, NothingYet, Head, MadeUp, Ended
<1>4. FromDisk'
  BY DEF TypeOK, NothingYet, FromDisk
<1>5. ListsOnlyIfAllowed' /\ AbortsOnlyOnRace'
  BY DEF ListsOnlyIfAllowed, AbortsOnlyOnRace
<1> QED
  BY <1>1, <1>2, <1>3, <1>4, <1>5

\* A chunk of the header block.
LEMMA FromHeaderInv == IInv /\ HandleWrite /\ FromHeader => IInv'
<1> SUFFICES ASSUME IInv, HandleWrite, FromHeader PROVE IInv'
  OBVIOUS
<1> DEFINE n == Smaller(ChunkSize, response.head)
<1>0. /\ stage = "write" /\ ~response.headEof
      /\ response' = [response EXCEPT !.head = @ - n, !.headEof = response.head < ChunkSize,
                                      !.calls = Counted]
      /\ sent' = [sent EXCEPT !.head = @ + n]
      /\ UNCHANGED <<asked, disk, changes, target, file, touched>>
      /\ stage' = IF Exhausted THEN "done" ELSE "write"
  BY DEF HandleWrite, FromHeader
<1>a. /\ ChunkSize \in Nat /\ response.head \in Nat /\ response \in Responses
      /\ sent.head \in Nat /\ sent.body \in Nat
  BY Fields, ResponseAssumption DEF IInv, TypeOK
<1>1. /\ n \in Nat /\ n <= response.head /\ response.head - n \in Nat
      /\ response.head < ChunkSize => n = response.head
  BY <1>a DEF Smaller
<1>2. Counted \in 0 .. MaxCalls /\ Counted >= 1
  BY CountedIs DEF IInv
<1> HIDE DEF n
<1>b. response' \in Responses
  <2>1. (response.head < ChunkSize) \in BOOLEAN
    BY <1>a
  <2>2. [response EXCEPT !.head = response.head - n, !.headEof = response.head < ChunkSize,
                         !.calls = Counted] \in Responses
    BY <1>a, <1>1, <1>2, <2>1, WithHead
  <2> QED
    BY <1>0, <2>2
<1>c. /\ response'.head = response.head - n /\ response'.headEof = (response.head < ChunkSize)
      /\ response'.calls = Counted /\ response'.length = response.length
      /\ response'.made = response.made /\ response'.text = response.text
      /\ response'.textEof = response.textEof /\ response'.status = response.status
  BY <1>0, <1>a DEF Responses
<1>d. sent'.head = sent.head + n /\ sent'.body = sent.body /\ sent' \in [head : Nat, body : Nat]
  BY <1>0, <1>1, <1>a DEF IInv, TypeOK
<1> USE <1>0, <1>1, <1>2 DEF IInv
<1>3. TypeOK'
  BY <1>b, <1>d DEF TypeOK, Stages
<1>4. ~Exhausted /\ stage' = "write"
  BY <1>c DEF Exhausted, Ended, Head
<1>5. NothingYet' /\ FoundIsThere'
  BY <1>4 DEF NothingYet, FoundIsThere
<1>6. Head'
  <2>1. asked.header \in Nat
    BY Fields
  <2>2. stage = "write" /\ sent.head + response.head = asked.header
    BY DEF Head
  <2>3. sent'.head + response'.head = asked'.header
    BY <2>1, <2>2, <1>a, <1>c, <1>d
  <2>4. ASSUME response'.headEof PROVE response'.head = 0 /\ response'.calls >= 1
    <3>1. response.head < ChunkSize
      BY <1>c, <2>4
    <3>2. n = response.head
      BY <1>1, <3>1
    <3> QED
      BY <1>a, <1>c, <1>2, <3>2
  <2>5. sent'.body = 0 /\ ~response'.textEof /\ ~file'.eof
    BY <1>c, <1>d DEF Head
  <2> QED
    BY <2>3, <2>4, <2>5 DEF Head
<1>7. MadeUp' /\ FromDisk'
  BY <1>4, <1>c, <1>d DEF Head, MadeUp, FromDisk
<1>8. Ended'
  BY <1>4, <1>c DEF Ended
<1>9. ListsOnlyIfAllowed' /\ AbortsOnlyOnRace'
  BY <1>4, <1>c DEF ListsOnlyIfAllowed, AbortsOnlyOnRace
<1> QED
  BY <1>3, <1>5, <1>6, <1>7, <1>8, <1>9

\* A chunk of the file.
LEMMA FromFileInv == IInv /\ HandleWrite /\ FromFile => IInv'
<1> SUFFICES ASSUME IInv, HandleWrite, FromFile PROVE IInv'
  OBVIOUS
<1> DEFINE n == Smaller(ChunkSize, FileLeft)
<1>0. /\ stage = "write" /\ response.headEof /\ file.open /\ ~file.eof
      /\ file' = [file EXCEPT !.pos = @ + n, !.eof = FileLeft < ChunkSize /\ ~file.bad]
      /\ sent' = [sent EXCEPT !.body = @ + n]
      /\ response' = [response EXCEPT !.calls = Counted]
      /\ UNCHANGED <<asked, disk, changes, target, touched>>
      /\ stage' = IF Exhausted THEN "done" ELSE "write"
  BY DEF HandleWrite, FromFile
<1>1. /\ ChunkSize \in Nat /\ disk.size \in Nat /\ file.pos \in Nat /\ file.bad \in BOOLEAN
      /\ sent.head \in Nat /\ sent.body \in Nat
      /\ response \in Responses /\ file \in Files /\ sent \in [head : Nat, body : Nat]
  BY Fields, ResponseAssumption DEF IInv, TypeOK
<1>2. /\ FileLeft \in Nat
      /\ ~file.bad /\ file.pos <= disk.size => FileLeft = disk.size - file.pos
  BY FileLeftIs DEF IInv
<1>3. /\ n \in Nat /\ n <= FileLeft
      /\ FileLeft < ChunkSize => n = FileLeft
  BY <1>1, <1>2 DEF Smaller
<1>4. Counted \in 0 .. MaxCalls /\ Counted >= 2
  BY <1>0, CountedIs DEF IInv, Head
<1> HIDE DEF n
<1>5. response' \in Responses /\ response' = [response EXCEPT !.calls = Counted]
  BY <1>0, <1>1, <1>4, WithCalls
<1>6. /\ response'.head = response.head /\ response'.headEof = response.headEof
      /\ response'.calls = Counted /\ response'.length = response.length
      /\ response'.made = response.made /\ response'.text = response.text
      /\ response'.textEof = response.textEof /\ response'.status = response.status
  BY <1>1, <1>5 DEF Responses
<1>7. /\ file'.open = file.open /\ file'.bad = file.bad /\ file'.pos = file.pos + n
      /\ file'.eof = (FileLeft < ChunkSize /\ ~file.bad)
  BY <1>0, <1>1 DEF Files
<1>8. file' \in Files
  <2>1. (FileLeft < ChunkSize /\ ~file.bad) \in BOOLEAN /\ file.pos + n \in Nat
    BY <1>1, <1>2, <1>3
  <2>2. [file EXCEPT !.pos = file.pos + n, !.eof = FileLeft < ChunkSize /\ ~file.bad] \in Files
    BY <1>1, <2>1, WithPlace
  <2> QED
    BY <1>0, <2>2
<1>9. sent'.head = sent.head /\ sent'.body = sent.body + n /\ sent' \in [head : Nat, body : Nat]
  BY <1>0, <1>1, <1>3
<1>10. stage' \in {"write", "done"}
  BY <1>0
<1>11. TypeOK'
  BY <1>0, <1>5, <1>8, <1>9, <1>10 DEF IInv, TypeOK, Stages
<1>12. NothingYet' /\ FoundIsThere'
  BY <1>10 DEF NothingYet, FoundIsThere
<1>13. Head'
  BY <1>0, <1>4, <1>6, <1>9, <1>10 DEF IInv, Head
<1>14. ~response.made
  BY <1>0 DEF IInv, MadeUp
<1>15. MadeUp'
  BY <1>6, <1>14 DEF MadeUp
<1>16. FromDisk'
  <2>1. /\ asked.method \in {"GET", "HEAD"} /\ response.text = 0 /\ sent.body = file.pos
        /\ ~touched => /\ response.length = disk.size /\ file.pos <= disk.size
                       /\ disk.io = "fine" => asked.method = "GET" /\ ~file.bad
    BY <1>0, <1>14 DEF IInv, FromDisk
  <2>2. file.pos <= disk.size => file.pos + n <= disk.size
    <3>1. CASE file.bad
      <4>1. FileLeft = 0
        BY <3>1 DEF FileLeft
      <4> QED
        BY <4>1, <1>1, <1>3
    <3>2. CASE ~file.bad
      BY <3>2, <1>1, <1>2, <1>3
    <3> QED
      BY <3>1, <3>2
  <2>3. (file.pos <= disk.size /\ ~file.bad /\ file'.eof) => file.pos + n = disk.size
    BY <1>1, <1>2, <1>3, <1>7
  <2>4. sent'.body = file'.pos
    BY <2>1, <1>7, <1>9
  <2> QED
    BY <2>1, <2>2, <2>3, <2>4, <1>0, <1>6, <1>7, <1>10 DEF FromDisk
<1>17. Ended'
  BY <1>0 DEF Ended, Exhausted
<1>18. ListsOnlyIfAllowed' /\ AbortsOnlyOnRace'
  BY <1>0, <1>6, <1>10 DEF IInv, ListsOnlyIfAllowed, AbortsOnlyOnRace
<1> QED
  BY <1>11, <1>12, <1>13, <1>15, <1>16, <1>17, <1>18 DEF IInv

\* A chunk of a body that was made up.
LEMMA FromTextInv == IInv /\ HandleWrite /\ FromText => IInv'
<1> SUFFICES ASSUME IInv, HandleWrite, FromText PROVE IInv'
  OBVIOUS
<1> DEFINE n == Smaller(ChunkSize, response.text)
<1>0. /\ stage = "write" /\ response.headEof /\ ~file.open /\ ~response.textEof
      /\ response' = [response EXCEPT !.text = @ - n, !.textEof = response.text < ChunkSize,
                                      !.calls = Counted]
      /\ sent' = [sent EXCEPT !.body = @ + n]
      /\ UNCHANGED <<asked, disk, changes, target, file, touched>>
      /\ stage' = IF Exhausted THEN "done" ELSE "write"
  BY DEF HandleWrite, FromText
<1>1. /\ ChunkSize \in Nat /\ response.text \in Nat /\ response \in Responses
      /\ sent.head \in Nat /\ sent.body \in Nat /\ asked.text \in Nat
      /\ sent \in [head : Nat, body : Nat]
  BY Fields, ResponseAssumption DEF IInv, TypeOK
<1>2. /\ n \in Nat /\ n <= response.text /\ response.text - n \in Nat
      /\ response.text < ChunkSize => n = response.text
  BY <1>1 DEF Smaller
<1>3. Counted \in 0 .. MaxCalls /\ Counted >= 2
  BY <1>0, CountedIs DEF IInv, Head
<1> HIDE DEF n
<1>4. response' \in Responses
  <2>1. (response.text < ChunkSize) \in BOOLEAN
    BY <1>1
  <2>2. [response EXCEPT !.text = response.text - n, !.textEof = response.text < ChunkSize,
                         !.calls = Counted] \in Responses
    BY <1>1, <1>2, <1>3, <2>1, WithRest
  <2> QED
    BY <1>0, <2>2
<1>5. /\ response'.text = response.text - n /\ response'.textEof = (response.text < ChunkSize)
      /\ response'.calls = Counted /\ response'.length = response.length
      /\ response'.made = response.made /\ response'.head = response.head
      /\ response'.headEof = response.headEof /\ response'.status = response.status
  BY <1>0, <1>1 DEF Responses
<1>6. sent'.head = sent.head /\ sent'.body = sent.body + n /\ sent' \in [head : Nat, body : Nat]
  BY <1>0, <1>1, <1>2
<1>7. stage' \in {"write", "done"}
  BY <1>0
<1>8. TypeOK'
  BY <1>0, <1>4, <1>6, <1>7 DEF IInv, TypeOK, Stages
<1>9. NothingYet' /\ FoundIsThere'
  BY <1>7 DEF NothingYet, FoundIsThere
<1>10. Head'
  BY <1>0, <1>3, <1>5, <1>6, <1>7 DEF IInv, Head
<1>11. MadeUp'
  <2>1. SUFFICES ASSUME response.made PROVE MadeUp'
    BY <1>5 DEF MadeUp
  <2>2. /\ response.length = asked.text /\ sent.body + response.text = asked.text
    BY <1>0, <2>1 DEF IInv, MadeUp
  <2>3. sent'.body + response'.text = asked'.text
    BY <1>0, <1>1, <1>2, <1>5, <1>6, <2>2
  <2>4. ASSUME response'.textEof PROVE response'.text = 0
    <3>1. response.text < ChunkSize
      BY <1>5, <2>4
    <3>2. n = response.text
      BY <1>2, <3>1
    <3> QED
      BY <1>1, <1>5, <3>2
  <2> QED
    BY <1>0, <1>5, <2>2, <2>3, <2>4 DEF MadeUp
<1>12. FromDisk'
  <2>1. SUFFICES ASSUME ~response.made PROVE FromDisk'
    BY <1>5 DEF FromDisk
  <2>2. response.text = 0 /\ n = 0
    BY <1>0, <1>1, <1>2, <2>1 DEF IInv, FromDisk
  <2>3. response'.text = 0 /\ sent'.body = sent.body
    BY <1>1, <1>5, <1>6, <2>2
  <2> QED
    BY <1>0, <1>5, <1>7, <2>1, <2>3 DEF IInv, FromDisk
<1>13. Ended'
  BY <1>0 DEF Ended, Exhausted
<1>14. ListsOnlyIfAllowed' /\ AbortsOnlyOnRace'
  BY <1>0, <1>5, <1>7 DEF IInv, ListsOnlyIfAllowed, AbortsOnlyOnRace
<1> QED
  BY <1>8, <1>9, <1>10, <1>11, <1>12, <1>13, <1>14 DEF IInv

\* Somebody changes the disk.
LEMMA ChangeDiskInv == IInv /\ ChangeDisk => IInv'
<1> SUFFICES ASSUME IInv, ChangeDisk PROVE IInv'
  OBVIOUS
<1>0. /\ changes < MaxChanges /\ changes' = changes + 1
      /\ touched' = (touched \/ stage \in {"open", "write"})
      /\ stage \notin {"done", "aborted"}
      /\ UNCHANGED <<asked, stage, target, response, file, sent>>
  BY DEF ChangeDisk
<1>1. disk' \in Disks
  <2>0. disk \in Disks
    BY DEF IInv, TypeOK
  <2>1. CASE \E size \in FileSizes : disk' = [disk EXCEPT !.size = size]
    BY <2>0, <2>1 DEF Disks
  <2>2. CASE \E node \in Nodes : disk' = [disk EXCEPT !.path = node]
    BY <2>0, <2>2 DEF Disks
  <2>3. CASE \E node \in Nodes : disk' = [disk EXCEPT !.index = node]
    BY <2>0, <2>3 DEF Disks
  <2>4. CASE \E io \in Readings : disk' = [disk EXCEPT !.io = io]
    BY <2>0, <2>4 DEF Disks
  <2> QED
    BY <2>1, <2>2, <2>3, <2>4 DEF ChangeDisk
<1>2. changes \in Nat /\ changes' \in 0 .. MaxChanges /\ changes' > 0
  <2>1. changes \in Nat
    BY Fields DEF IInv
  <2> QED
    BY <1>0, <2>1, ResponseAssumption
<1>3. touched' \in BOOLEAN
  BY <1>0 DEF IInv, TypeOK
<1>4. TypeOK'
  BY <1>0, <1>1, <1>2, <1>3 DEF IInv, TypeOK
<1>5. NothingYet' /\ Head' /\ MadeUp' /\ Ended'
  BY <1>0 DEF IInv, NothingYet, Head, MadeUp, Ended
<1>6. FoundIsThere'
  BY <1>2 DEF FoundIsThere
<1>7. FromDisk'
  BY <1>0 DEF IInv, FromDisk
<1>8. ListsOnlyIfAllowed' /\ AbortsOnlyOnRace'
  BY <1>0 DEF IInv, ListsOnlyIfAllowed, AbortsOnlyOnRace
<1> QED
  BY <1>4, <1>5, <1>6, <1>7, <1>8 DEF IInv

LEMMA NextInv == IInv /\ [Next]_vars => IInv'
<1> SUFFICES ASSUME IInv, [Next]_vars PROVE IInv'
  OBVIOUS
<1>1. CASE Locate
  BY <1>1, LocateInv
<1>2. CASE Decide
  BY <1>2, DecideInv
<1>3. CASE SendStatus
  BY <1>3, SendStatusInv
<1>4. CASE OpenFile
  BY <1>4, OpenFileInv
<1>5. CASE HandleWrite
  <2>1. FromHeader \/ FromFile \/ FromText
    BY <1>5 DEF HandleWrite
  <2> QED
    BY <1>5, <2>1, FromHeaderInv, FromFileInv, FromTextInv
<1>6. CASE ChangeDisk
  BY <1>6, ChangeDiskInv
<1>7. CASE UNCHANGED vars
  BY <1>7 DEF vars, IInv, TypeOK, NothingYet, FoundIsThere, Head, MadeUp, FromDisk, Ended,
      ListsOnlyIfAllowed, AbortsOnlyOnRace, CanServe, Node
<1> QED
  BY <1>1, <1>2, <1>3, <1>4, <1>5, <1>6, <1>7 DEF Next, Step

----------------------------------------------------------------------------
(* The theorems.                                                           *)

\* The inductive invariant holds of every reachable state.
THEOREM Invariance == Spec => []IInv
<1> QED
  BY InitInv, NextInv, PTL DEF Spec

\* Every variable keeps its type; no count of bytes becomes negative.
THEOREM TypeCorrect == Spec => []TypeOK
<1>1. IInv => TypeOK
  BY DEF IInv
<1> QED
  BY <1>1, Invariance, PTL

\* Whenever handleWrite can be called exactly one stream has something to read:
\* it never sends from a buffer that it has not filled.
THEOREM ReadsASource == Spec => []SourceLeft
<1>1. IInv => SourceLeft
  BY DEF IInv, Ended, SourceLeft
<1> QED
  BY <1>1, Invariance, PTL

\* The header block is sent before the body, for every chunk size.
THEOREM HeaderGoesFirst == Spec => []HeaderFirst
<1>1. IInv => HeaderFirst
  <2> SUFFICES ASSUME IInv, sent.body > 0 PROVE sent.head = asked.header
    BY DEF HeaderFirst
  <2>1. TypeOK /\ NothingYet /\ Head
    BY DEF IInv
  <2>2. /\ sent.body # 0 /\ sent.head \in Nat /\ response.head \in Nat
        /\ asked.header \in Nat
    BY <2>1, Fields
  <2>3. stage \in {"write", "done"}
    BY <2>1, <2>2 DEF NothingYet, TypeOK, Stages
  <2>4. response.headEof
    BY <2>1, <2>2, <2>3 DEF Head
  <2>5. response.head = 0 /\ sent.head + response.head = asked.header
    BY <2>1, <2>3, <2>4 DEF Head
  <2> QED
    BY <2>2, <2>5
<1> QED
  BY <1>1, Invariance, PTL

\* What was announced is what was sent, for every size of chunk, header block
\* and body, while the file is left alone.
THEOREM SendsWhatItAnnounced == Spec => []AnnouncedIsSent
<1>1. IInv => AnnouncedIsSent
  <2> SUFFICES ASSUME IInv, stage = "done", ~touched, disk.io = "fine"
               PROVE  /\ sent.head = asked.header
                      /\ sent.body = IF response.made \/ asked.method = "GET"
                                     THEN response.length ELSE 0
    BY DEF AnnouncedIsSent
  <2>0. TypeOK /\ Head /\ MadeUp /\ FromDisk /\ Ended
    BY DEF IInv
  <2>1. /\ sent.head \in Nat /\ response.head \in Nat /\ asked.header \in Nat
        /\ sent.body \in Nat /\ response.text \in Nat /\ asked.text \in Nat
    BY <2>0, Fields
  <2>2. response.headEof
    BY <2>0 DEF Ended, Head
  <2>3. response.head = 0 /\ sent.head + response.head = asked.header
    BY <2>0, <2>2 DEF Head
  <2>4. sent.head = asked.header
    BY <2>1, <2>3
  <2>5. CASE response.made
    <3>1. /\ ~file.open /\ response.length = asked.text
          /\ sent.body + response.text = asked.text
      BY <2>0, <2>5 DEF MadeUp
    <3>2. response.text = 0
      BY <2>0, <2>5, <3>1 DEF MadeUp, Ended
    <3> QED
      BY <2>1, <2>4, <2>5, <3>1, <3>2
  <2>6. CASE ~response.made
    <3>1. /\ sent.body = file.pos /\ response.length = disk.size
          /\ ~file.open => file.pos = 0
          /\ file.open <=> asked.method = "GET"
          /\ file.eof => file.pos = disk.size
      BY <2>0, <2>6 DEF FromDisk
    <3>2. CASE file.open
      BY <2>0, <2>4, <2>6, <3>1, <3>2 DEF Ended
    <3>3. CASE ~file.open
      BY <2>4, <2>6, <3>1, <3>3
    <3> QED
      BY <3>2, <3>3
  <2> QED
    BY <2>5, <2>6
<1> QED
  BY <1>1, Invariance, PTL

\* No response is complete after a single handleWrite.
THEOREM TakesTwoWrites == Spec => []TwoWrites
<1>1. IInv => TwoWrites
  BY DEF IInv, Ended, Head, TwoWrites
<1> QED
  BY <1>1, Invariance, PTL

\* No directory is listed where listing is not allowed.
THEOREM ListingIsAllowed == Spec => []ListsOnlyIfAllowed
<1>1. IInv => ListsOnlyIfAllowed
  BY DEF IInv
<1> QED
  BY <1>1, Invariance, PTL

\* The process ends over a request only when the disk changed under it or a
\* directory cannot be read.
THEOREM AbortsForCause == Spec => []AbortsOnlyOnRace
<1>1. IInv => AbortsOnlyOnRace
  BY DEF IInv
<1> QED
  BY <1>1, Invariance, PTL
=============================================================================
