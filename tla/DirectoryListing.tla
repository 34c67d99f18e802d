-------------------------- MODULE DirectoryListing --------------------------
(***************************************************************************)
(* What DirectorySender makes of a request's URI, and the links of the     *)
(* listings it answers with: a client asks for what it knows or follows a  *)
(* link of the listing it sees, over and over.  The disk is a tree of      *)
(* names, strings of bytes; it does not change (ResponseSender has one     *)
(* that does, and the other methods).                                      *)
(***************************************************************************)
EXTENDS UriCoding

CONSTANTS
  Tree,       \* [nodes -> {"file", "dir"}]; a node is the sequence of names to it
  IndexFile   \* m_indexFile

Names == Seq(Bytes \ {NUL, Slash}) \ {<<>>, <<Dot>>, <<Dot, Dot>>}

ASSUME ListingAssumption ==
  /\ <<>> \in DOMAIN Tree
  /\ \A n \in DOMAIN Tree :
       /\ n \in Seq(Names) /\ Tree[n] \in {"file", "dir"}
       /\ n # <<>> => Front(n) \in DOMAIN Tree /\ Tree[Front(n)] = "dir"

VARIABLES
  meant,   \* the node the client wants to see
  from,    \* the directories in whose listings it followed links since it last typed
  uri,     \* REQUEST_URI, and PATH_INFO, of its request; empty when the
           \* request went to another server
  answer   \* [what, node, links]: pending, none, file or listing

vars == <<meant, from, uri, answer>>

Pending == [what |-> "pending", node |-> <<>>, links |-> {}]

Children(n) == {m \in DOMAIN Tree : m # <<>> /\ Front(m) = n}

----------------------------------------------------------------------------
(* Paths, as boost::filesystem and clients take them apart.                *)

Cut(segments, c) ==
  IF c = Slash THEN Append(segments, <<>>)
  ELSE Append(Front(segments), Append(Last(segments), c))

Segments(s) ==
  LET after[i \in 0 .. Len(s)] == IF i = 0 THEN << <<>> >> ELSE Cut(after[i - 1], s[i])
  IN after[Len(s)]

\* path::normalize: what leads above the base directory is no node of the tree.
Enter(path, name) ==
  IF name \in {<<>>, <<Dot>>} THEN path
  ELSE IF name = <<Dot, Dot>> /\ path # <<>> /\ Last(path) # <<Dot, Dot>> THEN Front(path)
  ELSE Append(path, name)

Normalized(segments) ==
  LET after[i \in 0 .. Len(segments)] ==
        IF i = 0 THEN <<>> ELSE Enter(after[i - 1], segments[i])
  IN after[Len(segments)]

JoinedPath(segments) == FlattenSeq([i \in DOMAIN segments |-> <<Slash>> \o segments[i]])

----------------------------------------------------------------------------
(* The server.                                                             *)

RequestPath(pathInfo) == Normalized(Segments(unescape(pathInfo)))

\* canServe, where listing is allowed (it is by default).
canServe(pathInfo) ==
  LET path  == RequestPath(pathInfo)
      index == Append(path, IndexFile)
  IN IF path \notin DOMAIN Tree THEN {}
     ELSE IF Tree[path] = "dir" /\ index \in DOMAIN Tree THEN {index} ELSE {path}

CleanBaseAsItIs(base) == unescape(base)   \* a mutant: the slash at the end stays

\* "We take away any slash at the end, so that the links work."
CleanBase(base) ==
  LET s == unescape(base) IN
  IF s # <<>> /\ Last(s) = Slash THEN Front(s) ELSE s

\* The links of a listing: to each entry, and to the parent.
Links(base, directory) ==
  {[to |-> child, href |-> CleanBase(base) \o <<Slash>> \o escape(Last(child))] :
     child \in Children(directory)}
  \cup {[to |-> IF directory = <<>> THEN <<>> ELSE Front(directory),
         href |-> CleanBase(base) \o <<Slash, Dot, Dot>>]}

\* process, for GET.
Answer(pathInfo) ==
  IF canServe(pathInfo) = {} THEN [what |-> "none", node |-> <<>>, links |-> {}]
  ELSE LET node == CHOOSE n \in canServe(pathInfo) : TRUE IN
       IF Tree[node] = "file" THEN [what |-> "file", node |-> node, links |-> {}]
       ELSE [what |-> "listing", node |-> node, links |-> Links(pathInfo, node)]

Process ==
  /\ answer = Pending /\ uri # <<>>
  /\ answer' = Answer(uri)
  /\ UNCHANGED <<meant, from, uri>>

----------------------------------------------------------------------------
(* The client.                                                             *)

\* A name as clients write it: everything that may have a meaning of its own
\* is percent-encoded, with capital or with small letters.
Small(c) == IF c \in 65 .. 70 THEN c + 32 ELSE c

WrittenByte(c, small) ==
  IF c \in Alnum THEN <<c>>
  ELSE LET e == PercentEncoded(c)
       IN IF small THEN <<e[1], Small(e[2]), Small(e[3])>> ELSE e

Written(name, small) == FlattenSeq([i \in DOMAIN name |-> WrittenByte(name[i], small)])

Type ==
  /\ answer # Pending
  /\ \E n \in DOMAIN Tree, small \in BOOLEAN, end \in {<<>>, <<Slash>>} :
       /\ n = <<>> => end # <<>>
       /\ end # <<>> => Tree[n] = "dir"
       /\ uri' = JoinedPath([i \in DOMAIN n |-> Written(n[i], small)]) \o end
       /\ meant' = n
  /\ from' = {}
  /\ answer' = Pending

\* What a browser asks for when it follows a link: its text ends at a quote,
\* nothing is sent of it from a "#" on, "//" starts the name of another server,
\* ".." is resolved in the path but not in a query, and the bytes a URI never
\* has are percent-encoded.
UpTo(s, c) == LET at == SelectInSeq(s, LAMBDA x : x = c)
              IN IF at = 0 THEN s ELSE SubSeq(s, 1, at - 1)

Resolve(path, name) ==
  IF name # <<Dot, Dot>> THEN Append(path, name)
  ELSE IF path = <<>> THEN path ELSE Front(path)

Resolved(names) ==
  LET kept[i \in 0 .. Len(names)] == IF i = 0 THEN <<>> ELSE Resolve(kept[i - 1], names[i])
  IN kept[Len(names)]

DotsResolved(path) ==
  LET names == Tail(Segments(path))
  IN JoinedPath(Resolved(names)) \o (IF Last(names) = <<Dot, Dot>> THEN <<Slash>> ELSE <<>>)

Sent(c) == IF c = Space \/ c > 127 THEN PercentEncoded(c) ELSE <<c>>

\* The link is taken as it stands in the page: character references of HTML
\* and what browsers make of backslashes are left out.
Followed(href) ==
  LET sent  == UpTo(UpTo(href, Quote), Hash)
      path  == UpTo(sent, Question)
      query == SubSeq(sent, Len(path) + 1, Len(sent))
      plain == DotsResolved(path) \o query
  IN IF Len(path) >= 2 /\ path[2] = Slash THEN <<>>
     ELSE FlattenSeq([i \in DOMAIN plain |-> Sent(plain[i])])

Follow ==
  /\ answer.what = "listing"
  /\ \E link \in answer.links :
       /\ uri' = Followed(link.href)
       /\ meant' = link.to
  /\ from' = from \cup {answer.node}
  /\ answer' = Pending

----------------------------------------------------------------------------
Init ==
  /\ meant = <<>>
  /\ from = {}
  /\ uri = <<Slash>>
  /\ answer = Pending

Next == Type \/ Follow \/ Process

Spec == Init /\ [][Next]_vars

----------------------------------------------------------------------------
(* Properties.                                                             *)

\* What a client that means node n is shown: a directory's index stands for it.
Shown(n) ==
  IF Tree[n] = "dir" /\ Append(n, IndexFile) \in DOMAIN Tree THEN Append(n, IndexFile) ELSE n

Answered == uri = <<>> \/ answer # Pending
Found == uri # <<>> /\ answer.what # "none" /\ answer.node = Shown(meant)

\* Names that read the same when they are taken for a part of a URI.
Plain(names) == \A i \in DOMAIN names : ToSet(names[i]) \cap {Quote, Hash, Percent, Plus} = {}

\* No directory's name has a "?", and no index is itself a directory.
OrdinaryTree ==
  \A n \in DOMAIN Tree : Tree[n] = "dir" =>
    /\ \A i \in DOMAIN n : Question \notin ToSet(n[i])
    /\ n = <<>> \/ Last(n) # IndexFile

\* A client is shown what it means, whatever bytes the names on its way have
\* and however it writes them; and after any number of links every link of a
\* listing leads to what it names, whatever bytes that name has, for clients
\* that resolve a link as Followed does, as long as the names of
\* the directories it came through, and of those above them, are plain and the
\* tree is ordinary.  (That the last of them is plain is not enough: a name
\* that reads as an encoded slash spoils the base of all listings to come.)
ShowsWhatIsMeant ==
  (Answered /\ \A d \in from : OrdinaryTree /\ Plain(d)) => Found

\* "The directory of the URI, so that the files can be linked correctly"
\* (DirectorySender.h:57-58): following a link shows what it names.
LinksWork == (Answered /\ from # {}) => Found
============================================================================
