------------------------- MODULE MCDirectoryListing -------------------------
(* Instances of DirectoryListing for TLC.                                  *)
EXTENDS DirectoryListing

\* Bytes of each kind escape and unescape tell apart: a hexadecimal digit in
\* capitals, a letter that is none, bytes that stay, bytes with a meaning in
\* a URI, and one above 127.
Interesting == {66, 120, Space, Quote, Hash, Percent, Plus, Dot, Question, 239}

IndexHtml == <<105>>

Odd == {<<a>> : a \in Interesting \ {Dot}} \cup {<<a, b>> : a \in {Percent, Plus, 120}, b \in Interesting}
       \cup {<<Percent, 50, 66>>}

TreeOf(dirs, names) ==
  [n \in dirs \cup {Append(d, name) : d \in dirs, name \in names} |->
     IF n \in dirs THEN "dir" ELSE "file"]

\* One of every odd name below directories of both kinds, a few below deeper
\* ones, one directory whose name reads as a slash, and one with an index.
MixedTree ==
  TreeOf({<<<<120>>, <<120, Space>>>>, <<<<Dot, 239>>>>, <<<<Plus>>, <<Hash>>>>},
         {<<Percent, Space>>, <<Plus, 239>>})
  @@ TreeOf({<<<<Percent, 50, 70>>>>}, {<<120>>})
  @@ TreeOf({<<>>, <<<<120>>>>, <<<<Plus>>>>}, Odd)
  @@ (<<<<105, 120>>>> :> "dir") @@ (<<<<105, 120>>, IndexHtml>> :> "file")

\* Directories with odd names only.
OddTree == TreeOf({<<>>} \cup {<<name>> : name \in Odd}, {<<120, 120>>})
============================================================================
