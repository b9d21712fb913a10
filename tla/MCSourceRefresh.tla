--------------------------- MODULE MCSourceRefresh ---------------------------
(* Small instances of SourceRefresh: contents of at most two nodes in      *)
(* which names and connections are kept, renamed, swapped and replaced.    *)
EXTENDS SourceRefresh, TLC

CONSTANTS a, b, x, y

Node(name, key) == [name |-> name, key |-> key]
OneNode == {<<>>, <<Node(a, x)>>, <<Node(a, y)>>}
Renames == {<<Node(a, x)>>, <<Node(b, x), Node(a, y)>>, <<Node(a, y), Node(b, x)>>,
            <<Node(b, y), Node(b, x)>>}
Constant == {<<Node(a, x)>>}
Mixed == {<<>>, <<Node(a, x)>>, <<Node(b, x), Node(a, y)>>}
Served == OneNode \cup Renames
=============================================================================
