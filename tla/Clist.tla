------------------------------- MODULE Clist -------------------------------
(***************************************************************************)
(* The circular singly linked list of core/lib/include/clist.h.  The head  *)
(* points at the LAST node and the last node points back at the first, so  *)
(* a list is a record of that head pointer and of the next pointer of      *)
(* every node, those of the nodes outside the list (stale) included.       *)
(***************************************************************************)
EXTENDS Naturals, Sequences, FiniteSets

CONSTANTS Nodes,    \* the list entries of the program
          NULL      \* the null pointer

NodesAssumption == IsFiniteSet(Nodes) /\ NULL \notin Nodes

Pointer == Nodes \cup {NULL}
List == [tail : Pointer, link : [Nodes -> Pointer]]

EmptyList == [tail |-> NULL, link |-> [n \in Nodes |-> NULL]]

\* The i-th node met when walking from the first node, and the places walked.
Walk(l) ==
  LET at[i \in 1..Cardinality(Nodes)] ==
        IF i = 1 THEN l.link[l.tail] ELSE l.link[at[i - 1]]
  IN  at
Places == 1..Cardinality(Nodes)

Members(l) ==
  IF l.tail = NULL THEN {} ELSE {n \in Nodes : \E i \in Places : Walk(l)[i] = n}

\* The list as a sequence, first node first.
AsSeq(l) ==
  IF l.tail = NULL THEN <<>>
  ELSE LET last == CHOOSE i \in Places :
                     Walk(l)[i] = l.tail /\ \A j \in 1..(i-1) : Walk(l)[j] # l.tail
       IN  [i \in 1..last |-> Walk(l)[i]]

clist_rpush(l, n) ==
  IF l.tail = NULL
  THEN [tail |-> n, link |-> [l.link EXCEPT ![n] = n]]
  ELSE [tail |-> n,
        link |-> [l.link EXCEPT ![n] = l.link[l.tail], ![l.tail] = n]]

clist_lpush(l, n) ==
  IF l.tail = NULL THEN clist_rpush(l, n)
  ELSE [l EXCEPT !.link = clist_rpush(l, n).link]

clist_lpop(l) ==
  CASE l.tail = NULL -> l
    [] l.tail # NULL /\ l.link[l.tail] = l.tail -> [l EXCEPT !.tail = NULL]
    [] OTHER -> [l EXCEPT !.link[l.tail] = l.link[l.link[l.tail]]]

clist_lpoprpush(l) == IF l.tail = NULL THEN l ELSE [l EXCEPT !.tail = l.link[l.tail]]

\* A plausible mistake: removing the last node leaves the head pointing at it.
RemoveKeepsTail(l, n) ==
  LET before == {p \in Members(l) : l.link[p] = n} IN
  IF before = {} THEN l
  ELSE [l EXCEPT !.link = [@ EXCEPT ![CHOOSE p \in before : TRUE] = l.link[n]]]

\* The member whose successor is n; a list visits n at most once, so the first
\* one met in walking order is the only one.
clist_find_before(l, n) ==
  LET before == {p \in Members(l) : l.link[p] = n}
  IN  IF before = {} THEN NULL ELSE CHOOSE p \in before : TRUE

\* The list is rotated until its head is the last node's predecessor.
clist_rpop(l) ==
  IF l.tail = NULL THEN l
  ELSE clist_lpop([l EXCEPT !.tail = clist_find_before(l, l.tail)])

clist_find(l, n) == LET before == clist_find_before(l, n)
              IN  IF before = NULL THEN NULL ELSE l.link[before]

clist_remove(l, n) ==
  LET before == clist_find_before(l, n) IN
  CASE l.tail = NULL -> l
    [] l.tail # NULL /\ l.link[l.tail] = n -> clist_lpop(l)
    [] l.tail # NULL /\ l.link[l.tail] # n /\ before = NULL -> l
    [] OTHER -> [tail |-> IF n = l.tail THEN before ELSE l.tail,
                 link |-> [l.link EXCEPT ![before] = l.link[n]]]

\* clist_count: the loop ends when it is back at the last node.
clist_count(l) == Len(AsSeq(l))
=============================================================================
