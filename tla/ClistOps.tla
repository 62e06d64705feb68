------------------------------ MODULE ClistOps ------------------------------
(***************************************************************************)
(* Every sequence of clist.h calls, run beside the list it stands for: the *)
(* variable items is the sequence a caller believes the list to hold.      *)
(***************************************************************************)
EXTENDS Clist, SequencesExt

VARIABLES list,     \* the pointers
          items     \* the sequence of nodes the calls so far should have left
vars == <<list, items>>

Init == list = EmptyList /\ items = <<>>

Absent == Nodes \ ToSet(items)

PushRight(n) == list' = clist_rpush(list, n) /\ items' = Append(items, n)
PushLeft(n) == list' = clist_lpush(list, n) /\ items' = <<n>> \o items
PopLeft == list' = clist_lpop(list) /\ items' = IF items = <<>> THEN <<>> ELSE Tail(items)
PopRight == list' = clist_rpop(list) /\ items' = IF items = <<>> THEN <<>> ELSE Front(items)
Rotate == /\ list' = clist_lpoprpush(list)
          /\ items' = IF items = <<>> THEN <<>> ELSE Append(Tail(items), Head(items))
Drop(n) == /\ list' = clist_remove(list, n)
           /\ items' = IF n \in Absent THEN items
                       ELSE RemoveAt(items, CHOOSE i \in DOMAIN items : items[i] = n)

Next == \/ \E n \in Absent : PushRight(n) \/ PushLeft(n)
        \/ PopLeft \/ PopRight \/ Rotate
        \/ \E n \in Nodes : Drop(n)

Spec == Init /\ [][Next]_vars
-----------------------------------------------------------------------------
\* clist.h:31-76 describes the structure: whatever calls were made, in any
\* order, walking the pointers visits exactly the nodes that were pushed and
\* not removed, in their order, although removed nodes keep stale pointers.
Represents == AsSeq(list) = items

\* clist_find and clist_count agree with the sequence: a node is found exactly
\* when it is in the list, and a stale pointer never makes an absent node found.
FindsMembers == /\ \A n \in Nodes : clist_find(list, n) = IF n \in Absent THEN NULL ELSE n
                /\ clist_count(list) = Len(items)

\* The list is right whatever calls were made.
ListRight == Represents /\ FindsMembers
=============================================================================
