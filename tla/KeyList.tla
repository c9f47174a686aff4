------------------------------- MODULE KeyList -------------------------------
(***************************************************************************)
(* The doubly linked key/value list of app/sys/key_list.c, at the level of *)
(* its links, and the ownership of the values it stores: the list calls    *)
(* its releaser on the values it drops.                                    *)
(*                                                                         *)
(* The module is sequential: every function is one action.  A call that    *)
(* returns -1 changes nothing and is not an action.                        *)
(***************************************************************************)
EXTENDS Naturals, FiniteSets

CONSTANTS
    Keys,      \* key_t
    Values,    \* the objects a value_t points to
    Cells,     \* addresses that calloc returns
    NULL

ASSUME NullAssumption == NULL \notin Cells /\ IsFiniteSet(Cells)

VARIABLES
    list,      \* the key_list_t, or its absence
    heap,      \* the key_list_node_t at each allocated address
    owner      \* who has to free each value: the "app" or the "list"; "freed" when
               \* it was, and "dropped" when nobody refers to it any more

vars == <<list, heap, owner>>

Node == [key : Keys, value : Values, prev : Cells \cup {NULL}, next : Cells \cup {NULL}]

\* The records are those of key_list.h; a count never falls below zero, and no link
\* leaves the allocator's memory.
TypeOK ==
    /\ list \in [live : BOOLEAN, count : Nat, header : Cells \cup {NULL}]
    /\ DOMAIN heap \subseteq Cells /\ heap \in [DOMAIN heap -> Node]
    /\ owner \in [Values -> {"app", "list", "freed", "dropped"}]

NoList == [live |-> FALSE, count |-> 0, header |-> NULL]

Init ==
    /\ list = NoList
    /\ heap = << >>
    /\ owner = [v \in Values |-> "app"]

-----------------------------------------------------------------------------
(* Walking the list *)

\* The node at position i, counted from the header at 0: NULL past the end.
NodeAt[i \in Nat] ==
    IF i = 0 THEN list.header
    ELSE IF NodeAt[i - 1] \in DOMAIN heap THEN heap[NodeAt[i - 1]].next ELSE NULL

\* The nodes a walk from the header meets; no walk over distinct cells is longer
\* than there are cells.
Reached == {NodeAt[i] : i \in 0..Cardinality(Cells)} \ {NULL}

\* key_list_get_node: the first node with this key, NULL when there is none.
GetNode(k) ==
    LET found == {i \in 0..Cardinality(Cells) :
                    NodeAt[i] \in DOMAIN heap /\ heap[NodeAt[i]].key = k}
    IN  IF found = {} THEN NULL
        ELSE NodeAt[CHOOSE i \in found : \A j \in found : i <= j]

FindKey(k) == GetNode(k) # NULL

\* The caller brings a value of its own; a freed one may have been allocated anew.
Fresh(v) == owner[v] \in {"app", "freed"}

-----------------------------------------------------------------------------
(* Operations *)

\* key_list_create
Create ==
    /\ ~list.live
    /\ list' = [live |-> TRUE, count |-> 0, header |-> NULL]
    /\ UNCHANGED <<heap, owner>>

\* Mutant: the old header keeps its prev link.
LinkNoPrev(c, k, v) ==
    [x \in DOMAIN heap \cup {c} |->
        IF x = c THEN [key |-> k, value |-> v, prev |-> NULL, next |-> list.header]
        ELSE heap[x]]

\* The heap once a node at c has been put before the header.
Link(c, k, v) ==
    [x \in DOMAIN heap \cup {c} |->
        IF x = c THEN [key |-> k, value |-> v, prev |-> NULL, next |-> list.header]
        ELSE IF x = list.header THEN [heap[x] EXCEPT !.prev = c]
        ELSE heap[x]]

\* Mutants: the new node is not counted; a key that is there is added again.
AddNoCount(k, v) ==
    /\ list.live /\ Fresh(v)
    /\ ~FindKey(k)
    /\ \E c \in Cells \ DOMAIN heap :
        /\ heap' = Link(c, k, v)
        /\ list' = [list EXCEPT !.header = c]
    /\ owner' = [owner EXCEPT ![v] = "list"]
AddNoCheck(k, v) ==
    /\ list.live /\ Fresh(v)
    /\ \E c \in Cells \ DOMAIN heap :
        /\ heap' = Link(c, k, v)
        /\ list' = [list EXCEPT !.header = c, !.count = @ + 1]
    /\ owner' = [owner EXCEPT ![v] = "list"]

\* key_list_add
Add(k, v) ==
    /\ list.live /\ Fresh(v)
    /\ ~FindKey(k)
    /\ \E c \in Cells \ DOMAIN heap :
        /\ heap' = Link(c, k, v)
        /\ list' = [list EXCEPT !.header = c, !.count = @ + 1]
    /\ owner' = [owner EXCEPT ![v] = "list"]

\* key_list_edit: the value that was there is not released.
Edit(k, v) ==
    LET c == GetNode(k) IN
    /\ list.live /\ Fresh(v)
    /\ c # NULL
    /\ heap' = [heap EXCEPT ![c].value = v]
    /\ owner' = [owner EXCEPT ![heap[c].value] = "dropped", ![v] = "list"]
    /\ UNCHANGED list

\* Mutant: the node is not freed.
UnlinkNoFree(c) ==
    [x \in DOMAIN heap |->
        IF x = heap[c].prev THEN [heap[x] EXCEPT !.next = heap[c].next]
        ELSE IF x = heap[c].next THEN [heap[x] EXCEPT !.prev = heap[c].prev]
        ELSE heap[x]]

\* key_list_remove_node: the heap once the node at c is unlinked and freed.
Unlink(c) ==
    [x \in DOMAIN heap \ {c} |->
        IF x = heap[c].prev THEN [heap[x] EXCEPT !.next = heap[c].next]
        ELSE IF x = heap[c].next THEN [heap[x] EXCEPT !.prev = heap[c].prev]
        ELSE heap[x]]

\* key_list_delete
Delete(k) ==
    LET c == GetNode(k) IN
    /\ list.live
    /\ c # NULL
    /\ heap' = Unlink(c)
    /\ list' = [list EXCEPT !.header = IF c = @ THEN heap[c].next ELSE @,
                            !.count = @ - 1]
    /\ owner' = [owner EXCEPT ![heap[c].value] = "freed"]

\* key_list_destroy: every node that the walk meets is released and freed.
Destroy ==
    /\ list.live
    /\ heap' = [c \in DOMAIN heap \ Reached |-> heap[c]]
    /\ owner' = [v \in Values |->
                    IF \E c \in Reached : heap[c].value = v THEN "freed" ELSE owner[v]]
    /\ list' = NoList

Next ==
    \/ Create \/ Destroy
    \/ \E k \in Keys, v \in Values : Add(k, v) \/ Edit(k, v)
    \/ \E k \in Keys : Delete(k)

Spec == Init /\ [][Next]_vars

-----------------------------------------------------------------------------
(* Properties *)

\* The links are those of one list: a walk from the header meets every node that
\* is allocated, after exactly count steps it is at the end (key_list_keyset
\* fills an array whose size it has compared with count only), and each node's
\* prev is the node that leads to it.
WellLinked ==
    /\ Reached = DOMAIN heap
    /\ Cardinality(DOMAIN heap) = list.count
    /\ NodeAt[list.count] = NULL
    /\ \A c \in DOMAIN heap :
        /\ heap[c].prev = NULL <=> c = list.header
        /\ heap[c].next # NULL =>
            heap[c].next \in DOMAIN heap /\ heap[heap[c].next].prev = c

\* A value the list has to release is in exactly one node, and no node refers to
\* a value that was released already or that the list does not own: no value is
\* freed twice or used after it was freed (key_list_remove_node,
\* key_list_destroy).
ValuesOwned ==
    /\ \A v \in Values : owner[v] = "list" => \E c \in DOMAIN heap : heap[c].value = v
    /\ \A c \in DOMAIN heap : owner[heap[c].value] = "list"
    /\ \A c, d \in DOMAIN heap : heap[c].value = heap[d].value => c = d

\* The table the list stands for: what key_list_get returns for each key.
MapOf ==
    [k \in {heap[c].key : c \in Reached} |-> heap[GetNode(k)].value]

Table == INSTANCE KeyMap WITH map <- MapOf, count <- list.count

\* The list implements the table: whatever sequence of calls was made, what
\* key_list_get and key_list_count return changes as the table says, so a key that
\* was refused, edited or deleted leaves every other one as it was.
ImplementsTable == Table!Spec
=============================================================================
