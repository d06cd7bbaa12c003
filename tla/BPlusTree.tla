----------------------------- MODULE BPlusTree ------------------------------
(***************************************************************************)
(* cpp/bplus_tree.h: the B+-tree the learned index is compared with.  An   *)
(* insert goes down to a leaf; a leaf with too many keys is split, and the *)
(* split goes up level by level, one step each.  A node is its number.     *)
(*                                                                         *)
(* expected is auxiliary: what was inserted.                               *)
(***************************************************************************)
EXTENDS Integers, Sequences, FiniteSets, SequencesExt

CONSTANTS
    Key, Val, NoVal,
    ORDER       \* the most keys a node keeps

ASSUME TreeAssumption == Key \subseteq Int /\ NoVal \notin Val /\ ORDER \in Nat /\ ORDER >= 2

VARIABLES
    nodes,      \* the nodes: their keys, children, values and next leaf
    root,       \* root_
    count,      \* count_
    path,       \* the ancestors a split has still to be told to, from the root down
    split,      \* the separator and the new node to tell them of
    expected

vars == <<nodes, root, count, path, split, expected>>

NoNode == 0

Leaf(keys, values, next) ==
    [is_leaf |-> TRUE, keys |-> keys, children |-> <<>>, values |-> values, next |-> next]
Internal(keys, children) ==
    [is_leaf |-> FALSE, keys |-> keys, children |-> children, values |-> <<>>, next |-> NoNode]

NoSplit == [up_key |-> 0, right |-> NoNode]
Ready   == split = NoSplit

\* Broken: a key that is a separator is taken to be to the left of it.
ChildBelow(node, key) == node.children[1 + Cardinality({i \in DOMAIN node.keys : node.keys[i] < key})]

\* The child a key is under: a separator is the least key to its right.
Child(node, key) == node.children[1 + Cardinality({i \in DOMAIN node.keys : node.keys[i] <= key})]

\* The nodes from nd down to the leaf responsible for a key.
Descent(nd, key) ==
    LET down[x \in DOMAIN nodes] ==
            IF nodes[x].is_leaf THEN <<x>> ELSE <<x>> \o down[Child(nodes[x], key)]
    IN  down[nd]

find_leaf(key) == Last(Descent(root, key))

search(key) ==
    LET leaf == nodes[find_leaf(key)]
    IN  IF Contains(leaf.keys, key)
        THEN leaf.values[SelectInSeq(leaf.keys, LAMBDA k : k = key)]
        ELSE NoVal

Less(s, key)  == Cardinality({i \in DOMAIN s : s[i] < key})

-----------------------------------------------------------------------------

InsertedInto(leaf, key, val) ==
    IF Contains(leaf.keys, key)
    THEN [leaf EXCEPT !.values[SelectInSeq(leaf.keys, LAMBDA k : k = key)] = val]
    ELSE [leaf EXCEPT !.keys = InsertAt(@, Less(leaf.keys, key) + 1, key),
                      !.values = InsertAt(@, Less(leaf.keys, key) + 1, val)]

\* Broken: the new leaf is not linked to the one after it.
LeafHalvesUnlinked(leaf, new) ==
    LET mid == Len(leaf.keys) \div 2
    IN  [left  |-> Leaf(SubSeq(leaf.keys, 1, mid), SubSeq(leaf.values, 1, mid), new),
         right |-> Leaf(SubSeq(leaf.keys, mid + 1, Len(leaf.keys)),
                        SubSeq(leaf.values, mid + 1, Len(leaf.values)), NoNode)]

\* Both halves of a leaf that is split, the right one under a new number.
LeafHalves(leaf, new) ==
    LET mid == Len(leaf.keys) \div 2
    IN  [left  |-> Leaf(SubSeq(leaf.keys, 1, mid), SubSeq(leaf.values, 1, mid), new),
         right |-> Leaf(SubSeq(leaf.keys, mid + 1, Len(leaf.keys)),
                        SubSeq(leaf.values, mid + 1, Len(leaf.values)), leaf.next)]

insert(key, val) ==
    /\ Ready
    /\ LET steps == Descent(root, key)
           at    == Last(steps)
           leaf  == InsertedInto(nodes[at], key, val)
           h     == LeafHalves(leaf, Len(nodes) + 1)
       IN  IF Len(leaf.keys) <= ORDER
           THEN nodes' = [nodes EXCEPT ![at] = leaf] /\ UNCHANGED <<path, split>>
           ELSE /\ nodes' = Append([nodes EXCEPT ![at] = h.left], h.right)
                /\ path' = Front(steps)
                /\ split' = [up_key |-> Head(h.right.keys), right |-> Len(nodes) + 1]
    /\ count' = IF Contains(nodes[find_leaf(key)].keys, key) THEN count ELSE count + 1
    /\ expected' = [expected EXCEPT ![key] = val]
    /\ UNCHANGED root

\* A parent that has taken in the separator and the new node after it.
Told(parent) ==
    LET i == Cardinality({j \in DOMAIN parent.keys : parent.keys[j] <= split.up_key})
    IN  Internal(InsertAt(parent.keys, i + 1, split.up_key), InsertAt(parent.children, i + 2, split.right))

\* Both halves of a parent that is split, and the separator between them.
InternalHalves(parent) ==
    LET pmid == Len(parent.keys) \div 2
    IN  [left  |-> Internal(SubSeq(parent.keys, 1, pmid), SubSeq(parent.children, 1, pmid + 1)),
         up    |-> parent.keys[pmid + 1],
         right |-> Internal(SubSeq(parent.keys, pmid + 2, Len(parent.keys)),
                            SubSeq(parent.children, pmid + 2, Len(parent.children)))]

\* Broken: a parent is split one key too late.
PropagateLate ==
    /\ ~ Ready /\ path # <<>>
    /\ LET parent == Told(nodes[Last(path)])
           h      == InternalHalves(parent)
       IN  IF Len(parent.keys) <= ORDER + 1
           THEN /\ nodes' = [nodes EXCEPT ![Last(path)] = parent]
                /\ path' = <<>> /\ split' = NoSplit
           ELSE /\ nodes' = Append([nodes EXCEPT ![Last(path)] = h.left], h.right)
                /\ path' = Front(path)
                /\ split' = [up_key |-> h.up, right |-> Len(nodes) + 1]
    /\ UNCHANGED <<root, count, expected>>

\* The next parent is told of the split, and split in turn if that is too much.
Propagate ==
    /\ ~ Ready /\ path # <<>>
    /\ LET parent == Told(nodes[Last(path)])
           h      == InternalHalves(parent)
       IN  IF Len(parent.keys) <= ORDER
           THEN /\ nodes' = [nodes EXCEPT ![Last(path)] = parent]
                /\ path' = <<>> /\ split' = NoSplit
           ELSE /\ nodes' = Append([nodes EXCEPT ![Last(path)] = h.left], h.right)
                /\ path' = Front(path)
                /\ split' = [up_key |-> h.up, right |-> Len(nodes) + 1]
    /\ UNCHANGED <<root, count, expected>>

\* The root was split: the tree grows by one level.
GrowRoot ==
    /\ ~ Ready /\ path = <<>>
    /\ nodes' = Append(nodes, Internal(<<split.up_key>>, <<root, split.right>>))
    /\ root' = Len(nodes) + 1
    /\ split' = NoSplit
    /\ UNCHANGED <<count, path, expected>>

TreeInit ==
    /\ nodes = <<Leaf(<<>>, <<>>, NoNode)>> /\ root = 1 /\ count = 0
    /\ path = <<>> /\ split = NoSplit
    /\ expected = [k \in Key |-> NoVal]

TreeNext == (\E k \in Key, v \in Val : insert(k, v)) \/ Propagate \/ GrowRoot

TreeSpec == TreeInit /\ [][TreeNext]_vars

-----------------------------------------------------------------------------

\* Every key is found with the value last inserted for it, whatever was split.
SearchFinds == Ready => \A k \in Key : search(k) = expected[k]

\* The leaves from left to right.
Leaves ==
    LET first[x \in DOMAIN nodes] == IF nodes[x].is_leaf THEN x ELSE first[nodes[x].children[1]]
        from[x \in DOMAIN nodes] ==
            IF nodes[x].next = NoNode THEN <<x>> ELSE <<x>> \o from[nodes[x].next]
    IN  from[first[root]]

\* "leaves are linked left-to-right": along the links, during a split too, every
\* key comes once and in order, and there are count_ of them.
LeafChain ==
    LET chained == FlattenSeq([j \in DOMAIN Leaves |-> nodes[Leaves[j]].keys])
    IN  /\ \A j \in 1..(Len(chained) - 1) : chained[j] < chained[j + 1]
        /\ ToSet(chained) = {k \in Key : expected[k] # NoVal}
        /\ Len(chained) = count

\* "children.size() == keys.size()+1", every leaf equally deep, every node but
\* the root at least half full and none over ORDER.
Balanced ==
    Ready =>
        /\ \A k, l \in Key : Len(Descent(root, k)) = Len(Descent(root, l))
        /\ \A x \in DOMAIN nodes :
            /\ Len(nodes[x].keys) <= ORDER
            /\ x # root => Len(nodes[x].keys) >= ORDER \div 2
            /\ ~ nodes[x].is_leaf => Len(nodes[x].children) = Len(nodes[x].keys) + 1

=============================================================================
