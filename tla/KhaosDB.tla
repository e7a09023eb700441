------------------------------ MODULE KhaosDB ------------------------------
(***************************************************************************)
(* khaos.KhaosDB: the in-memory fork tree of recent blocks.                *)
(*                                                                         *)
(* A block id is a hash that covers the parent's id, so an id determines   *)
(* the whole ancestry: a block is named here by the path that leads to it  *)
(* from the root, <<>> being the root itself.  Its parent is the path      *)
(* without its last element and its depth is the length of the path.       *)
(*                                                                         *)
(* Its number is a field of its header that neither Push nor PushBlock     *)
(* compares with the parent's: any integer, in any order along a branch.   *)
(***************************************************************************)
EXTENDS Integers, Sequences

CONSTANTS
    Labels,   \* what tells apart blocks with the same parent
    Blocks,   \* the blocks the network may produce, as paths from the root
    Number,   \* the header number of the root and of every block
    MaxSize   \* retained span below the head, 0 = unbounded

\* A block is a non-empty path, and so are its ancestors down to the root.
ASSUME BlocksAssumption ==
    /\ Blocks \subseteq Seq(Labels) \ {<<>>}
    /\ \A b \in Blocks : \A n \in 1..Len(b) : SubSeq(b, 1, n) \in Blocks

ASSUME NumberAssumption == Number \in [Blocks \cup {<<>>} -> Int]

ASSUME MaxSizeAssumption == MaxSize \in Nat

VARIABLES
    tree,     \* KhaosDB.blocks: the retained nodes
    head      \* KhaosDB.head

Root == <<>>
Nodes == Blocks \cup {Root}
Num(b) == Number[b]
Depth(b) == Len(b)
Ancestor(b, n) == SubSeq(b, 1, n)   \* the block at depth n on b's branch
Parent(b) == Ancestor(b, Depth(b) - 1)

\* The blocks of b's branch above its ancestor at depth c, ancestor-first.
Above(b, c) == [i \in 1..(Depth(b) - c) |-> Ancestor(b, c + i)]

\* The whole branch of b above the root, ancestor-first.
BranchOf(b) == Above(b, 0)

-----------------------------------------------------------------------------

Start == tree = {Root} /\ head = Root

\* Push links b to its parent, if the parent is retained.
Linked(b) == Parent(b) \in tree

MutAdvancesLate(b) == Num(b) > Num(head) + 1

\* The strictly-longer-chain rule: ties keep the block seen first.
Advances(b) == Num(b) > Num(head)

MutPrunedEager(t, h) ==
    IF MaxSize = 0 THEN t ELSE {b \in t : Num(b) + MaxSize > Num(h) + 1}

\* prune: what is left of t once h is the head.
Pruned(t, h) ==
    IF MaxSize = 0 THEN t ELSE {b \in t : Num(b) + MaxSize >= Num(h)}

\* RejectTip of b, the head of the pruned tree t: the previous head returns,
\* unless it is no longer retained.
RejectTip(t, b, previous) ==
    IF previous \in t
    THEN [tree |-> t \ {b}, head |-> previous]
    ELSE [tree |-> t, head |-> b]

-----------------------------------------------------------------------------
(* GetBranch: two pointers climb through Parent links, which lead through   *)
(* pruned nodes too.                                                       *)

MutStopsAt(d, b, limit) ==
    /\ d \in 0..Depth(b)
    /\ Num(Ancestor(b, d)) < limit
    /\ \A e \in (d + 1)..Depth(b) : Num(Ancestor(b, e)) >= limit

\* A pointer that starts at b and climbs while its number is above limit
\* stops at depth d; there is no such d when it runs off the root.
StopsAt(d, b, limit) ==
    /\ d \in 0..Depth(b)
    /\ Num(Ancestor(b, d)) <= limit
    /\ \A e \in (d + 1)..Depth(b) : Num(Ancestor(b, e)) > limit

\* A block numbered below an ancestor may be pruned before it, be pushed again
\* and so stand in the tree as a second node, which GetBranch tells from the
\* first.  Numbers that never fall make every ancestor go with the block.
Repushable ==
    {b \in Blocks : \E n \in 1..Depth(b) : Num(Ancestor(b, n)) < Num(Ancestor(b, n - 1))}

\* The pointers of a and b, at depth d, are at the same node, when the blocks
\* in twice are met at two different nodes.
SameNode(d, a, b, twice) ==
    /\ Ancestor(a, d) = Ancestor(b, d)
    /\ Ancestor(a, d) \notin twice

\* The first loop brings a's pointer down to b's number, the second b's down
\* to what a's has reached.  The third moves both one parent at a time, so it
\* can only find a common node if they start it at one depth.
LockStepFrom(d, a, b) ==
    /\ StopsAt(d, a, Num(b))
    /\ StopsAt(d, b, Num(Ancestor(a, d)))

\* GetBranch(a, b) returns the branches above their ancestor at depth c.
GetBranch(c, a, b, twice) ==
    \E d \in c..Depth(a) :
        /\ LockStepFrom(d, a, b)
        /\ SameNode(c, a, b, twice)
        /\ \A e \in (c + 1)..d : ~SameNode(e, a, b, twice)

\* GetBranch(a, b) in the tree t returns ErrNoCommonAncestor.
NoCommonAncestor(t, a, b) ==
    \/ ~ {a, b} \subseteq t
    \/ \A d \in 0..Depth(a) : ~LockStepFrom(d, a, b)

\* c is the depth of the last block the branches of a and b share.
IsForkPoint(c, a, b) ==
    /\ c <= Depth(a)
    /\ c <= Depth(b)
    /\ Ancestor(a, c) = Ancestor(b, c)
    /\ c < Depth(a) /\ c < Depth(b) => Ancestor(a, c + 1) # Ancestor(b, c + 1)

\* b's branch is numbered consecutively above its ancestor at depth c.
Consecutive(b, c) ==
    \A n \in c..Depth(b) : Num(Ancestor(b, n)) = Num(Ancestor(b, c)) + n - c

\* For two retained blocks whose branches are numbered consecutively above
\* their last common ancestor, whatever the numbers below it and also when
\* blocks between them were pruned, GetBranch returns the branches above that
\* ancestor: switchFork revokes exactly the blocks the branches do not share.
\* (A branch with a gap may miss it, see NoCommonAncestor.)
GetBranchFindsFork ==
    \A a, b \in tree : \A c \in 0..Depth(a) :
        /\ IsForkPoint(c, a, b)
        /\ Consecutive(a, c)
        /\ Consecutive(b, c)
        => /\ ~NoCommonAncestor(tree, a, b)
           /\ \A twice \in SUBSET (Repushable \ {Ancestor(a, c)}) :
                 \A n \in 0..Depth(a) : GetBranch(n, a, b, twice) <=> n = c

=============================================================================
