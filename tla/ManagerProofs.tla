---------------------------- MODULE ManagerProofs ----------------------------
(***************************************************************************)
(* Proofs about the block pipeline for every set of blocks, every set of   *)
(* failing blocks and every retention span.                                *)
(***************************************************************************)
EXTENDS Manager, NatFacts, SequenceTheorems, TLAPS

-----------------------------------------------------------------------------
(* Branches.                                                               *)

\* A node is a path of labels, and its ancestors above the root are blocks.
LEMMA NodeType ==
    ASSUME NEW b \in Nodes
    PROVE  /\ b \in Seq(Labels)
           /\ Depth(b) \in Nat
           /\ b \in Blocks => Depth(b) > 0
           /\ \A n \in 1..Depth(b) : Ancestor(b, n) \in Blocks
<1>1. b \in Seq(Labels)
  BY BlocksAssumption, EmptySeq DEF Nodes, Root
<1>2. Depth(b) \in Nat /\ (b = <<>> => Depth(b) = 0)
  BY <1>1, LenProperties, EmptySeq DEF Depth
<1>3. b \in Blocks => Depth(b) > 0
  BY <1>1, BlocksAssumption, EmptySeq DEF Depth
<1>4. \A n \in 1..Depth(b) : Ancestor(b, n) \in Blocks
  BY <1>2, BlocksAssumption DEF Nodes, Root, Depth, Ancestor
<1>5. QED
  BY <1>1, <1>2, <1>3, <1>4

\* An ancestor is numbered as it says, and its ancestors are the block's.
LEMMA AncestorFacts ==
    ASSUME NEW b \in Seq(Labels), NEW n \in 0..Len(b)
    PROVE  /\ Ancestor(b, n) \in Seq(Labels)
           /\ Depth(Ancestor(b, n)) = n
           /\ \A m \in 0..n : Ancestor(Ancestor(b, n), m) = Ancestor(b, m)
           /\ Ancestor(b, Len(b)) = b
           /\ Ancestor(b, 0) = <<>>
<1>1. Len(b) \in Nat
  BY LenProperties
<1>2. \A i \in 1..n : b[i] \in Labels
  BY <1>1, ElementOfSeq
<1>3. /\ Ancestor(b, n) \in Seq(Labels)
      /\ Depth(Ancestor(b, n)) = n
  BY <1>1, <1>2, SubSeqProperties DEF Ancestor, Depth
<1>4. ASSUME NEW m \in 0..n PROVE Ancestor(Ancestor(b, n), m) = Ancestor(b, m)
  BY <1>1 DEF Ancestor
<1>5. Ancestor(b, Len(b)) = b
  BY SubSeqFull DEF Ancestor
<1>6. Ancestor(b, 0) = <<>>
  BY DEF Ancestor
<1>7. QED
  BY <1>3, <1>4, <1>5, <1>6

\* The blocks above an ancestor, as a sequence.
LEMMA AboveFacts ==
    ASSUME NEW b \in Nodes, NEW c \in 0..Depth(b)
    PROVE  /\ Above(b, c) \in Seq(Blocks)
           /\ Len(Above(b, c)) = Depth(b) - c
           /\ \A i \in 1..(Depth(b) - c) : Above(b, c)[i] = Ancestor(b, c + i)
<1>1. Depth(b) \in Nat /\ Depth(b) - c \in Nat
  BY NodeType
<1>2. ASSUME NEW i \in 1..(Depth(b) - c) PROVE Ancestor(b, c + i) \in Blocks
  <2>1. c + i \in 1..Depth(b)
    BY <1>1
  <2>2. QED
    BY <2>1, NodeType
<1>3. Above(b, c) \in [1..(Depth(b) - c) -> Blocks]
  BY <1>2 DEF Above
<1>4. Above(b, c) \in Seq(Blocks)
  BY <1>1, <1>3, SeqDef
<1>5. Len(Above(b, c)) = Depth(b) - c
  <2>1. Len(Above(b, c)) \in Nat /\ DOMAIN Above(b, c) = 1..Len(Above(b, c))
    BY <1>4, LenProperties
  <2>2. 1..Len(Above(b, c)) = 1..(Depth(b) - c)
    BY <2>1, <1>3
  <2>3. QED
    BY <1>1, <2>1, <2>2
<1>6. QED
  BY <1>4, <1>5 DEF Above

\* The branch of an ancestor, extended by the blocks above it, is the branch
\* of the later block: what a fork switch re-applies joins seamlessly.
LEMMA BranchJoin ==
    ASSUME NEW b \in Nodes, NEW c \in 0..Depth(b), NEW i \in 0..(Depth(b) - c)
    PROVE  BranchOf(Ancestor(b, c)) \o SubSeq(Above(b, c), 1, i)
              = BranchOf(Ancestor(b, c + i))
<1> DEFINE lo == Ancestor(b, c)
           hi == Ancestor(b, c + i)
           up == SubSeq(Above(b, c), 1, i)
<1>1. Depth(b) \in Nat /\ c \in Nat /\ i \in Nat /\ c + i \in 0..Depth(b) /\ Depth(b) = Len(b)
  BY NodeType DEF Depth
<1>2. b \in Seq(Labels)
  BY NodeType
<1>3. Depth(lo) = c /\ Depth(hi) = c + i
  BY <1>1, <1>2, AncestorFacts
<1>4. /\ up \in Seq(Blocks) /\ Len(up) = i
      /\ \A k \in 1..i : up[k] = Ancestor(b, c + k)
  <2>1. \A k \in 1..i : Above(b, c)[k] \in Blocks /\ Above(b, c)[k] = Ancestor(b, c + k)
    BY <1>1, AboveFacts, ElementOfSeq
  <2>2. /\ up \in Seq(Blocks)
        /\ Len(up) = IF 1 <= i THEN i - 1 + 1 ELSE 0
        /\ \A k \in 1..(i - 1 + 1) : up[k] = Above(b, c)[1 + k - 1]
    BY <1>1, <2>1, SubSeqProperties
  <2>3. QED
    BY <1>1, <2>1, <2>2
<1>5. ASSUME NEW m \in 0..Depth(b)
      PROVE  /\ BranchOf(Ancestor(b, m)) \in Seq(Blocks)
             /\ Len(BranchOf(Ancestor(b, m))) = m
             /\ \A k \in 1..m : BranchOf(Ancestor(b, m))[k] = Ancestor(b, k)
  <2>1. Ancestor(b, m) \in Nodes
    <3>1. CASE m = 0
      BY <3>1, <1>1, <1>2, AncestorFacts DEF Nodes, Root
    <3>2. CASE m # 0
      BY <3>2, <1>1, NodeType DEF Nodes
    <3>3. QED
      BY <3>1, <3>2
  <2>2. Depth(Ancestor(b, m)) = m /\ \A k \in 0..m : Ancestor(Ancestor(b, m), k) = Ancestor(b, k)
    BY <1>1, <1>2, AncestorFacts
  <2>3. 0 \in 0..Depth(Ancestor(b, m))
    BY <2>2
  <2>4. /\ BranchOf(Ancestor(b, m)) \in Seq(Blocks)
        /\ Len(BranchOf(Ancestor(b, m))) = m - 0
        /\ \A k \in 1..(m - 0) : BranchOf(Ancestor(b, m))[k] = Ancestor(Ancestor(b, m), 0 + k)
    BY <2>1, <2>2, <2>3, AboveFacts DEF BranchOf
  <2>5. QED
    BY <2>2, <2>4
<1>6. /\ BranchOf(lo) \in Seq(Blocks) /\ Len(BranchOf(lo)) = c
      /\ \A k \in 1..c : BranchOf(lo)[k] = Ancestor(b, k)
  BY <1>5
<1>7. /\ BranchOf(hi) \in Seq(Blocks) /\ Len(BranchOf(hi)) = c + i
      /\ \A k \in 1..(c + i) : BranchOf(hi)[k] = Ancestor(b, k)
  BY <1>1, <1>5
<1> HIDE DEF lo, hi, up
<1>8. /\ BranchOf(lo) \o up \in Seq(Blocks)
      /\ Len(BranchOf(lo) \o up) = c + i
      /\ \A k \in 1..(c + i) : (BranchOf(lo) \o up)[k] =
            IF k <= c THEN BranchOf(lo)[k] ELSE up[k - c]
  <2> DEFINE x == BranchOf(lo)
  <2>1. x \in Seq(Blocks) /\ Len(x) = c
    BY <1>6
  <2> HIDE DEF x
  <2>2. /\ x \o up \in Seq(Blocks)
        /\ Len(x \o up) = Len(x) + Len(up)
        /\ \A k \in 1..(Len(x) + Len(up)) : (x \o up)[k] =
              IF k <= Len(x) THEN x[k] ELSE up[k - Len(x)]
    BY <1>4, <2>1, ConcatProperties
  <2>3. QED
    BY <1>4, <2>1, <2>2 DEF x
<1>9. \A k \in 1..(c + i) : (BranchOf(lo) \o up)[k] = BranchOf(hi)[k]
  BY <1>1, <1>4, <1>6, <1>7, <1>8
<1>10. BranchOf(lo) \o up = BranchOf(hi)
  BY <1>7, <1>8, <1>9, SeqEqual
<1>11. QED
  BY <1>10 DEF lo, hi, up

\* The number of a node is an integer, and every ancestor is a node.
LEMMA NumberType ==
    ASSUME NEW b \in Nodes
    PROVE  /\ Num(b) \in Int
           /\ \A n \in 0..Depth(b) : Ancestor(b, n) \in Nodes /\ Num(Ancestor(b, n)) \in Int
<1>1. ASSUME NEW x \in Nodes PROVE Num(x) \in Int
  BY NumberAssumption DEF Nodes, Root, Num
<1>2. ASSUME NEW n \in 0..Depth(b) PROVE Ancestor(b, n) \in Nodes
  <2>1. CASE n = 0
    BY <2>1, NodeType, AncestorFacts DEF Nodes, Root, Depth
  <2>2. CASE n # 0
    <3>1. n \in 1..Depth(b)
      BY <2>2, NodeType
    <3>2. QED
      BY <3>1, NodeType DEF Nodes
  <2>3. QED
    BY <2>1, <2>2
<1>3. QED
  BY <1>1, <1>2

-----------------------------------------------------------------------------
(* The walk of GetBranch.                                                  *)

\* Any two blocks have a last common ancestor.
LEMMA ForkExists ==
    ASSUME NEW a \in Nodes, NEW b \in Nodes
    PROVE  \E c \in 0..Depth(a) : IsForkPoint(c, a, b)
<1> DEFINE T == {n \in 0..Depth(a) : n <= Depth(b) /\ Ancestor(a, n) = Ancestor(b, n)}
<1>1. /\ a \in Seq(Labels) /\ b \in Seq(Labels) /\ Depth(a) \in Nat /\ Depth(b) \in Nat
      /\ Depth(a) = Len(a) /\ Depth(b) = Len(b)
  BY NodeType DEF Depth
<1>2. Ancestor(a, 0) = <<>> /\ Ancestor(b, 0) = <<>>
  BY <1>1, AncestorFacts
<1>3. 0 \in T
  BY <1>1, <1>2
<1>4. T \in SUBSET (0..Depth(a)) /\ T # {}
  BY <1>3
<1>5. PICK c \in T : \A n \in T : n <= c
  <2> HIDE DEF T
  <2> QED
    BY <1>1, <1>4, GreatestNat
<1>6. c \in 0..Depth(a) /\ c <= Depth(b) /\ Ancestor(a, c) = Ancestor(b, c)
  OBVIOUS
<1>7. ASSUME c < Depth(a), c < Depth(b) PROVE Ancestor(a, c + 1) # Ancestor(b, c + 1)
  <2>1. c + 1 \in 0..Depth(a) /\ c + 1 <= Depth(b) /\ ~(c + 1 <= c)
    BY <1>1, <1>6, <1>7
  <2>2. c + 1 \notin T
    BY <1>5, <2>1
  <2>3. QED
    BY <2>1, <2>2
<1>8. QED
  BY <1>1, <1>6, <1>7 DEF IsForkPoint

\* No higher block is common to both branches.
LEMMA ForkHighest ==
    ASSUME NEW a \in Nodes, NEW b \in Nodes, NEW c \in 0..Depth(a), IsForkPoint(c, a, b),
           NEW x \in c..Depth(a), x <= Depth(b), Ancestor(a, x) = Ancestor(b, x)
    PROVE  x = c
<1>1. /\ a \in Seq(Labels) /\ b \in Seq(Labels) /\ Depth(a) \in Nat /\ Depth(b) \in Nat
      /\ Depth(a) = Len(a) /\ Depth(b) = Len(b)
  BY NodeType DEF Depth
<1> SUFFICES ASSUME x # c PROVE FALSE
  OBVIOUS
<1>2. x \in 0..Len(a) /\ x \in 0..Len(b) /\ c + 1 \in 0..x /\ c < Depth(a) /\ c < Depth(b)
  BY <1>1
<1>3. /\ Ancestor(Ancestor(a, x), c + 1) = Ancestor(a, c + 1)
      /\ Ancestor(Ancestor(b, x), c + 1) = Ancestor(b, c + 1)
  BY <1>1, <1>2, AncestorFacts
<1>4. QED
  BY <1>2, <1>3 DEF IsForkPoint

\* A climbing pointer stops at one depth at most.
LEMMA StopsOnce ==
    ASSUME NEW b \in Nodes, NEW limit \in Int, NEW d \in Nat, NEW e \in Nat,
           StopsAt(d, b, limit), StopsAt(e, b, limit)
    PROVE  d = e
<1>1. Depth(b) \in Nat /\ d \in 0..Depth(b) /\ e \in 0..Depth(b)
  BY NodeType DEF StopsAt
<1>2. Num(Ancestor(b, d)) \in Int /\ Num(Ancestor(b, e)) \in Int
  BY <1>1, NumberType
<1>3. ~(d < e)
  <2> SUFFICES ASSUME d < e PROVE FALSE
    OBVIOUS
  <2>1. e \in (d + 1)..Depth(b)
    BY <1>1
  <2>2. QED
    BY <1>2, <2>1 DEF StopsAt
<1>4. ~(e < d)
  <2> SUFFICES ASSUME e < d PROVE FALSE
    OBVIOUS
  <2>1. d \in (e + 1)..Depth(b)
    BY <1>1
  <2>2. QED
    BY <1>2, <2>1 DEF StopsAt
<1>5. QED
  BY <1>1, <1>3, <1>4

\* Above a common ancestor of two branches numbered consecutively, the first
\* two loops end with both pointers at the depth of the lower block.
LEMMA LockStepStart ==
    ASSUME NEW a \in Nodes, NEW b \in Nodes, NEW c \in 0..Depth(a), c <= Depth(b),
           Ancestor(a, c) = Ancestor(b, c), Consecutive(a, c), Consecutive(b, c)
    PROVE  \E d \in c..Depth(a) :
              /\ d <= Depth(b)
              /\ LockStepFrom(d, a, b)
              /\ \A e \in 0..Depth(a) : LockStepFrom(e, a, b) => e = d
<1> DEFINE f == Num(Ancestor(a, c))
           d == IF Depth(a) <= Depth(b) THEN Depth(a) ELSE Depth(b)
<1>1. /\ Depth(a) \in Nat /\ Depth(b) \in Nat /\ c \in Nat
      /\ a \in Seq(Labels) /\ b \in Seq(Labels)
  BY NodeType
<1>2. f \in Int /\ Num(b) \in Int
  BY NumberType
<1>3. d \in c..Depth(a) /\ d \in c..Depth(b) /\ d \in 0..Depth(a) /\ d \in 0..Depth(b) /\ d \in Nat
  BY <1>1
<1>4. ASSUME NEW n \in c..Depth(a) PROVE Num(Ancestor(a, n)) = f + n - c
  BY DEF Consecutive
<1>5. ASSUME NEW n \in c..Depth(b) PROVE Num(Ancestor(b, n)) = f + n - c
  BY DEF Consecutive
<1>6. Num(b) = f + Depth(b) - c
  <2>1. Ancestor(b, Depth(b)) = b /\ Depth(b) \in c..Depth(b)
    BY <1>1, AncestorFacts DEF Depth
  <2>2. QED
    BY <1>5, <2>1
<1>7. StopsAt(d, a, Num(b))
  <2>1. Num(Ancestor(a, d)) <= Num(b)
    BY <1>1, <1>2, <1>3, <1>4, <1>6
  <2>2. ASSUME NEW e \in (d + 1)..Depth(a) PROVE Num(Ancestor(a, e)) > Num(b)
    <3>1. e \in c..Depth(a) /\ e > Depth(b)
      BY <1>1, <1>3
    <3>2. QED
      BY <1>1, <1>2, <1>4, <1>6, <3>1
  <2> HIDE DEF d
  <2>3. QED
    BY <1>3, <2>1, <2>2 DEF StopsAt
<1>8. StopsAt(d, b, Num(Ancestor(a, d)))
  <2>1. Num(Ancestor(a, d)) = f + d - c /\ Num(Ancestor(b, d)) = f + d - c
    BY <1>3, <1>4, <1>5
  <2>2. ASSUME NEW e \in (d + 1)..Depth(b) PROVE Num(Ancestor(b, e)) > Num(Ancestor(a, d))
    <3>1. e \in c..Depth(b) /\ e > d
      BY <1>1, <1>3
    <3>2. Num(Ancestor(b, e)) = f + e - c
      BY <1>5, <3>1
    <3> HIDE DEF d, f
    <3>3. QED
      BY <1>1, <1>2, <1>3, <2>1, <3>1, <3>2
  <2> HIDE DEF d, f
  <2>3. QED
    BY <1>2, <1>3, <2>1, <2>2 DEF StopsAt
<1>9. ASSUME NEW e \in 0..Depth(a), LockStepFrom(e, a, b) PROVE e = d
  <2>1. StopsAt(e, a, Num(b)) /\ e \in Nat
    BY <1>9 DEF LockStepFrom
  <2> HIDE DEF d
  <2>2. QED
    BY <1>2, <1>3, <1>7, <2>1, StopsOnce
<1> HIDE DEF d
<1>10. QED
  BY <1>1, <1>3, <1>7, <1>8, <1>9 DEF LockStepFrom

\* What GetBranch returns are the branches above a common ancestor, whatever
\* the numbers.
LEMMA GetBranchCommon ==
    ASSUME NEW a \in Nodes, NEW b \in Nodes, NEW c \in Nat, NEW twice, GetBranch(c, a, b, twice)
    PROVE  c \in 0..Depth(a) /\ Ancestor(a, c) = Ancestor(b, c)
<1>1. PICK d \in c..Depth(a) : SameNode(c, a, b, twice)
  BY DEF GetBranch
<1>2. Depth(a) \in Nat
  BY NodeType
<1>3. QED
  BY <1>1, <1>2 DEF SameNode

-----------------------------------------------------------------------------
(* The inductive invariant.  AlignedUnlessTorn is not inductive alone: that *)
(* restoreBranch succeeds needs to know that every block of the head's      *)
(* branch executes there; that no push strays while the numbers have no     *)
(* gap, that a retained block is as high as it is deep.                     *)

BranchExecutes ==
    torn \/ stray \/ \A n \in 1..Depth(head) : Ancestor(head, n) \notin failing

TreeRegular ==
    ~gapped => \A b \in tree : \A n \in 0..Depth(b) : Num(Ancestor(b, n)) = Num(Root) + n

IInv ==
    /\ TypeOK
    /\ AppliedNamesSessions
    /\ HeadIsHighest
    /\ AlignedUnlessTorn
    /\ BranchExecutes
    /\ TreeRegular

(* What every push does to the blocks and to the record of gaps.           *)
Frame(b) == failing' = failing /\ gapped' = (gapped \/ LinksGap(b))

\* A freshly seeded tree holds the root alone.
LEMMA RootFacts ==
    /\ Depth(<<>>) = 0 /\ <<>> \in Nodes /\ <<>> \in Seq(Blocks) /\ Root = <<>>
    /\ BranchOf(<<>>) = <<>> /\ Ancestor(<<>>, 0) = <<>> /\ Num(<<>>) \in Int
<1>1. Depth(<<>>) = 0 /\ <<>> \in Nodes /\ <<>> \in Seq(Blocks) /\ Root = <<>>
  BY EmptySeq DEF Depth, Nodes, Root
<1>2. BranchOf(<<>>) = <<>>
  BY <1>1 DEF BranchOf, Above
<1>3. QED
  BY <1>1, <1>2, NumberType DEF Ancestor

\* A pipeline that has just loaded its chain root satisfies the invariant.
LEMMA InitIInv == Init => IInv
<1> SUFFICES ASSUME Init PROVE IInv
  OBVIOUS
<1>1. /\ tree = {<<>>} /\ head = <<>> /\ sessions = <<>> /\ applied = <<>>
      /\ failing \in SUBSET Blocks /\ result = "nil" /\ torn = FALSE
      /\ stray = FALSE /\ gapped = FALSE
  BY DEF Init, Start, Root
<1>2. TypeOK
  BY <1>1, RootFacts DEF TypeOK, Results
<1>3. HeadIsHighest /\ TreeRegular
  BY <1>1, RootFacts DEF HeadIsHighest, TreeRegular
<1>4. QED
  BY <1>1, <1>2, <1>3, RootFacts
     DEF IInv, AppliedNamesSessions, AlignedUnlessTorn, BranchExecutes

\* The parent of a block is one less deep, its ancestors are the block's.
LEMMA ParentFacts ==
    ASSUME NEW b \in Blocks
    PROVE  /\ b \in Nodes /\ Depth(b) \in Nat /\ Depth(b) > 0 /\ b \in Seq(Labels)
           /\ Depth(b) = Len(b) /\ Ancestor(b, Depth(b)) = b
           /\ Parent(b) \in Nodes /\ Depth(Parent(b)) = Depth(b) - 1
           /\ \A n \in 0..(Depth(b) - 1) : Ancestor(Parent(b), n) = Ancestor(b, n)
<1>1. /\ b \in Nodes /\ Depth(b) \in Nat /\ Depth(b) > 0 /\ b \in Seq(Labels)
      /\ Depth(b) = Len(b)
  BY NodeType DEF Nodes, Depth
<1>2. Depth(b) - 1 \in 0..Len(b) /\ Depth(b) - 1 \in 0..Depth(b)
  BY <1>1
<1>3. QED
  BY <1>1, <1>2, AncestorFacts, NumberType DEF Parent

\* What a push that makes b the head leaves in the tree.
LEMMA TreeWithFacts ==
    ASSUME IInv, NEW b \in Blocks, Overtakes(b)
    PROVE  /\ TreeWith(b) \subseteq tree \cup {b}
           /\ TreeWith(b) \subseteq Nodes
           /\ b \in TreeWith(b)
           /\ b # head /\ head \in Nodes /\ head \in tree
           /\ \A x \in TreeWith(b) : Num(x) <= Num(b)
<1>1. b \in Nodes /\ head \in Nodes /\ head \in tree /\ tree \subseteq Nodes /\ b # head
  BY DEF IInv, TypeOK, Nodes, Overtakes
<1>2. Num(b) \in Int /\ Num(head) \in Int
  BY <1>1, NumberType
<1>3. b \in TreeWith(b) /\ TreeWith(b) \subseteq tree \cup {b}
  <2>1. Num(b) + MaxSize >= Num(b)
    BY <1>2, MaxSizeAssumption
  <2>2. QED
    BY <2>1 DEF TreeWith, Pruned
<1>4. ASSUME NEW x \in tree PROVE Num(x) <= Num(b)
  <2>1. Num(x) \in Int /\ Num(x) <= Num(head) /\ Num(b) > Num(head)
    BY <1>1, NumberType DEF IInv, HeadIsHighest, Overtakes, Advances
  <2>2. QED
    BY <1>2, <2>1
<1>5. QED
  BY <1>1, <1>2, <1>3, <1>4

\* While every block is regular, the one that overtakes the head is numbered
\* one above it, and the old head survives the pruning.
LEMMA OvertakesByOne ==
    ASSUME IInv, NEW b \in Blocks, Overtakes(b), Frame(b), ~gapped'
    PROVE  /\ ~gapped
           /\ Num(b) = Num(head) + 1
           /\ Depth(b) = Depth(head) + 1
           /\ head \in TreeWith(b)
           /\ \A n \in 0..Depth(b) : Num(Ancestor(b, n)) = Num(Root) + n
           /\ \A n \in 0..Depth(head) : Num(Ancestor(head, n)) = Num(Root) + n
<1>1. ~gapped /\ ~LinksGap(b) /\ b \notin tree /\ Linked(b)
  BY DEF Frame, Overtakes
<1>2. Num(b) = Num(Parent(b)) + 1 /\ Parent(b) \in tree
  BY <1>1 DEF LinksGap, Regular, Linked
<1>3. head \in tree /\ head \in Nodes /\ head \in Seq(Labels) /\ Depth(head) = Len(head) /\ Depth(head) \in Nat
  BY NodeType DEF IInv, TypeOK, Depth
<1>4. Num(b) \in Int /\ Num(head) \in Int /\ Num(Parent(b)) \in Int /\ Num(Root) \in Int
  BY <1>3, ParentFacts, NumberType, RootFacts
<1>5. Num(Parent(b)) <= Num(head) /\ Num(b) > Num(head)
  BY <1>2 DEF IInv, HeadIsHighest, Overtakes, Advances
<1>6. Num(b) = Num(head) + 1
  BY <1>2, <1>4, <1>5
<1>7. \A n \in 0..Depth(head) : Num(Ancestor(head, n)) = Num(Root) + n
  BY <1>1, <1>3 DEF IInv, TreeRegular
<1>8. \A n \in 0..(Depth(b) - 1) : Num(Ancestor(b, n)) = Num(Root) + n
  BY <1>1, <1>2, ParentFacts DEF IInv, TreeRegular
<1>9. Num(head) = Num(Root) + Depth(head)
  <2>1. Ancestor(head, Depth(head)) = head
    BY <1>3, AncestorFacts
  <2>2. QED
    BY <1>3, <1>7, <2>1
<1>10. Num(Parent(b)) = Num(Root) + (Depth(b) - 1)
  <2>1. Depth(b) - 1 \in 0..(Depth(b) - 1)
    BY ParentFacts
  <2>2. QED
    BY <1>8, <2>1 DEF Parent
<1>11. Depth(b) = Depth(head) + 1
  <2> DEFINE p == Num(Parent(b))
             h == Num(head)
             t == Num(Root)
  <2>1. h \in Int /\ p \in Int /\ t \in Int /\ h = t + Depth(head) /\ p = t + (Depth(b) - 1) /\ p = h
    BY <1>2, <1>4, <1>6, <1>9, <1>10
  <2> HIDE DEF p, h, t
  <2>2. QED
    BY <1>3, <2>1, ParentFacts
<1>12. ASSUME NEW n \in 0..Depth(b) PROVE Num(Ancestor(b, n)) = Num(Root) + n
  <2>1. CASE n = Depth(b)
    <3>1. Num(b) = Num(Root) + Depth(b)
      BY <1>2, <1>4, <1>10, ParentFacts
    <3>2. QED
      BY <2>1, <3>1, ParentFacts
  <2>2. CASE n # Depth(b)
    <3>1. n \in 0..(Depth(b) - 1)
      BY <2>2, ParentFacts
    <3>2. QED
      BY <1>8, <3>1
  <2>3. QED
    BY <2>1, <2>2
<1>13. head \in TreeWith(b)
  <2>1. MaxSize # 0 => Num(head) + MaxSize >= Num(b)
    BY <1>4, <1>6, MaxSizeAssumption
  <2>2. QED
    BY <1>3, <2>1 DEF TreeWith, Pruned
<1>14. QED
  BY <1>1, <1>6, <1>7, <1>11, <1>12, <1>13

\* While every block is regular, switchFork finds a common ancestor.
LEMMA AncestorFound ==
    ASSUME IInv, NEW b \in Blocks, Overtakes(b), Frame(b), ~gapped'
    PROVE  ~NoCommonAncestor(TreeWith(b), b, head)
<1>1. /\ head \in TreeWith(b) /\ Num(Root) \in Int
      /\ \A n \in 0..Depth(b) : Num(Ancestor(b, n)) = Num(Root) + n
      /\ \A n \in 0..Depth(head) : Num(Ancestor(head, n)) = Num(Root) + n
  BY OvertakesByOne, RootFacts
<1>2. /\ b \in Nodes /\ head \in Nodes /\ Depth(b) \in Nat /\ Depth(head) \in Nat
      /\ b \in Seq(Labels) /\ head \in Seq(Labels)
  BY NodeType DEF IInv, TypeOK, Nodes
<1>3. Ancestor(b, 0) = <<>> /\ Ancestor(head, 0) = <<>>
  BY <1>2, AncestorFacts DEF Depth
<1>4. Consecutive(b, 0) /\ Consecutive(head, 0)
  BY <1>1, <1>2, <1>3 DEF Consecutive, Root
<1>5. 0 \in 0..Depth(b) /\ 0 <= Depth(head)
  BY <1>2
<1>6. \E d \in 0..Depth(b) : LockStepFrom(d, b, head)
  BY <1>2, <1>3, <1>4, <1>5, LockStepStart
<1>7. QED
  BY <1>1, <1>6, TreeWithFacts DEF NoCommonAncestor

\* Linking b keeps every retained block regular, or is a gap.
LEMMA StaysRegular ==
    ASSUME IInv, NEW b \in Blocks, Frame(b), tree' \subseteq tree \cup {b},
           b \in tree' => b \in tree \/ Linked(b)
    PROVE  TreeRegular'
<1> SUFFICES ASSUME ~gapped', NEW x \in tree', NEW n \in 0..Depth(x)
             PROVE  Num(Ancestor(x, n)) = Num(Root) + n
  BY DEF TreeRegular
<1>1. ~gapped /\ ~LinksGap(b)
  BY DEF Frame
<1>2. CASE x \in tree
  BY <1>1, <1>2 DEF IInv, TreeRegular
<1>3. CASE x \notin tree
  <2>1. x = b /\ b \notin tree /\ Linked(b)
    BY <1>3
  <2>2. Num(b) = Num(Parent(b)) + 1 /\ Parent(b) \in tree
    BY <1>1, <2>1 DEF LinksGap, Regular, Linked
  <2>3. \A k \in 0..(Depth(b) - 1) : Num(Ancestor(b, k)) = Num(Root) + k
    BY <1>1, <2>2, ParentFacts DEF IInv, TreeRegular
  <2>4. CASE n # Depth(b)
    <3>1. n \in 0..(Depth(b) - 1)
      BY <2>1, <2>4, ParentFacts
    <3>2. QED
      BY <2>1, <2>3, <3>1
  <2>5. CASE n = Depth(b)
    <3>1. Depth(b) - 1 \in 0..(Depth(b) - 1)
      BY ParentFacts
    <3>2. Num(Parent(b)) = Num(Root) + (Depth(b) - 1)
      BY <2>3, <3>1 DEF Parent
    <3>3. Num(b) = Num(Root) + Depth(b)
      BY <2>2, <3>2, ParentFacts, RootFacts
    <3>4. QED
      BY <2>1, <2>5, <3>3, ParentFacts
  <2>6. QED
    BY <2>4, <2>5
<1>4. QED
  BY <1>2, <1>3

\* A rejected block leaves the head where it was, unless the old head was
\* pruned: then the block stays and the push strays.
LEMMA RejectHead ==
    ASSUME IInv, NEW b \in Blocks, Overtakes(b), Reject(b)
    PROVE  /\ result' = "failed"
           /\ tree' \subseteq tree \cup {b} /\ tree' \subseteq Nodes /\ head' \in tree'
           /\ \A x \in tree' : Num(x) <= Num(head')
           /\ \/ head \in TreeWith(b) /\ head' = head /\ tree' \subseteq tree /\ stray' = stray
              \/ head \notin TreeWith(b) /\ head' = b /\ stray' = TRUE
<1>1. CASE head \in TreeWith(b)
  <2>1. tree' = TreeWith(b) \ {b} /\ head' = head /\ stray' = stray /\ result' = "failed"
    BY <1>1, TreeWithFacts DEF Reject, RejectTip, IInv, TypeOK
  <2>2. QED
    BY <1>1, <2>1, TreeWithFacts DEF IInv, HeadIsHighest
<1>2. CASE head \notin TreeWith(b)
  <2>1. tree' = TreeWith(b) /\ head' = b /\ stray' = TRUE /\ result' = "failed"
    BY <1>2 DEF Reject, RejectTip
  <2>2. QED
    BY <1>2, <2>1, TreeWithFacts
<1>3. QED
  BY <1>1, <1>2

\* The fork tree after the pushed block has become the head.
LEMMA AdoptTree ==
    ASSUME IInv, NEW b \in Blocks, Overtakes(b), Adopt(b)
    PROVE  /\ head' = b
           /\ tree' \subseteq Nodes /\ tree' \subseteq tree \cup {b}
           /\ b \in tree' /\ Linked(b)
           /\ \A x \in tree' : Num(x) <= Num(b)
           /\ result' = "nil"
BY TreeWithFacts DEF Adopt, Overtakes

\* With the applied blocks aligned, revoking the old branch down to a common
\* ancestor leaves exactly the ancestor's branch.
LEMMA RevokeToFork ==
    ASSUME IInv, ~torn, ~stray, NEW c \in 0..Depth(head)
    PROVE  /\ Without(sessions, Depth(head) - c) = BranchOf(Ancestor(head, c))
           /\ Without(applied, Depth(head) - c) = BranchOf(Ancestor(head, c))
<1>1. head \in Nodes /\ Depth(head) \in Nat /\ head \in Seq(Labels) /\ Depth(head) = Len(head)
  BY NodeType DEF IInv, TypeOK, Depth
<1>3. applied = BranchOf(head) /\ sessions = applied
  BY DEF IInv, AlignedUnlessTorn, AppliedNamesSessions
<1>4. Len(BranchOf(head)) = Depth(head)
  <2>1. Len(BranchOf(head)) = Depth(head) - 0
    BY <1>1, AboveFacts DEF BranchOf
  <2>2. QED
    BY <1>1, <2>1
<1>5. BranchOf(Ancestor(head, 0)) \o SubSeq(Above(head, 0), 1, c) = BranchOf(Ancestor(head, 0 + c))
  <2>1. 0 \in 0..Depth(head) /\ c \in 0..(Depth(head) - 0)
    BY <1>1
  <2>2. QED
    BY <1>1, <2>1, BranchJoin
<1>6. BranchOf(Ancestor(head, 0)) = <<>>
  <2>1. Ancestor(head, 0) = <<>> /\ Depth(<<>>) = 0
    BY <1>1, AncestorFacts, EmptySeq DEF Depth
  <2>2. QED
    BY <2>1 DEF BranchOf, Above
<1>7. SubSeq(Above(head, 0), 1, c) \in Seq(Blocks)
  <2>1. Above(head, 0) \in Seq(Blocks) /\ Len(Above(head, 0)) = Depth(head)
    BY <1>1, <1>4, AboveFacts DEF BranchOf
  <2>2. \A k \in 1..c : Above(head, 0)[k] \in Blocks
    BY <1>1, <2>1, ElementOfSeq
  <2>3. QED
    BY <1>1, <2>2, SubSeqProperties
<1>8. SubSeq(BranchOf(head), 1, c) = BranchOf(Ancestor(head, c))
  <2>1. <<>> \o SubSeq(Above(head, 0), 1, c) = SubSeq(Above(head, 0), 1, c)
    BY <1>7, ConcatEmptySeq
  <2>2. 0 + c = c
    OBVIOUS
  <2>3. QED
    BY <1>5, <1>6, <2>1, <2>2 DEF BranchOf
<1>9. Len(applied) - (Depth(head) - c) = c
  BY <1>1, <1>3, <1>4
<1>10. QED
  BY <1>3, <1>8, <1>9 DEF Without

\* Applied ancestor-first from the fork point, every block runs on its own
\* branch: the ones that executed are not failing, the one that did not is.
LEMMA AppliesOnOwnBranch ==
    ASSUME NEW b \in Nodes, NEW c \in 0..Depth(b), NEW n \in 0..(Depth(b) - c),
           AppliesFirst(n, Above(b, c), BranchOf(Ancestor(b, c)))
    PROVE  /\ \A i \in 1..n : Ancestor(b, c + i) \notin failing
           /\ n < Depth(b) - c => Ancestor(b, c + n + 1) \in failing
<1> DEFINE lo == BranchOf(Ancestor(b, c))
<1>1. Depth(b) \in Nat /\ c \in Nat /\ n \in Nat /\ b \in Seq(Labels) /\ Depth(b) = Len(b)
  BY NodeType DEF Depth
<1>2. ASSUME NEW i \in 1..(Depth(b) - c)
      PROVE  /\ Above(b, c)[i] = Ancestor(b, c + i)
             /\ OnOwnBranch(Ancestor(b, c + i), lo \o SubSeq(Above(b, c), 1, i - 1))
  <2>1. Above(b, c)[i] = Ancestor(b, c + i)
    BY AboveFacts
  <2>2. i - 1 \in 0..(Depth(b) - c) /\ c + i \in 0..Len(b) /\ c + (i - 1) = (c + i) - 1
        /\ (c + i) - 1 \in 0..(c + i)
    BY <1>1
  <2>3. lo \o SubSeq(Above(b, c), 1, i - 1) = BranchOf(Ancestor(b, c + (i - 1)))
    BY <2>2, BranchJoin
  <2>4. /\ Depth(Ancestor(b, c + i)) = c + i
        /\ Ancestor(Ancestor(b, c + i), (c + i) - 1) = Ancestor(b, (c + i) - 1)
    BY <1>1, <2>2, AncestorFacts
  <2>5. Parent(Ancestor(b, c + i)) = Ancestor(b, (c + i) - 1)
    BY <2>4 DEF Parent
  <2>6. QED
    BY <2>1, <2>2, <2>3, <2>5 DEF OnOwnBranch
<1>3. ASSUME NEW i \in 1..n PROVE Ancestor(b, c + i) \notin failing
  <2>1. i \in 1..(Depth(b) - c)
    BY <1>1
  <2>2. MayExecute(Above(b, c)[i], lo \o SubSeq(Above(b, c), 1, i - 1))
    BY DEF AppliesFirst
  <2>3. QED
    BY <1>2, <2>1, <2>2 DEF MayExecute
<1>4. ASSUME n < Depth(b) - c PROVE Ancestor(b, c + n + 1) \in failing
  <2>1. n + 1 \in 1..(Depth(b) - c) /\ (n + 1) - 1 = n /\ c + (n + 1) = c + n + 1
    BY <1>1, <1>4
  <2>2. Len(Above(b, c)) = Depth(b) - c
    BY AboveFacts
  <2>3. MayFail(Above(b, c)[n + 1], lo \o SubSeq(Above(b, c), 1, n))
    BY <1>4, <2>2 DEF AppliesFirst
  <2>4. /\ Above(b, c)[n + 1] = Ancestor(b, c + (n + 1))
        /\ OnOwnBranch(Ancestor(b, c + (n + 1)), lo \o SubSeq(Above(b, c), 1, (n + 1) - 1))
    BY <1>2, <2>1
  <2>5. QED
    BY <2>1, <2>3, <2>4 DEF MayFail
<1>5. QED
  BY <1>3, <1>4

-----------------------------------------------------------------------------
(* One lemma per way PushBlock can end.                                    *)

\* Steps that leave the fork tree, the sessions and the head alone.
LEMMA RefusedIInv ==
    ASSUME IInv, UNCHANGED <<tree, head, sessions, applied, torn, stray, failing>>,
           gapped' \in BOOLEAN, gapped => gapped', result' \in Results
    PROVE  IInv'
BY DEF IInv, TypeOK, AppliedNamesSessions, HeadIsHighest, AlignedUnlessTorn, BranchExecutes,
       TreeRegular

\* A block that does not become the head only joins the fork tree.
LEMMA PushSideIInv ==
    ASSUME IInv, NEW b \in Blocks, PushSide(b), Frame(b)
    PROVE  IInv'
<1>1. /\ tree' = tree \cup {b} /\ head' = head /\ sessions' = sessions /\ Linked(b)
      /\ applied' = applied /\ torn' = torn /\ stray' = stray /\ failing' = failing
      /\ result' = "nil" /\ gapped' = (gapped \/ LinksGap(b))
  BY DEF PushSide, Frame
<1>2. b \in Nodes /\ head \in Nodes /\ Num(b) \in Int /\ Num(head) \in Int
  BY NumberType DEF IInv, TypeOK, Nodes
<1>3. Num(b) <= Num(head)
  BY <1>2 DEF PushSide, Advances
<1>4. TypeOK'
  BY <1>1, <1>2 DEF IInv, TypeOK, Results, LinksGap
<1>5. HeadIsHighest'
  BY <1>1, <1>3 DEF IInv, HeadIsHighest
<1>6. TreeRegular'
  BY <1>1, StaysRegular
<1>7. QED
  BY <1>1, <1>4, <1>5, <1>6 DEF IInv, AppliedNamesSessions, AlignedUnlessTorn, BranchExecutes

\* Extending the branch of b's parent by b gives the branch of b.
LEMMA BranchAppend ==
    ASSUME NEW b \in Blocks
    PROVE  BranchOf(b) = Append(BranchOf(Parent(b)), b)
<1> DEFINE p == Depth(b) - 1
<1>1. b \in Nodes /\ Depth(b) \in Nat /\ Depth(b) > 0 /\ b \in Seq(Labels) /\ Depth(b) = Len(b)
  BY NodeType DEF Nodes, Depth
<1>2. p \in 0..Depth(b) /\ 1 \in 0..(Depth(b) - p) /\ p + 1 = Depth(b) /\ Depth(b) - p = 1
  BY <1>1
<1>3. BranchOf(Ancestor(b, p)) \o SubSeq(Above(b, p), 1, 1) = BranchOf(Ancestor(b, p + 1))
  BY <1>1, <1>2, BranchJoin
<1>4. Ancestor(b, Depth(b)) = b
  BY <1>1, AncestorFacts
<1>5. SubSeq(Above(b, p), 1, 1) = <<b>>
  <2>1. Above(b, p) \in Seq(Blocks) /\ Len(Above(b, p)) = Depth(b) - p /\ Above(b, p)[1] = Ancestor(b, p + 1)
    <3> HIDE DEF p
    <3>1. 1 \in 1..(Depth(b) - p)
      BY <1>2
    <3>2. QED
      BY <1>1, <1>2, <3>1, AboveFacts
  <2> DEFINE u == Above(b, p)
  <2>2. u \in Seq(Blocks) /\ Len(u) = 1 /\ u[1] = b
    BY <1>2, <1>4, <2>1
  <2> HIDE DEF u
  <2>3. u = <<b>>
    BY <2>2
  <2>4. SubSeq(u, 1, 1) = u
    BY <2>2, SubSeqFull
  <2>5. QED
    BY <2>3, <2>4 DEF u
<1>6. Parent(b) \in Nodes
  <2>1. CASE p = 0
    BY <1>1, <2>1, AncestorFacts DEF Parent, Nodes, Root
  <2>2. CASE p # 0
    <3>1. p \in 1..Depth(b)
      BY <1>2, <2>2
    <3>2. QED
      BY <1>1, <3>1, NodeType DEF Parent, Nodes
  <2>3. QED
    BY <2>1, <2>2
<1>7. BranchOf(Parent(b)) \in Seq(Blocks)
  <2>1. 0 \in 0..Depth(Parent(b))
    BY <1>6, NodeType
  <2>2. QED
    BY <1>6, <2>1, AboveFacts DEF BranchOf
<1>8. BranchOf(Parent(b)) \o <<b>> = Append(BranchOf(Parent(b)), b)
  BY <1>7, AppendIsConcat
<1>9. QED
  BY <1>2, <1>3, <1>4, <1>5, <1>8 DEF Parent

\* Applying a child of the head (applyOnTop) extends branch and sessions alike.
LEMMA ApplyOnTopIInv ==
    ASSUME IInv, NEW b \in Blocks, ApplyOnTop(b), Frame(b)
    PROVE  IInv'
<1>1. /\ Overtakes(b) /\ Adopt(b) /\ Parent(b) = head /\ torn' = torn /\ stray' = stray
      /\ failing' = failing /\ gapped' = (gapped \/ LinksGap(b))
      /\ sessions' = Append(sessions, b) /\ applied' = Append(applied, b)
  BY DEF ApplyOnTop, Frame
<1>2. /\ head' = b /\ tree' \subseteq Nodes /\ b \in tree' /\ result' = "nil"
      /\ tree' \subseteq tree \cup {b} /\ Linked(b)
      /\ \A x \in tree' : Num(x) <= Num(b)
  BY <1>1, AdoptTree
<1>3. TypeOK'
  BY <1>1, <1>2, AppendProperties DEF IInv, TypeOK, Results
<1>4. AppliedNamesSessions' /\ HeadIsHighest'
  BY <1>1, <1>2 DEF IInv, AppliedNamesSessions, HeadIsHighest
<1>5. TreeRegular'
  BY <1>2, StaysRegular
<1>6. AlignedUnlessTorn'
  BY <1>1, <1>2, BranchAppend DEF IInv, AlignedUnlessTorn
<1>7. BranchExecutes'
  <2> SUFFICES ASSUME ~torn, ~stray PROVE \A n \in 1..Depth(b) : Ancestor(b, n) \notin failing
    BY <1>1, <1>2 DEF BranchExecutes
  <2>1. sessions = BranchOf(head)
    BY DEF IInv, AlignedUnlessTorn, AppliedNamesSessions
  <2>2. b \notin failing
    BY <1>1, <2>1 DEF ApplyOnTop, MayExecute, OnOwnBranch
  <2>3. \A n \in 1..(Depth(b) - 1) : Ancestor(b, n) \notin failing
    BY <1>1, ParentFacts DEF IInv, BranchExecutes
  <2>4. QED
    BY <2>2, <2>3, ParentFacts
<1>8. QED
  BY <1>3, <1>4, <1>5, <1>6, <1>7 DEF IInv

\* A child of the head that does not execute is rejected without a trace, or
\* is so far ahead that it cannot be.
LEMMA ApplyOnTopFailsIInv ==
    ASSUME IInv, NEW b \in Blocks, ApplyOnTopFails(b), Frame(b)
    PROVE  IInv' /\ (head' = head \/ (stray' /\ Num(head') > Num(head)))
<1>1. /\ Overtakes(b) /\ Reject(b) /\ failing' = failing /\ gapped' = (gapped \/ LinksGap(b))
      /\ sessions' = sessions /\ applied' = applied /\ torn' = torn /\ Linked(b)
  BY DEF ApplyOnTopFails, Frame, Overtakes
<1>2. /\ result' = "failed"
      /\ tree' \subseteq tree \cup {b} /\ tree' \subseteq Nodes /\ head' \in tree'
      /\ \A x \in tree' : Num(x) <= Num(head')
      /\ \/ head \in TreeWith(b) /\ head' = head /\ tree' \subseteq tree /\ stray' = stray
         \/ head \notin TreeWith(b) /\ head' = b /\ stray' = TRUE
  BY <1>1, RejectHead
<1>3. TypeOK' /\ HeadIsHighest' /\ AppliedNamesSessions'
  <2>1. stray' \in BOOLEAN /\ gapped' \in BOOLEAN /\ torn' \in BOOLEAN
    BY <1>1, <1>2 DEF IInv, TypeOK
  <2>2. QED
    BY <1>1, <1>2, <2>1 DEF IInv, TypeOK, Results, HeadIsHighest, AppliedNamesSessions
<1>4. TreeRegular'
  BY <1>1, <1>2, StaysRegular
<1>5. stray' => gapped'
  <2>1. CASE head \in TreeWith(b)
    BY <1>1, <1>2, <2>1 DEF IInv, AlignedUnlessTorn
  <2>2. CASE head \notin TreeWith(b)
    BY <1>1, <2>2, OvertakesByOne
  <2>3. QED
    BY <2>1, <2>2
<1>6. AlignedUnlessTorn' /\ BranchExecutes'
  BY <1>1, <1>2, <1>5 DEF IInv, AlignedUnlessTorn, BranchExecutes
<1>7. head' = head \/ (stray' /\ Num(head') > Num(head))
  BY <1>1, <1>2 DEF Overtakes, Advances
<1>8. QED
  BY <1>3, <1>4, <1>6, <1>7 DEF IInv

\* A switch without a common ancestor leaves the new tip as the head over the
\* old sessions; it takes a gap in the numbers.
LEMMA SwitchForkLostIInv ==
    ASSUME IInv, NEW b \in Blocks, SwitchForkLost(b), Frame(b)
    PROVE  IInv' /\ Num(head') > Num(head)
<1>1. /\ Overtakes(b) /\ NoCommonAncestor(TreeWith(b), b, head) /\ Linked(b)
      /\ tree' = TreeWith(b) /\ head' = b /\ result' = "failed" /\ stray' = TRUE
      /\ sessions' = sessions /\ applied' = applied /\ torn' = torn
      /\ failing' = failing /\ gapped' = (gapped \/ LinksGap(b))
  BY DEF SwitchForkLost, Switches, Frame, Overtakes
<1>2. gapped'
  BY <1>1, AncestorFound
<1>3. TypeOK' /\ HeadIsHighest' /\ AppliedNamesSessions'
  BY <1>1, TreeWithFacts DEF IInv, TypeOK, Results, HeadIsHighest, AppliedNamesSessions
<1>4. AlignedUnlessTorn' /\ BranchExecutes' /\ TreeRegular'
  BY <1>1, <1>2 DEF AlignedUnlessTorn, BranchExecutes, TreeRegular
<1>5. QED
  BY <1>1, <1>3, <1>4 DEF IInv, Overtakes, Advances

\* Where switchFork leaves the old branch, the two branches are one.
LEMMA SwitchDepthFacts ==
    ASSUME IInv, NEW b \in Blocks, NEW c \in SwitchDepths(b)
    PROVE  /\ c \in 0..Depth(head) /\ c \in 0..Depth(b)
           /\ Ancestor(b, c) = Ancestor(head, c)
           /\ head \in TreeWith(b)
<1>1. c \in 0..Depth(head) /\ c \in Nat /\ b \in Nodes /\ head \in Nodes
  BY NodeType DEF SwitchDepths, IInv, TypeOK, Nodes
<1>2. PICK twice \in SUBSET Repushable : GetBranch(c, b, head, twice)
  BY DEF SwitchDepths
<1>3. head \in TreeWith(b)
  BY DEF SwitchDepths, NoCommonAncestor
<1>4. QED
  BY <1>1, <1>2, <1>3, GetBranchCommon

\* Dropping or keeping a prefix of a list of blocks leaves a list of blocks.
LEMMA PrefixType ==
    ASSUME NEW q \in Seq(Blocks), NEW m \in Int, m <= Len(q)
    PROVE  SubSeq(q, 1, m) \in Seq(Blocks)
<1>1. \A k \in 1..m : q[k] \in Blocks
  BY ElementOfSeq, LenProperties
<1>2. QED
  BY <1>1, SubSeqProperties

\* A fork switch whose blocks all execute ends aligned on the new branch.
LEMMA SwitchForkIInv ==
    ASSUME IInv, NEW b \in Blocks, Switches(b), NEW c \in SwitchDepths(b), SwitchFork(b, c), Frame(b)
    PROVE  IInv'
<1> DEFINE n == Depth(head) - c
           kept == Without(sessions, n)
           new == Above(b, c)
<1>1. /\ Overtakes(b) /\ Adopt(b) /\ torn' = torn /\ stray' = stray
      /\ failing' = failing /\ gapped' = (gapped \/ LinksGap(b))
      /\ n <= Len(applied) /\ AppliesFirst(Depth(b) - c, new, kept)
      /\ sessions' = kept \o new /\ applied' = Without(applied, n) \o new
  BY DEF SwitchFork, Switches, Frame
<1>2. /\ head' = b /\ tree' \subseteq Nodes /\ b \in tree' /\ result' = "nil"
      /\ tree' \subseteq tree \cup {b} /\ Linked(b)
      /\ \A x \in tree' : Num(x) <= Num(b)
  BY <1>1, AdoptTree
<1>3. b \in Nodes /\ head \in Nodes /\ Depth(b) \in Nat /\ Depth(head) \in Nat
      /\ c \in 0..Depth(b) /\ c \in 0..Depth(head) /\ Ancestor(b, c) = Ancestor(head, c)
  BY SwitchDepthFacts, NodeType DEF IInv, TypeOK, Nodes
<1>4. sessions = applied /\ sessions \in Seq(Blocks) /\ Len(sessions) \in Nat
  BY LenProperties DEF IInv, AppliedNamesSessions, TypeOK
<1>5. kept \in Seq(Blocks)
  BY <1>3, <1>4, PrefixType DEF Without
<1>6. new \in Seq(Blocks)
  BY <1>3, AboveFacts
<1>7. sessions' \in Seq(Blocks) /\ applied' = sessions'
  <2> HIDE DEF kept, new
  <2>1. kept \o new \in Seq(Blocks)
    BY <1>5, <1>6, ConcatProperties
  <2>2. QED
    BY <1>1, <1>4, <2>1 DEF kept
<1>8. TypeOK'
  BY <1>1, <1>2, <1>7 DEF IInv, TypeOK, Results
<1>9. AppliedNamesSessions' /\ HeadIsHighest' /\ TreeRegular'
  BY <1>2, <1>7, StaysRegular DEF AppliedNamesSessions, HeadIsHighest
<1>10. ASSUME ~torn, ~stray
       PROVE  /\ applied' = BranchOf(b)
              /\ \A m \in 1..Depth(b) : Ancestor(b, m) \notin failing
  <2>1. Ancestor(b, c) = Ancestor(head, c) /\ kept = BranchOf(Ancestor(b, c))
    BY <1>3, <1>10, RevokeToFork
  <2>2. Depth(b) - c \in 0..(Depth(b) - c) /\ c + (Depth(b) - c) = Depth(b)
    BY <1>3
  <2>3. BranchOf(Ancestor(b, c)) \o SubSeq(new, 1, Depth(b) - c) = BranchOf(Ancestor(b, Depth(b)))
    BY <1>3, <2>2, BranchJoin
  <2>4. SubSeq(new, 1, Depth(b) - c) = new
    <3>1. Len(new) = Depth(b) - c
      BY <1>3, AboveFacts
    <3>2. SubSeq(new, 1, Len(new)) = new
      BY <1>6, SubSeqFull
    <3>3. QED
      BY <3>1, <3>2
  <2>5. b \in Seq(Labels) /\ Depth(b) = Len(b)
    BY <1>3, NodeType DEF Depth
  <2>6. Ancestor(b, Depth(b)) = b
    BY <1>3, <2>5, AncestorFacts
  <2>7. applied' = BranchOf(b)
    BY <1>1, <1>4, <2>1, <2>3, <2>4, <2>6
  <2>8. \A i \in 1..(Depth(b) - c) : Ancestor(b, c + i) \notin failing
    <3>1. AppliesFirst(Depth(b) - c, Above(b, c), BranchOf(Ancestor(b, c)))
      BY <1>1, <2>1, Zenon
    <3>2. QED
      BY <1>3, <2>2, <3>1, AppliesOnOwnBranch
  <2>9. ASSUME NEW m \in 1..Depth(b) PROVE Ancestor(b, m) \notin failing
    <3>1. CASE m <= c
      <4>1. m \in 1..Depth(head) /\ m \in 0..c /\ c \in 0..Len(b) /\ c \in 0..Len(head)
        BY <1>3, <2>5, <3>1 DEF Depth
      <4>2. Ancestor(b, m) = Ancestor(head, m)
        BY <1>3, <2>1, <2>5, <4>1, AncestorFacts, NodeType
      <4>3. QED
        BY <1>10, <4>1, <4>2 DEF IInv, BranchExecutes
    <3>2. CASE m > c
      <4>1. m - c \in 1..(Depth(b) - c) /\ c + (m - c) = m
        BY <1>3, <3>2
      <4>2. QED
        BY <2>8, <4>1
    <3>3. QED
      BY <1>3, <3>1, <3>2
  <2>10. QED
    BY <2>7, <2>9
<1>11. AlignedUnlessTorn' /\ BranchExecutes'
  BY <1>1, <1>2, <1>10 DEF IInv, AlignedUnlessTorn, BranchExecutes
<1>12. QED
  BY <1>8, <1>9, <1>11 DEF IInv

\* A switch that fails at its first block restores the old branch entirely:
\* each of its blocks executed on its own branch before and does so again.
LEMMA SwitchForkFailsIInv ==
    ASSUME IInv, NEW b \in Blocks, Switches(b), NEW c \in SwitchDepths(b),
           NEW j \in 0..(Depth(b) - c - 1), NEW r \in 0..(Depth(head) - c),
           SwitchForkFails(b, c, j, r), Frame(b)
    PROVE  /\ IInv'
           /\ head' = head
           /\ torn' \/ stray' \/ (sessions' = sessions /\ applied' = applied)
<1> DEFINE n == Depth(head) - c
           kept == Without(sessions, n)
           new == SubSeq(Above(b, c), 1, j)
           old == SubSeq(Above(head, c), 1, r)
<1>0. j \in Nat /\ r \in Nat
  BY NodeType DEF IInv, TypeOK, Nodes
<1>1. /\ Overtakes(b) /\ Reject(b) /\ failing' = failing /\ gapped' = (gapped \/ LinksGap(b))
      /\ n <= Len(applied) /\ Linked(b)
      /\ AppliesFirst(r, Above(head, c), kept \o new)
      /\ sessions' = kept \o new \o old
      /\ applied' = Without(applied, n) \o new \o old
      /\ torn' = (torn \/ j > 0)
  BY DEF SwitchForkFails, Switches, Overtakes, Frame
<1>2. head' = head /\ head \in tree' /\ tree' \subseteq tree /\ result' = "failed" /\ stray' = stray
  BY <1>1, RejectHead, SwitchDepthFacts
<1>3. b \in Nodes /\ head \in Nodes /\ Depth(b) \in Nat /\ Depth(head) \in Nat
      /\ c \in 0..Depth(b) /\ c \in 0..Depth(head) /\ Ancestor(b, c) = Ancestor(head, c)
  BY SwitchDepthFacts, NodeType DEF IInv, TypeOK, Nodes
<1>4. sessions = applied /\ sessions \in Seq(Blocks) /\ Len(sessions) \in Nat
      /\ torn \in BOOLEAN /\ stray \in BOOLEAN /\ gapped \in BOOLEAN
  BY LenProperties DEF IInv, AppliedNamesSessions, TypeOK
<1>5. kept \in Seq(Blocks)
  BY <1>3, <1>4, PrefixType DEF Without
<1>6. new \in Seq(Blocks) /\ old \in Seq(Blocks)
  <2>1. Above(b, c) \in Seq(Blocks) /\ Len(Above(b, c)) = Depth(b) - c
    BY <1>3, AboveFacts
  <2>2. Above(head, c) \in Seq(Blocks) /\ Len(Above(head, c)) = Depth(head) - c
    BY <1>3, AboveFacts
  <2>3. QED
    BY <1>0, <1>3, <2>1, <2>2, PrefixType, SMTT(40)
<1>7. sessions' \in Seq(Blocks) /\ applied' = sessions'
  <2> HIDE DEF kept, new, old
  <2>1. kept \o new \o old \in Seq(Blocks)
    BY <1>5, <1>6, ConcatProperties
  <2>2. QED
    BY <1>1, <1>4, <2>1 DEF kept
<1>8. TypeOK' /\ HeadIsHighest' /\ AppliedNamesSessions' /\ TreeRegular'
  <2>1. torn' \in BOOLEAN /\ gapped' \in BOOLEAN
    BY <1>1, <1>4
  <2>2. TypeOK' /\ HeadIsHighest' /\ AppliedNamesSessions'
    BY <1>1, <1>2, <1>4, <1>7, <2>1 DEF IInv, TypeOK, Results, HeadIsHighest, AppliedNamesSessions
  <2>3. TreeRegular'
    BY <1>1, <1>2, StaysRegular DEF Overtakes
  <2>4. QED
    BY <2>2, <2>3
<1>9. ASSUME ~torn', ~stray' PROVE sessions' = BranchOf(head)
  <2>1. ~torn /\ ~stray /\ j = 0
    <3>1. ~torn /\ ~(j > 0)
      BY <1>1, <1>9, Zenon
    <3>2. QED
      BY <1>0, <1>2, <1>9, <3>1
  <2>2. kept = BranchOf(Ancestor(head, c))
    BY <1>3, <2>1, RevokeToFork
  <2>3. new = <<>>
    BY <2>1
  <2>4. kept \o new = kept
    <3> HIDE DEF kept, new
    <3> QED
      BY <1>5, <2>3, ConcatEmptySeq
  <2>5. r \in 0..(Depth(head) - c)
    OBVIOUS
  <2>6. r < Depth(head) - c => Ancestor(head, c + r + 1) \in failing
    <3>1. AppliesFirst(r, Above(head, c), BranchOf(Ancestor(head, c)))
      <4> HIDE DEF kept, new, old
      <4> QED
        BY <1>1, <2>2, <2>4, Zenon
    <3>2. QED
      BY <1>3, <2>5, <3>1, AppliesOnOwnBranch
  <2>7. r = Depth(head) - c
    <3>1. \A m \in 1..Depth(head) : Ancestor(head, m) \notin failing
      BY <2>1 DEF IInv, BranchExecutes
    <3>2. QED
      BY <1>3, <2>5, <2>6, <3>1
  <2>8. kept \o old = BranchOf(Ancestor(head, c + r))
    BY <1>3, <2>2, <2>5, BranchJoin
  <2>9. Ancestor(head, c + r) = head
    <3>1. head \in Seq(Labels) /\ c + r = Len(head) /\ Len(head) \in 0..Len(head)
      BY <1>3, <2>7, NodeType DEF Depth
    <3>2. QED
      BY <3>1, AncestorFacts
  <2>10. QED
    BY <1>1, <2>4, <2>8, <2>9
<1>10. AlignedUnlessTorn' /\ BranchExecutes'
  BY <1>1, <1>2, <1>7, <1>9 DEF IInv, AlignedUnlessTorn, BranchExecutes
<1>11. torn' \/ stray' \/ (sessions' = sessions /\ applied' = applied)
  BY <1>1, <1>2, <1>4, <1>7, <1>9 DEF IInv, AlignedUnlessTorn
<1>12. QED
  BY <1>2, <1>8, <1>10, <1>11 DEF IInv

\* The applied blocks of an aligned pipeline are as many as the head is deep,
\* so there is always one to take off: only a torn or stray one panics.
LEMMA SwitchForkPanicsIInv ==
    ASSUME IInv, NEW b \in Blocks, Switches(b), NEW c \in SwitchDepths(b),
           SwitchForkPanics(b, c), Frame(b)
    PROVE  IInv' /\ (torn' \/ stray')
<1>1. /\ Overtakes(b) /\ Linked(b) /\ Depth(head) - c > Len(applied) /\ torn' = torn /\ stray' = stray
      /\ sessions' = <<>> /\ applied' = <<>> /\ tree' = TreeWith(b) /\ head' = b
      /\ result' = "panic" /\ failing' = failing /\ gapped' = (gapped \/ LinksGap(b))
  BY DEF SwitchForkPanics, Switches, Overtakes, Frame
<1>2. head \in Nodes /\ Depth(head) \in Nat /\ c \in 0..Depth(head)
  BY NodeType, SwitchDepthFacts DEF IInv, TypeOK
<1>3. torn \/ stray
  <2> SUFFICES ASSUME ~torn, ~stray PROVE FALSE
    OBVIOUS
  <2>1. Len(applied) = Depth(head)
    <3>1. 0 \in 0..Depth(head)
      BY <1>2
    <3>2. Len(BranchOf(head)) = Depth(head) - 0
      BY <1>2, <3>1, AboveFacts DEF BranchOf
    <3>3. QED
      BY <1>2, <3>2 DEF IInv, AlignedUnlessTorn
  <2>2. QED
    BY <1>1, <1>2, <2>1
<1>4. /\ tree' \subseteq tree \cup {b} /\ b \in tree' /\ tree' \subseteq Nodes
      /\ \A x \in tree' : Num(x) <= Num(b)
  BY <1>1, TreeWithFacts
<1>5. TypeOK' /\ HeadIsHighest' /\ AppliedNamesSessions'
  BY <1>1, <1>4, RootFacts DEF IInv, TypeOK, Results, HeadIsHighest, AppliedNamesSessions
<1>6. TreeRegular'
  BY <1>1, <1>4, StaysRegular
<1>7. AlignedUnlessTorn' /\ BranchExecutes'
  BY <1>1, <1>3 DEF IInv, AlignedUnlessTorn, BranchExecutes
<1>8. QED
  BY <1>1, <1>3, <1>5, <1>6, <1>7 DEF IInv

\* A restart forgets everything, and so starts aligned again.
LEMMA RestartIInv ==
    ASSUME IInv, Restart
    PROVE  IInv'
<1>1. /\ tree' = {<<>>} /\ head' = <<>> /\ sessions' = <<>> /\ applied' = <<>>
      /\ failing' = failing /\ result' = "nil" /\ torn' = FALSE
      /\ stray' = FALSE /\ gapped' = FALSE
  BY DEF Restart, Root
<1>2. TypeOK'
  BY <1>1, RootFacts DEF IInv, TypeOK, Results
<1>3. AppliedNamesSessions' /\ AlignedUnlessTorn'
  BY <1>1, RootFacts DEF AppliedNamesSessions, AlignedUnlessTorn
<1>4. HeadIsHighest' /\ BranchExecutes' /\ TreeRegular'
  BY <1>1, RootFacts DEF HeadIsHighest, BranchExecutes, TreeRegular
<1>5. QED
  BY <1>2, <1>3, <1>4 DEF IInv

(* What FailedPushUndone says of a step.                                   *)
Undone ==
    result' = "failed" =>
       /\ \/ head' = head
          \/ stray' /\ sessions' = sessions /\ applied' = applied
       /\ torn' \/ stray' \/ (sessions' = sessions /\ applied' = applied)

\* What a push does besides preserving the invariant: how it may move the
\* head, what a failed one leaves, and when it may panic.
StepGuarantee ==
    /\ head' = head \/ Num(head') > Num(head)
    /\ Undone
    /\ result' = "panic" => torn' \/ stray'

\* Every way a push ends preserves the invariant and meets the guarantee.
LEMMA PushIInv ==
    ASSUME IInv, NEW b \in Blocks, PushBlock(b) \/ PushCorrupt(b)
    PROVE  IInv' /\ StepGuarantee
<1>1. CASE PushDuplicate(b) \/ PushUnlinked(b) \/ PushBadRoot(b)
  <2>1. /\ UNCHANGED <<tree, head, sessions, applied, torn, stray>>
        /\ result' \in {"nil", "refused"}
    BY <1>1 DEF PushDuplicate, PushUnlinked, PushBadRoot
  <2>2. failing' = failing /\ gapped' \in BOOLEAN /\ (gapped => gapped')
    <3>1. gapped \in BOOLEAN
      BY DEF IInv, TypeOK
    <3>2. CASE PushBlock(b)
      BY <3>1, <3>2 DEF PushBlock
    <3>3. CASE PushCorrupt(b)
      BY <3>1, <3>3 DEF PushCorrupt
    <3>4. QED
      BY <3>2, <3>3
  <2>3. QED
    BY <2>1, <2>2, RefusedIInv DEF Results, StepGuarantee, Undone
<1>2. ASSUME Frame(b), PushSide(b) PROVE IInv' /\ StepGuarantee
  BY <1>2, PushSideIInv DEF PushSide, StepGuarantee, Undone
<1>3. ASSUME Frame(b), ApplyOnTop(b) PROVE IInv' /\ StepGuarantee
  <2>1. Overtakes(b) /\ Adopt(b)
    BY <1>3 DEF ApplyOnTop
  <2>2. StepGuarantee
    BY <2>1 DEF Overtakes, Advances, Adopt, StepGuarantee, Undone
  <2>3. QED
    BY <1>3, <2>2, ApplyOnTopIInv
<1>4. ASSUME Frame(b), ApplyOnTopFails(b) PROVE IInv' /\ StepGuarantee
  <2>1. result' = "failed" /\ UNCHANGED <<sessions, applied, torn>>
    BY <1>4 DEF ApplyOnTopFails, Reject
  <2>2. QED
    BY <1>4, <2>1, ApplyOnTopFailsIInv DEF StepGuarantee, Undone
<1>5. ASSUME Frame(b), SwitchForkLost(b) PROVE IInv' /\ StepGuarantee
  <2>1. result' = "failed" /\ stray' /\ UNCHANGED <<sessions, applied, torn>>
    BY <1>5 DEF SwitchForkLost
  <2>2. QED
    BY <1>5, <2>1, SwitchForkLostIInv DEF StepGuarantee, Undone
<1>6. ASSUME Frame(b), Switches(b), NEW c \in SwitchDepths(b), SwitchFork(b, c)
      PROVE  IInv' /\ StepGuarantee
  <2>1. Overtakes(b) /\ Adopt(b)
    BY <1>6 DEF SwitchFork, Switches
  <2>2. StepGuarantee
    BY <2>1 DEF Overtakes, Advances, Adopt, StepGuarantee, Undone
  <2>3. QED
    BY <1>6, <2>2, SwitchForkIInv
<1>7. ASSUME Frame(b), Switches(b), NEW c \in SwitchDepths(b),
             NEW j \in 0..(Depth(b) - c - 1), NEW r \in 0..(Depth(head) - c),
             SwitchForkFails(b, c, j, r)
      PROVE  IInv' /\ StepGuarantee
  <2>1. result' = "failed"
    BY <1>7 DEF SwitchForkFails, Reject
  <2>2. QED
    BY <1>7, <2>1, SwitchForkFailsIInv DEF StepGuarantee, Undone
<1>8. ASSUME Frame(b), Switches(b), NEW c \in SwitchDepths(b), SwitchForkPanics(b, c)
      PROVE  IInv' /\ StepGuarantee
  <2>1. Overtakes(b) /\ head' = b /\ result' = "panic"
    BY <1>8 DEF SwitchForkPanics, Switches
  <2>2. Num(head') > Num(head)
    BY <2>1 DEF Overtakes, Advances
  <2>3. QED
    BY <1>8, <2>1, <2>2, SwitchForkPanicsIInv DEF StepGuarantee, Undone
<1>9. QED
  BY <1>1, <1>2, <1>3, <1>4, <1>5, <1>6, <1>7, <1>8 DEF PushBlock, PushCorrupt, Frame

\* The inductive step.
LEMMA NextIInv == IInv /\ [Next]_vars => IInv'
<1> SUFFICES ASSUME IInv, [Next]_vars PROVE IInv'
  OBVIOUS
<1>1. ASSUME NEW b \in Blocks, PushBlock(b) \/ PushCorrupt(b) PROVE IInv'
  BY <1>1, PushIInv
<1>2. CASE UNCHANGED vars
  BY <1>2 DEF vars, IInv, TypeOK, AppliedNamesSessions, HeadIsHighest,
              AlignedUnlessTorn, BranchExecutes, TreeRegular
<1>3. QED
  BY <1>1, <1>2, RestartIInv DEF Next

-----------------------------------------------------------------------------
(* The theorems.                                                           *)

\* Every reachable state satisfies the inductive invariant.
THEOREM IInvHolds == Spec => []IInv
BY InitIInv, NextIInv, PTL DEF Spec

\* The state of the pipeline is well formed.
THEOREM TypeCorrect == Spec => []TypeOK
<1>1. IInv => TypeOK
  BY DEF IInv
<1>2. QED
  BY <1>1, IInvHolds, PTL

\* m.applied names the open sessions on every path, failing ones included.
THEOREM AppliedMatchesSessions == Spec => []AppliedNamesSessions
<1>1. IInv => AppliedNamesSessions
  BY DEF IInv
<1>2. QED
  BY <1>1, IInvHolds, PTL

\* The head is a highest retained block, whatever was rejected or pruned.
THEOREM HeadHighest == Spec => []HeadIsHighest
<1>1. IInv => HeadIsHighest
  BY DEF IInv
<1>2. QED
  BY <1>1, IInvHolds, PTL

\* The applied blocks are the head's branch until a switch tears or a push
\* strays: a switch that fails at its first block is undone completely, because
\* the blocks of the old branch executed there before.  No push strays while
\* every block is numbered one above its parent, because GetBranch then finds
\* an ancestor and the old head is never pruned.
THEOREM Aligned == Spec => []AlignedUnlessTorn
<1>1. IInv => AlignedUnlessTorn
  BY DEF IInv
<1>2. QED
  BY <1>1, IInvHolds, PTL

\* The head moves to a strictly higher block, or back to the root.
THEOREM HeadClimbs == Spec => HeadOnlyClimbs
<1>1. IInv /\ [Next]_vars => [head' = head \/ Num(head') > Num(head) \/ head' = Root]_vars
  <2> SUFFICES ASSUME IInv, Next
               PROVE  head' = head \/ Num(head') > Num(head) \/ head' = Root
    BY DEF vars
  <2>1. ASSUME NEW b \in Blocks, PushBlock(b) \/ PushCorrupt(b)
        PROVE  head' = head \/ Num(head') > Num(head)
    BY <2>1, PushIInv DEF StepGuarantee
  <2>2. QED
    BY <2>1 DEF Next, Restart
<1>2. QED
  BY <1>1, IInvHolds, PTL DEF Spec, HeadOnlyClimbs

\* A failed push leaves the head or, if it strays, the sessions, and both when
\* nothing is torn or astray.
THEOREM FailureUndone == Spec => FailedPushUndone
<1>1. IInv /\ [Next]_vars => [Undone]_vars
  <2> SUFFICES ASSUME IInv, Next PROVE Undone
    BY DEF vars
  <2>1. ASSUME NEW b \in Blocks, PushBlock(b) \/ PushCorrupt(b) PROVE Undone
    BY <2>1, PushIInv DEF StepGuarantee
  <2>2. CASE Restart
    BY <2>2 DEF Restart, Undone
  <2>3. QED
    BY <2>1, <2>2 DEF Next
<1>2. QED
  BY <1>1, IInvHolds, PTL DEF Spec, FailedPushUndone, Undone

\* Only a torn or stray pipeline can run out of sessions to revoke.
THEOREM NoPanic == Spec => []PanicOnlyTorn
<1>1. Init => PanicOnlyTorn
  BY DEF Init, PanicOnlyTorn
<1>2. IInv /\ PanicOnlyTorn /\ [Next]_vars => PanicOnlyTorn'
  <2> SUFFICES ASSUME IInv, PanicOnlyTorn, [Next]_vars PROVE PanicOnlyTorn'
    OBVIOUS
  <2>1. ASSUME NEW b \in Blocks, PushBlock(b) \/ PushCorrupt(b) PROVE PanicOnlyTorn'
    BY <2>1, PushIInv DEF StepGuarantee, PanicOnlyTorn
  <2>2. CASE Restart
    BY <2>2 DEF Restart, PanicOnlyTorn
  <2>3. CASE UNCHANGED vars
    BY <2>3 DEF vars, PanicOnlyTorn
  <2>4. QED
    BY <2>1, <2>2, <2>3 DEF Next
<1>3. QED
  BY <1>1, <1>2, IInvHolds, PTL DEF Spec

-----------------------------------------------------------------------------
(* The fork window.  ForkWindowKept speaks of the head's branch, but a side *)
(* branch may become it: the inductive form says it of every retained block.*)

InWindow(n, h) == MaxSize = 0 \/ n + MaxSize > Depth(h)

WindowClosed ==
    ~gapped => \A x \in tree : \A n \in 0..Depth(x) : InWindow(n, head) => Ancestor(x, n) \in tree

\* The ancestors of a linked block in the head's window are retained, but for
\* the block itself.
LEMMA LinkedWindow ==
    ASSUME IInv, WindowClosed, ~gapped, NEW b \in Blocks, Linked(b),
           NEW n \in 0..Depth(b), n # Depth(b), InWindow(n, head)
    PROVE  Ancestor(b, n) \in tree
<1>1. n \in 0..(Depth(b) - 1) /\ n \in 0..Depth(Parent(b))
  BY ParentFacts
<1>2. Ancestor(Parent(b), n) = Ancestor(b, n)
  BY <1>1, ParentFacts
<1>3. QED
  BY <1>1, <1>2 DEF Linked, WindowClosed

\* What pruning for a block b just above the head keeps.
LEMMA PrunedKeeps ==
    ASSUME IInv, NEW b \in Blocks, Overtakes(b), Frame(b), ~gapped',
           NEW y \in tree \cup {b}, InWindow(Depth(y), head)
    PROVE  y \in TreeWith(b)
<1>1. /\ ~gapped /\ Depth(b) = Depth(head) + 1 /\ Num(Root) \in Int
      /\ \A n \in 0..Depth(b) : Num(Ancestor(b, n)) = Num(Root) + n
  BY OvertakesByOne, RootFacts
<1>2. y \in Nodes /\ Depth(y) \in Nat /\ Depth(head) \in Nat
  BY NodeType DEF IInv, TypeOK, Nodes
<1>3. Ancestor(y, Depth(y)) = y /\ Depth(y) \in 0..Depth(y) /\ Depth(b) \in 0..Depth(b)
  BY <1>2, NodeType, AncestorFacts, ParentFacts DEF Depth
<1>4. Num(y) = Num(Root) + Depth(y) /\ Num(b) = Num(Root) + Depth(b)
  <2>1. Num(b) = Num(Root) + Depth(b)
    BY <1>1, <1>3, ParentFacts
  <2>2. CASE y \in tree
    BY <1>1, <1>3, <2>1, <2>2 DEF IInv, TreeRegular
  <2>3. QED
    BY <2>1, <2>2
<1>5. MaxSize = 0 \/ Num(y) + MaxSize >= Num(b)
  <2> DEFINE t == Num(Root)
  <2>1. t \in Int /\ Num(y) = t + Depth(y) /\ Num(b) = t + Depth(b)
    BY <1>1, <1>4
  <2> HIDE DEF t
  <2>2. QED
    BY <1>1, <1>2, <2>1, MaxSizeAssumption DEF InWindow
<1>6. QED
  BY <1>5 DEF TreeWith, Pruned

\* An ancestor in the window of an old block or of the new one survives.
LEMMA TreeWithWindow ==
    ASSUME IInv, WindowClosed, NEW b \in Blocks, Overtakes(b), Frame(b), ~gapped',
           NEW x \in tree \cup {b}, NEW n \in 0..Depth(x), InWindow(n, head)
    PROVE  Ancestor(x, n) \in TreeWith(b)
<1>1. x \in Nodes /\ x \in Seq(Labels) /\ Depth(x) \in Nat /\ Depth(x) = Len(x) /\ ~gapped
  BY NodeType, OvertakesByOne DEF IInv, TypeOK, Nodes, Depth
<1>2. Depth(Ancestor(x, n)) = n /\ Ancestor(x, Depth(x)) = x
  BY <1>1, AncestorFacts
<1>3. Ancestor(x, n) \in tree \cup {b}
  <2>1. CASE x \in tree
    BY <1>1, <2>1 DEF WindowClosed
  <2>2. CASE x = b /\ n # Depth(x)
    BY <1>1, <2>2, LinkedWindow DEF Overtakes
  <2>3. CASE x = b /\ n = Depth(x)
    BY <1>2, <2>3
  <2>4. QED
    BY <2>1, <2>2, <2>3
<1>4. QED
  BY <1>2, <1>3, PrunedKeeps

\* The window of a new head lies within the old one.
LEMMA AdoptWindow ==
    ASSUME IInv, WindowClosed, NEW b \in Blocks, Overtakes(b), Frame(b),
           tree' = TreeWith(b), head' = b
    PROVE  WindowClosed'
<1> SUFFICES ASSUME ~gapped', NEW x \in TreeWith(b), NEW n \in 0..Depth(x), InWindow(n, b)
             PROVE  Ancestor(x, n) \in TreeWith(b)
  BY DEF WindowClosed, InWindow
<1>1. Depth(b) = Depth(head) + 1 /\ Depth(head) \in Nat /\ x \in tree \cup {b}
  BY OvertakesByOne, TreeWithFacts, NodeType DEF IInv, TypeOK
<1>2. x \in Nodes /\ Depth(x) \in Nat
  BY <1>1, NodeType DEF IInv, TypeOK, Nodes
<1>3. InWindow(n, head)
  BY <1>1, <1>2, MaxSizeAssumption DEF InWindow
<1>4. QED
  BY <1>1, <1>3, TreeWithWindow

\* A rejected tip has pruned for its own height, one block of the window at
\* most below what the old head allows.
LEMMA RejectWindow ==
    ASSUME IInv, WindowClosed, NEW b \in Blocks, Overtakes(b), Frame(b), Reject(b)
    PROVE  WindowClosed'
<1> SUFFICES ASSUME ~gapped' PROVE WindowClosed'
  BY DEF WindowClosed
<1>1. head' = head /\ tree' = TreeWith(b) \ {b} /\ TreeWith(b) \subseteq tree \cup {b} /\ ~gapped
  BY OvertakesByOne, TreeWithFacts DEF Reject, RejectTip
<1>2. b \notin tree
  BY DEF Overtakes
<1> SUFFICES ASSUME NEW x \in tree', NEW n \in 0..Depth(x), InWindow(n, head)
             PROVE  Ancestor(x, n) \in tree'
  BY <1>1 DEF WindowClosed, InWindow
<1>3. x \in tree
  BY <1>1
<1>4. Ancestor(x, n) \in TreeWith(b) /\ Ancestor(x, n) \in tree
  BY <1>1, <1>3, TreeWithWindow DEF WindowClosed
<1>5. QED
  BY <1>1, <1>2, <1>4

\* Every step keeps the window closed.
LEMMA NextWindow == IInv /\ WindowClosed /\ [Next]_vars => WindowClosed'
<1> SUFFICES ASSUME IInv, WindowClosed, [Next]_vars PROVE WindowClosed'
  OBVIOUS
<1>1. CASE UNCHANGED vars
  BY <1>1 DEF vars, WindowClosed, InWindow
<1>2. CASE Restart
  BY <1>2, RootFacts DEF Restart, WindowClosed
<1>3. ASSUME NEW b \in Blocks, PushBlock(b) \/ PushCorrupt(b) PROVE WindowClosed'
  <2>1. ASSUME UNCHANGED <<tree, head>>, gapped => gapped' PROVE WindowClosed'
    BY <2>1 DEF WindowClosed, InWindow
  <2>2. ASSUME PushSide(b), Frame(b) PROVE WindowClosed'
    <3> SUFFICES ASSUME ~gapped' PROVE WindowClosed'
      BY DEF WindowClosed
    <3>1. tree' = tree \cup {b} /\ head' = head /\ Linked(b) /\ ~gapped
      BY <2>2 DEF PushSide, Frame
    <3>2. ASSUME NEW n \in 0..Depth(b), InWindow(n, head) PROVE Ancestor(b, n) \in tree'
      <4>1. CASE n = Depth(b)
        BY <3>1, <4>1, ParentFacts
      <4>2. CASE n # Depth(b)
        BY <3>1, <3>2, <4>2, LinkedWindow
      <4>3. QED
        BY <4>1, <4>2
    <3>3. QED
      BY <3>1, <3>2 DEF WindowClosed, InWindow
  <2>3. ASSUME Overtakes(b), tree' = TreeWith(b), head' = b, Frame(b) PROVE WindowClosed'
    BY <2>3, AdoptWindow
  <2>4. ASSUME Overtakes(b), Reject(b), Frame(b) PROVE WindowClosed'
    BY <2>4, RejectWindow
  <2>5. gapped => gapped'
    BY <1>3 DEF PushBlock, PushCorrupt
  <2>6. CASE PushCorrupt(b)
    BY <2>1, <2>5, <2>6 DEF PushCorrupt, PushDuplicate, PushBadRoot
  <2>7. CASE PushBlock(b)
    <3>1. Frame(b)
      BY <2>7 DEF PushBlock, Frame
    <3>2. CASE PushDuplicate(b) \/ PushUnlinked(b)
      BY <2>1, <2>5, <3>2 DEF PushDuplicate, PushUnlinked
    <3>3. CASE ApplyOnTop(b) \/ ApplyOnTopFails(b)
      BY <2>3, <2>4, <3>1, <3>3 DEF ApplyOnTop, ApplyOnTopFails, Adopt
    <3>4. CASE SwitchForkLost(b)
      BY <2>3, <3>1, <3>4 DEF SwitchForkLost, Switches
    <3>5. ASSUME Switches(b), NEW c \in SwitchDepths(b), SwitchFork(b, c) \/ SwitchForkPanics(b, c)
          PROVE  WindowClosed'
      BY <2>3, <3>1, <3>5 DEF SwitchFork, SwitchForkPanics, Switches, Adopt
    <3>6. ASSUME Switches(b), NEW c, NEW j, NEW r, SwitchForkFails(b, c, j, r) PROVE WindowClosed'
      BY <2>4, <3>1, <3>6 DEF SwitchForkFails, Switches
    <3>7. QED
      BY <2>2, <2>7, <3>1, <3>2, <3>3, <3>4, <3>5, <3>6 DEF PushBlock
  <2>8. QED
    BY <1>3, <2>6, <2>7
<1>4. QED
  BY <1>1, <1>2, <1>3 DEF Next

\* While every block is numbered one above its parent, the head's branch is
\* retained down to the fork window for every block tree and every span,
\* whatever was rejected after it had pruned.
THEOREM WindowKept == Spec => []ForkWindowKept
<1>1. Init => WindowClosed
  BY RootFacts DEF Init, Start, WindowClosed
<1>2. IInv /\ WindowClosed => ForkWindowKept
  BY DEF IInv, TypeOK, WindowClosed, InWindow, ForkWindowKept
<1>3. QED
  BY <1>1, <1>2, NextWindow, IInvHolds, PTL DEF Spec

\* For every block tree, whatever its numbers, every span and whatever was
\* pruned, GetBranch finds the last common ancestor of any two retained blocks
\* whose branches are numbered consecutively above it (khaos.go 137-167).
THEOREM ForkFound == Spec => []GetBranchFindsFork
<1>1. IInv => GetBranchFindsFork
  <2> SUFFICES ASSUME IInv, NEW a \in tree, NEW b \in tree, NEW c \in 0..Depth(a),
                      IsForkPoint(c, a, b), Consecutive(a, c), Consecutive(b, c)
               PROVE  /\ ~NoCommonAncestor(tree, a, b)
                      /\ \A twice \in SUBSET (Repushable \ {Ancestor(a, c)}) :
                            \A n \in 0..Depth(a) : GetBranch(n, a, b, twice) <=> n = c
    BY DEF GetBranchFindsFork
  <2>1. a \in Nodes /\ b \in Nodes /\ Depth(a) \in Nat /\ Depth(b) \in Nat
    BY NodeType DEF IInv, TypeOK
  <2>2. c <= Depth(b) /\ Ancestor(a, c) = Ancestor(b, c)
    BY DEF IsForkPoint
  <2>3. PICK d \in c..Depth(a) :
           /\ d <= Depth(b)
           /\ LockStepFrom(d, a, b)
           /\ \A e \in 0..Depth(a) : LockStepFrom(e, a, b) => e = d
    BY <2>1, <2>2, LockStepStart
  <2>4. ~NoCommonAncestor(tree, a, b)
    BY <2>1, <2>3 DEF NoCommonAncestor
  <2>5. ASSUME NEW e \in (c + 1)..d PROVE Ancestor(a, e) # Ancestor(b, e)
    <3> SUFFICES ASSUME Ancestor(a, e) = Ancestor(b, e) PROVE FALSE
      OBVIOUS
    <3>1. e \in c..Depth(a) /\ e <= Depth(b) /\ e # c
      BY <2>1, <2>3
    <3>2. QED
      BY <2>1, <3>1, ForkHighest
  <2>6. ASSUME NEW twice \in SUBSET (Repushable \ {Ancestor(a, c)}), NEW n \in 0..Depth(a)
        PROVE  GetBranch(n, a, b, twice) <=> n = c
    <3>1. SameNode(c, a, b, twice)
      BY <2>2 DEF SameNode
    <3>2. GetBranch(c, a, b, twice)
      BY <2>3, <2>5, <3>1 DEF GetBranch, SameNode
    <3>3. ASSUME GetBranch(n, a, b, twice) PROVE n = c
      <4>1. PICK m \in n..Depth(a) :
               /\ LockStepFrom(m, a, b)
               /\ SameNode(n, a, b, twice)
               /\ \A e \in (n + 1)..m : ~SameNode(e, a, b, twice)
        BY <3>3 DEF GetBranch
      <4>2. m = d
        BY <2>1, <2>3, <4>1
      <4>3. ~(n < c)
        <5> SUFFICES ASSUME n < c PROVE FALSE
          OBVIOUS
        <5>1. c \in (n + 1)..m
          BY <2>1, <2>3, <4>2
        <5>2. QED
          BY <3>1, <4>1, <5>1
      <4>4. ~(n > c)
        <5> SUFFICES ASSUME n > c PROVE FALSE
          OBVIOUS
        <5>1. n \in (c + 1)..d
          BY <2>1, <2>3, <4>1, <4>2
        <5>2. QED
          BY <2>5, <4>1, <5>1 DEF SameNode
      <4>5. QED
        BY <2>1, <4>3, <4>4
    <3>4. QED
      BY <3>2, <3>3
  <2>7. QED
    BY <2>4, <2>6
<1>2. QED
  BY <1>1, IInvHolds, PTL

=============================================================================
