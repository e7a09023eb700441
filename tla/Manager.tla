------------------------------ MODULE Manager ------------------------------
(***************************************************************************)
(* node.Manager: the block pipeline over the fork tree and the revoking    *)
(* database.  Blocks arrive in any order, any number of times, with a      *)
(* right or a wrong body; each may or may not execute.                     *)
(*                                                                         *)
(* Executing a block is abstracted to its outcome.  State is a function of *)
(* the committed base and of the open sessions, so a block executed on its *)
(* own branch always ends the same way; executed on any other state it may *)
(* end either way.  failing holds the blocks that do not execute on their  *)
(* own branch, the first of each branch: what follows one never runs there.*)
(***************************************************************************)
EXTENDS KhaosDB

CONSTANT
    MaxApplied  \* bound on what failed switches may pile up in m.applied

ASSUME MaxAppliedAssumption == MaxApplied \in Nat

VARIABLES
    sessions,   \* the db sessions, each named by the block that wrote it
    applied,    \* m.applied
    failing,    \* the blocks whose processBlock fails on their own branch
    result,     \* how the last PushBlock ended
    torn,       \* a fork switch failed after applying some new block (auxiliary)
    stray,      \* a push failed and left its tip as the head (auxiliary)
    gapped      \* a block not numbered one above its parent was linked (auxiliary)

vars == <<tree, head, sessions, applied, failing, result, torn, stray, gapped>>

\* PushBlock returned nil; an error before it touched the tree; an error from
\* executing a block; or never returned.
Results == {"nil", "refused", "failed", "panic"}

Running == result # "panic"

-----------------------------------------------------------------------------
(* processBlock on the state the sessions in s make.                       *)

OnOwnBranch(b, s) == s = BranchOf(Parent(b))

MayExecute(b, s) == OnOwnBranch(b, s) => b \notin failing

MayFail(b, s) == OnOwnBranch(b, s) => b \in failing

\* Blocks of path applied one by one on s: the first n execute, and if n is
\* not all of them the next one fails.
AppliesFirst(n, path, s) ==
    /\ \A i \in 1..n : MayExecute(path[i], s \o SubSeq(path, 1, i - 1))
    /\ n < Len(path) => MayFail(path[n + 1], s \o SubSeq(path, 1, n))

-----------------------------------------------------------------------------

Init ==
    /\ Start
    /\ sessions = <<>>
    /\ applied = <<>>
    /\ failing \in {f \in SUBSET Blocks :
                     \A b \in f : \A n \in 1..(Depth(b) - 1) : Ancestor(b, n) \notin f}
    /\ result = "nil"
    /\ torn = FALSE
    /\ stray = FALSE
    /\ gapped = FALSE

\* PushBlock of a block the tree holds.
PushDuplicate(b) ==
    /\ b \in tree
    /\ result' = "nil"
    /\ UNCHANGED <<tree, head, sessions, applied, torn, stray>>

\* validateBlock: the body does not hash to the header's txTrieRoot.
PushBadRoot(b) ==
    /\ b \notin tree
    /\ result' = "refused"
    /\ UNCHANGED <<tree, head, sessions, applied, torn, stray>>

PushUnlinked(b) ==
    /\ b \notin tree
    /\ ~Linked(b)
    /\ result' = "refused"
    /\ UNCHANGED <<tree, head, sessions, applied, torn, stray>>

\* A branch that does not overtake the head is stored, state untouched.
PushSide(b) ==
    /\ b \notin tree
    /\ Linked(b)
    /\ ~Advances(b)
    /\ tree' = tree \cup {b}
    /\ result' = "nil"
    /\ UNCHANGED <<head, sessions, applied, torn, stray>>

\* khaos.Push made b the head; the tree as pruned for it.
TreeWith(b) == Pruned(tree \cup {b}, b)

Overtakes(b) ==
    /\ b \notin tree
    /\ Linked(b)
    /\ Advances(b)

\* The new head executed: it stays.
Adopt(b) ==
    /\ tree' = TreeWith(b)
    /\ head' = b
    /\ result' = "nil"

\* A block failed on the way to the new head: it is rejected.  RejectTip
\* refuses if b's number was so far ahead that the old head is pruned; its
\* answer is not looked at, and b stays the head.
Reject(b) ==
    /\ LET r == RejectTip(TreeWith(b), b, head)
       IN  /\ tree' = r.tree
           /\ head' = r.head
           /\ stray' = (stray \/ r.head = b)
    /\ result' = "failed"

MutApplyOnTopUnlisted(b) ==
    /\ Overtakes(b)
    /\ Parent(b) = head
    /\ MayExecute(b, sessions)
    /\ sessions' = Append(sessions, b)
    /\ Adopt(b)
    /\ UNCHANGED <<applied, torn, stray>>

\* applyOnTop: BuildSession, processBlock, and the block joins applied.
ApplyOnTop(b) ==
    /\ Overtakes(b)
    /\ Parent(b) = head
    /\ MayExecute(b, sessions)
    /\ sessions' = Append(sessions, b)
    /\ applied' = Append(applied, b)
    /\ Adopt(b)
    /\ UNCHANGED <<torn, stray>>

\* applyOnTop fails: the session is revoked, the tip rejected.
ApplyOnTopFails(b) ==
    /\ Overtakes(b)
    /\ Parent(b) = head
    /\ MayFail(b, sessions)
    /\ Reject(b)
    /\ UNCHANGED <<sessions, applied, torn>>

Switches(b) ==
    /\ Overtakes(b)
    /\ Parent(b) # head

\* switchFork finds no common ancestor, because of gaps in the numbers or
\* because the old head is pruned: it returns before it revokes anything and
\* without RejectTip, so b stays the head.
SwitchForkLost(b) ==
    /\ Switches(b)
    /\ NoCommonAncestor(TreeWith(b), b, head)
    /\ tree' = TreeWith(b)
    /\ head' = b
    /\ result' = "failed"
    /\ stray' = TRUE
    /\ UNCHANGED <<sessions, applied, torn>>

\* Where switchFork may leave oldHead's branch: at its ancestor at depth c.
SwitchDepths(b) ==
    {c \in 0..Depth(head) :
        /\ ~NoCommonAncestor(TreeWith(b), b, head)
        /\ \E twice \in SUBSET Repushable : GetBranch(c, b, head, twice)}

\* Revoking the n innermost sessions (Revoke on an empty stack does nothing).
Without(s, n) == SubSeq(s, 1, Len(s) - n)

MutSwitchForkTipOnly(b, c) ==
    LET n == Depth(head) - c IN
    /\ n <= Len(applied)
    /\ MayExecute(b, Without(sessions, n))
    /\ sessions' = Append(Without(sessions, n), b)
    /\ applied' = Append(Without(applied, n), b)
    /\ Adopt(b)
    /\ UNCHANGED <<torn, stray>>

SwitchFork(b, c) ==
    LET n == Depth(head) - c IN
    /\ n <= Len(applied)
    /\ AppliesFirst(Depth(b) - c, Above(b, c), Without(sessions, n))
    /\ sessions' = Without(sessions, n) \o Above(b, c)
    /\ applied' = Without(applied, n) \o Above(b, c)
    /\ Adopt(b)
    /\ UNCHANGED <<torn, stray>>

MutSwitchForkNoRestore(b, c, j, r) ==
    LET n == Depth(head) - c IN
    /\ n <= Len(applied)
    /\ r = 0
    /\ AppliesFirst(j, Above(b, c), Without(sessions, n))
    /\ sessions' = Without(sessions, n) \o SubSeq(Above(b, c), 1, j)
    /\ applied' = Without(applied, n) \o SubSeq(Above(b, c), 1, j)
    /\ Reject(b)
    /\ torn' = (torn \/ j > 0)

\* After j blocks of the new branch the next one fails.  Its own session is
\* revoked, restoreBranch re-applies the old branch on top of what is there
\* until a block of it (the one after the first r) fails too.
SwitchForkFails(b, c, j, r) ==
    LET n == Depth(head) - c
        new == SubSeq(Above(b, c), 1, j)
        old == SubSeq(Above(head, c), 1, r)
    IN
    /\ n <= Len(applied)
    /\ Len(applied) - n + j + r <= MaxApplied
    /\ AppliesFirst(j, Above(b, c), Without(sessions, n))
    /\ AppliesFirst(r, Above(head, c), Without(sessions, n) \o new)
    /\ sessions' = Without(sessions, n) \o new \o old
    /\ applied' = Without(applied, n) \o new \o old
    /\ Reject(b)
    /\ torn' = (torn \/ j > 0)

\* m.applied holds fewer blocks than the branch to revoke: the slice
\* expression m.applied[:len(m.applied)-1] panics on the empty slice.
SwitchForkPanics(b, c) ==
    /\ Depth(head) - c > Len(applied)
    /\ sessions' = <<>>
    /\ applied' = <<>>
    /\ tree' = TreeWith(b)
    /\ head' = b
    /\ result' = "panic"
    /\ UNCHANGED <<torn, stray>>

\* Numbered one above its parent, as producers should and nothing checks.
Regular(b) == Num(b) = Num(Parent(b)) + 1

LinksGap(b) ==
    /\ b \notin tree
    /\ Linked(b)
    /\ ~Regular(b)

PushBlock(b) ==
    /\ Running
    /\ UNCHANGED failing
    /\ gapped' = (gapped \/ LinksGap(b))
    /\ \/ PushDuplicate(b)
       \/ PushUnlinked(b)
       \/ PushSide(b)
       \/ ApplyOnTop(b)
       \/ ApplyOnTopFails(b)
       \/ SwitchForkLost(b)
       \/ /\ Switches(b)
          /\ \E c \in SwitchDepths(b) :
                \/ SwitchFork(b, c)
                \/ \E j \in 0..(Depth(b) - c - 1), r \in 0..(Depth(head) - c) :
                     SwitchForkFails(b, c, j, r)
                \/ SwitchForkPanics(b, c)

\* The same header with a body that does not match it.
PushCorrupt(b) ==
    /\ Running
    /\ UNCHANGED <<failing, gapped>>
    /\ PushDuplicate(b) \/ PushBadRoot(b)

\* The process dies, or is stopped, and starts again: sessions, fork tree
\* and m.applied live in memory only, so the chain restarts from its root.
Restart ==
    /\ tree' = {Root}
    /\ head' = Root
    /\ sessions' = <<>>
    /\ applied' = <<>>
    /\ result' = "nil"
    /\ torn' = FALSE
    /\ stray' = FALSE
    /\ gapped' = FALSE
    /\ UNCHANGED failing

Next ==
    \/ \E b \in Blocks : PushBlock(b)
    \/ \E b \in Blocks : PushCorrupt(b)
    \/ Restart

Spec == Init /\ [][Next]_vars

\* Peers keep sending every regular block with its own body, any others or
\* not, and the process stays up from some point on (the pipeline itself has
\* no timer and no retry).
FairSpec ==
    /\ Spec
    /\ \A b \in {x \in Blocks : Regular(x)} : WF_vars(PushBlock(b))
    /\ <>[][~Restart]_vars

-----------------------------------------------------------------------------
(* Properties.                                                             *)

\* The shape of the pipeline's state: fork tree, head, sessions and m.applied
\* hold known blocks, and PushBlock ends in one of its four ways.
TypeOK ==
    /\ tree \subseteq Nodes
    /\ head \in tree
    /\ sessions \in Seq(Blocks)
    /\ applied \in Seq(Blocks)
    /\ failing \subseteq Blocks
    /\ result \in Results
    /\ {torn, stray, gapped} \subseteq BOOLEAN

\* The list of applied blocks names exactly the open sessions, in order, on
\* every path through applyOnTop, switchFork and restoreBranch, including
\* the ones that fail (manager.go 11: len(m.applied) == m.db.Depth()).
AppliedNamesSessions == applied = sessions

\* No retained block is higher than the head, so no accepted longer chain is
\* ever passed over: Push advances, RejectTip returns to the previous head.
HeadIsHighest == \A b \in tree : Num(b) <= Num(head)

\* The applied blocks are exactly the head's branch, whatever was pushed,
\* rejected or restored, until a fork switch fails after its first block or a
\* push strays: fails and leaves its tip as the head.  It strays only if some
\* block was not numbered one above its parent.
AlignedUnlessTorn ==
    /\ torn \/ stray \/ applied = BranchOf(head)
    /\ stray => gapped

\* The pipeline never takes more sessions off than it has, so PushBlock always
\* returns, unless an earlier switch tore or a push strayed.
PanicOnlyTorn == result = "panic" => torn \/ stray

\* First seen wins: the head moves to a strictly higher block or, when the
\* process restarts, back to the root; a rejected push never moves it.
HeadOnlyClimbs ==
    [][head' = head \/ Num(head') > Num(head) \/ head' = Root]_vars

\* A push whose block (or an ancestor of it) does not execute, or that finds
\* no common ancestor, leaves the head where it was, unless it strays: then it
\* leaves every session.  With nothing torn or astray both are as they were.
FailedPushUndone ==
    [][result' = "failed" =>
          /\ \/ head' = head
             \/ stray' /\ sessions' = sessions /\ applied' = applied
          /\ torn' \/ stray' \/ (sessions' = sessions /\ applied' = applied)]_vars

\* While every block is numbered one above its parent, the head's branch is
\* retained down to MaxSize - 1 below the head, so a fork that leaves it there
\* can still be linked (one less than maxSize: a rejected tip has pruned for
\* the height it would have had).
ForkWindowKept ==
    ~gapped => \A n \in 0..Depth(head) :
                  MaxSize = 0 \/ n + MaxSize > Depth(head) => Ancestor(head, n) \in tree

\* The header comment of manager.go: m.applied is exactly the current head's
\* branch above the committed base.
AppliedIsHeadBranch == applied = BranchOf(head)

\* Every block of b's branch executes.
Valid(b) == \A n \in 1..Depth(b) : Ancestor(b, n) \in Blocks \ failing

\* If peers keep sending all regular blocks, the node ends aligned, unless a
\* switch tore or a push strayed.  If it met no other blocks, it then holds
\* every executable one it can link and has none of them above its head,
\* however many failing branches it was offered and whatever was pruned.
BestValidChainAdopted ==
    <>[](\/ torn
         \/ stray
         \/ /\ applied = BranchOf(head)
            /\ \/ gapped
               \/ \A b \in Blocks : Regular(b) /\ Valid(b) /\ Linked(b) =>
                     b \in tree /\ Num(b) <= Num(head))

=============================================================================
