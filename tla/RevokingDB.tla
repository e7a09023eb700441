---------------------------- MODULE RevokingDB ----------------------------
(***************************************************************************)
(* db.Database: a stack of in-memory overlays (revoking sessions) over a   *)
(* committed key-value engine.  The engine writes one key at a time, so    *)
(* the flush of the last session is several steps, any of which may fail   *)
(* and between any two of which the process may die.                       *)
(***************************************************************************)
EXTENDS Naturals, Sequences

CONSTANTS
    Keys,
    Vals,
    Absent,     \* ErrNotFound; in an overlay, a tombstone (entry.deleted)
    Unwritten,  \* the overlay holds no entry for the key
    Idle,       \* no flush is running
    MaxDepth    \* bound on open sessions

ASSUME SentinelAssumption ==
    /\ Absent \notin Vals
    /\ Unwritten \notin Vals \cup {Absent}

ASSUME IdleAssumption == Idle \notin [Keys -> Vals \cup {Absent}]

ASSUME DepthAssumption == MaxDepth \in Nat

Views == [Keys -> Vals \cup {Absent}]
Overlays == [Keys -> Vals \cup {Absent, Unwritten}]
NoWrites == [k \in Keys |-> Unwritten]

VARIABLES
    base,      \* the committed engine's contents
    sessions,  \* open overlays, outermost first
    flush,     \* entries Commit has yet to write to base (NoWrites if none)
    prior      \* base as it was when the flush began, or Idle (auxiliary)

vars == <<base, sessions, flush, prior>>

-----------------------------------------------------------------------------
(* Reads.                                                                  *)

\* The sessions of ss that hold an entry for k.
Writers(ss, k) == {i \in 1..Len(ss) : ss[i][k] # Unwritten}

MutOutermost(S) == CHOOSE i \in S : \A j \in S : i <= j

Innermost(S) == CHOOSE i \in S : \A j \in S : j <= i

\* Database.Get: the innermost entry decides, then the committed store b.
Lookup(b, ss, k) ==
    IF Writers(ss, k) = {} THEN b[k] ELSE ss[Innermost(Writers(ss, k))][k]

Get(k) == Lookup(base, sessions, k)

\* One overlay laid over a view: entries override, tombstones hide.
Over(view, overlay) ==
    [k \in Keys |-> IF overlay[k] = Unwritten THEN view[k] ELSE overlay[k]]

\* Database.Scan merges base and the sessions bottom-up into a fresh map.
Scan ==
    LET merged[i \in 0..Len(sessions)] ==
          IF i = 0 THEN base ELSE Over(merged[i - 1], sessions[i])
    IN  merged[Len(sessions)]

-----------------------------------------------------------------------------
(* Operations.  Commit holds the lock until its flush ends, so no other    *)
(* operation interleaves with it.                                          *)

Init ==
    /\ base \in Views
    /\ sessions = <<>>
    /\ flush = NoWrites
    /\ prior = Idle

BuildSession ==
    /\ prior = Idle
    /\ Len(sessions) < MaxDepth
    /\ sessions' = Append(sessions, NoWrites)
    /\ UNCHANGED <<base, flush, prior>>

\* Put and Delete: into the top session, or into base when none is open.
WriteEntry(k, e) ==
    /\ prior = Idle
    /\ IF sessions = <<>>
       THEN /\ base' = [base EXCEPT ![k] = e]
            /\ UNCHANGED sessions
       ELSE /\ sessions' = [sessions EXCEPT ![Len(sessions)][k] = e]
            /\ UNCHANGED base
    /\ UNCHANGED <<flush, prior>>

Put(k, v) == WriteEntry(k, v)

Delete(k) == WriteEntry(k, Absent)

MutMergeParentWins ==
    /\ prior = Idle
    /\ Len(sessions) > 1
    /\ LET n == Len(sessions)
       IN  sessions' = Append(SubSeq(sessions, 1, n - 2),
                              Over(sessions[n], sessions[n - 1]))
    /\ UNCHANGED <<base, flush, prior>>

\* Commit with a parent session: the popped overlay is merged into it.
CommitMerge ==
    /\ prior = Idle
    /\ Len(sessions) > 1
    /\ LET n == Len(sessions)
       IN  sessions' = Append(SubSeq(sessions, 1, n - 2),
                              Over(sessions[n - 1], sessions[n]))
    /\ UNCHANGED <<base, flush, prior>>

\* Commit of the only session: it is popped first, then flushed key by key.
CommitToBase ==
    /\ prior = Idle
    /\ Len(sessions) = 1
    /\ sessions' = <<>>
    /\ flush' = sessions[1]
    /\ prior' = base
    /\ UNCHANGED base

\* base.Put or base.Delete of one entry (each is synced on its own).
FlushKey(k) ==
    /\ prior # Idle
    /\ flush[k] # Unwritten
    /\ base' = [base EXCEPT ![k] = flush[k]]
    /\ flush' = [flush EXCEPT ![k] = Unwritten]
    /\ UNCHANGED <<sessions, prior>>

\* Commit returns (true, nil).
FlushDone ==
    /\ prior # Idle
    /\ flush = NoWrites
    /\ prior' = Idle
    /\ UNCHANGED <<base, sessions, flush>>

\* The engine refuses a write: Commit returns (true, err), entries dropped.
FlushError ==
    /\ prior # Idle
    /\ flush # NoWrites
    /\ flush' = NoWrites
    /\ prior' = Idle
    /\ UNCHANGED <<base, sessions>>

Revoke ==
    /\ prior = Idle
    /\ sessions # <<>>
    /\ sessions' = SubSeq(sessions, 1, Len(sessions) - 1)
    /\ UNCHANGED <<base, flush, prior>>

\* The process dies; only the committed engine survives.
Crash ==
    /\ sessions' = <<>>
    /\ flush' = NoWrites
    /\ prior' = Idle
    /\ UNCHANGED base

Next ==
    \/ BuildSession
    \/ \E k \in Keys, v \in Vals : Put(k, v)
    \/ \E k \in Keys : Delete(k)
    \/ CommitMerge
    \/ CommitToBase
    \/ \E k \in Keys : FlushKey(k)
    \/ FlushDone
    \/ FlushError
    \/ Revoke
    \/ Crash

Spec == Init /\ [][Next]_vars

-----------------------------------------------------------------------------
(* Properties.                                                             *)

\* The shape of Database: a full committed store under a stack of overlays,
\* whatever Put, Delete, Commit and Revoke did to it.
TypeOK ==
    /\ base \in Views
    /\ sessions \in Seq(Overlays)
    /\ flush \in Overlays
    /\ prior \in Views \cup {Idle}

\* While Commit flushes to base no session is open, a key not yet written
\* still has the value it had before the flush, and outside a flush nothing
\* is pending (Commit pops the session before it writes, snapshot.go 161-178).
FlushInv ==
    IF prior = Idle
    THEN flush = NoWrites
    ELSE /\ sessions = <<>>
         /\ \A k \in Keys : flush[k] # Unwritten => base[k] = prior[k]

\* Scan (bottom-up merge) and Get (top-down search) agree on every key: the
\* comment on Scan promises "the same top-down visibility as Get".
ScanAgreesWithGet == \A k \in Keys : Scan[k] = Get(k)

\* The committed store changes only when no session is open: uncommitted
\* writes of Put, Delete and nested Commits never leak into base.
BaseOnlyWithoutSessions == [][base' # base => sessions = <<>>]_vars

\* The views a reader would have with only the first 0, 1, ... sessions of
\* ss open over the committed store b.
StackViews(b, ss) ==
    [i \in 1..(Len(ss) + 1) |->
        [k \in Keys |-> Lookup(b, SubSeq(ss, 1, i - 1), k)]]

\* The refinement mapping: entries still being flushed count as committed.
ViewsOf == StackViews(Over(base, flush), sessions)

Abstract == INSTANCE ViewStack WITH views <- ViewsOf, prior <- prior

\* The overlay stack implements the stack of full views: Revoke returns to
\* exactly the view before BuildSession, Commit never changes what is
\* visible, and only a failed or interrupted flush can mix two views.
RefinesViewStack == Abstract!Spec

=============================================================================
