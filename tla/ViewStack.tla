----------------------------- MODULE ViewStack -----------------------------
(***************************************************************************)
(* What a revoking database promises its single caller, with no mention of *)
(* overlays: a stack of complete views of the store.  The bottom view is   *)
(* the durable one; the top view is what reads return.  A commit of the    *)
(* bottom session is durable only once it settles: an engine error or a    *)
(* crash before that may keep the new value of some keys and the old value *)
(* of the others.                                                          *)
(***************************************************************************)
EXTENDS Naturals, Sequences

CONSTANTS
    Keys,     \* the keys of the store
    Vals,     \* the values a key may hold
    Absent,   \* what a read of a missing or deleted key returns
    Idle      \* no commit is on its way to the durable view

VARIABLES
    views,    \* the stack of views, bottom (durable) first
    prior     \* the durable view before the commit in flight, or Idle

vvars == <<views, prior>>

Top == views[Len(views)]

Init ==
    /\ \E v \in [Keys -> Vals \cup {Absent}] : views = <<v>>
    /\ prior = Idle

\* A write or a delete touches the top view only.
Write(k, v) ==
    /\ prior = Idle
    /\ views' = [views EXCEPT ![Len(views)] = [Top EXCEPT ![k] = v]]
    /\ UNCHANGED prior

\* Opening a session copies what is visible.
Begin ==
    /\ prior = Idle
    /\ views' = Append(views, Top)
    /\ UNCHANGED prior

\* Rolling back returns to the view under the top one, exactly.
Rollback ==
    /\ prior = Idle
    /\ Len(views) > 1
    /\ views' = SubSeq(views, 1, Len(views) - 1)
    /\ UNCHANGED prior

\* Committing drops the view under the top one and keeps what is visible.
Commit ==
    /\ prior = Idle
    /\ Len(views) > 1
    /\ views' = Append(SubSeq(views, 1, Len(views) - 2), Top)
    /\ prior' = IF Len(views) = 2 THEN views[1] ELSE Idle

\* The commit in flight has reached the durable store entirely.
Settle ==
    /\ prior # Idle
    /\ prior' = Idle
    /\ UNCHANGED views

\* The commit in flight stops half way: some keys keep their old value.
Tear ==
    /\ prior # Idle
    /\ \E kept \in SUBSET Keys :
         views' = <<[k \in Keys |-> IF k \in kept THEN Top[k] ELSE prior[k]]>>
    /\ prior' = Idle

\* A crash outside a commit loses every session and nothing else.
Crash ==
    /\ prior = Idle
    /\ views' = <<views[1]>>
    /\ UNCHANGED prior

Next ==
    \/ \E k \in Keys, v \in Vals \cup {Absent} : Write(k, v)
    \/ Begin
    \/ Rollback
    \/ Commit
    \/ Settle
    \/ Tear
    \/ Crash

Spec == Init /\ [][Next]_vvars
=============================================================================
