-------------------------- MODULE RevokingDBProofs --------------------------
(***************************************************************************)
(* Proofs about RevokingDB for every set of keys and values and any bound  *)
(* on the number of sessions.                                              *)
(***************************************************************************)
EXTENDS RevokingDB, NatFacts, SequenceTheorems, TLAPS

-----------------------------------------------------------------------------
(* Typing and the state of a running flush.                                *)

\* An overlay laid over an overlay is an overlay, over a view a view.
LEMMA OverType ==
    ASSUME NEW o \in Overlays
    PROVE  /\ \A p \in Overlays : Over(p, o) \in Overlays
           /\ \A v \in Views : Over(v, o) \in Views
BY DEF Over, Overlays, Views

\* The conjunction that is inductive: types, and what a flush leaves behind.
IInv == TypeOK /\ FlushInv

\* An empty or reopened store has no session and no flush under way.
LEMMA InitIInv == Init => IInv
BY DEF Init, IInv, TypeOK, FlushInv, Views, Overlays, NoWrites

\* Put and Delete keep the types: the one entry written is a legal one.
LEMMA WriteEntryIInv ==
    ASSUME IInv, NEW k \in Keys, NEW e \in Vals \cup {Absent}, WriteEntry(k, e)
    PROVE  IInv'
<1>1. CASE sessions = <<>>
  BY <1>1 DEF WriteEntry, IInv, TypeOK, FlushInv, Views
<1>2. CASE sessions # <<>>
  <2>1. Len(sessions) \in 1..Len(sessions) /\ sessions[Len(sessions)] \in Overlays
    BY <1>2, EmptySeq, ElementOfSeq, LenProperties DEF IInv, TypeOK
  <2>2. [sessions[Len(sessions)] EXCEPT ![k] = e] \in Overlays
    BY <2>1 DEF Overlays
  <2>3. sessions' = [sessions EXCEPT ![Len(sessions)] =
                        [sessions[Len(sessions)] EXCEPT ![k] = e]]
    BY <1>2, <2>1 DEF WriteEntry, IInv, TypeOK
  <2>4. sessions' \in Seq(Overlays)
    BY <2>1, <2>2, <2>3, ExceptSeq DEF IInv, TypeOK
  <2>5. QED
    BY <1>2, <2>4 DEF WriteEntry, IInv, TypeOK, FlushInv
<1>3. QED
  BY <1>1, <1>2

\* Merging the popped session into its parent leaves a stack of overlays.
LEMMA CommitMergeIInv == IInv /\ CommitMerge => IInv'
<1> SUFFICES ASSUME IInv, CommitMerge PROVE IInv'
  OBVIOUS
<1> DEFINE n == Len(sessions)
<1>1. n \in Nat /\ n > 1 /\ sessions[n] \in Overlays /\ sessions[n - 1] \in Overlays
  BY ElementOfSeq, LenProperties DEF CommitMerge, IInv, TypeOK
<1>2. Over(sessions[n - 1], sessions[n]) \in Overlays
  BY <1>1, OverType
<1>3. SubSeq(sessions, 1, n - 2) \in Seq(Overlays)
  BY <1>1, SubSeqProperties DEF IInv, TypeOK
<1>4. sessions' \in Seq(Overlays)
  BY <1>2, <1>3, AppendProperties DEF CommitMerge
<1>5. QED
  BY <1>4 DEF CommitMerge, IInv, TypeOK, FlushInv

\* The inductive step: every operation, crashes included, preserves IInv.
LEMMA NextIInv == IInv /\ [Next]_vars => IInv'
<1> SUFFICES ASSUME IInv, [Next]_vars PROVE IInv'
  OBVIOUS
<1> USE SentinelAssumption, IdleAssumption
<1>1. CASE BuildSession
  BY <1>1, AppendProperties DEF BuildSession, IInv, TypeOK, FlushInv, Overlays, NoWrites
<1>2. ASSUME NEW k \in Keys, NEW v \in Vals, Put(k, v) PROVE IInv'
  BY <1>2, WriteEntryIInv DEF Put
<1>3. ASSUME NEW k \in Keys, Delete(k) PROVE IInv'
  BY <1>3, WriteEntryIInv DEF Delete
<1>4. CASE CommitMerge
  BY <1>4, CommitMergeIInv
<1>5. CASE CommitToBase
  <2>1. sessions[1] \in Overlays
    BY <1>5, ElementOfSeq DEF CommitToBase, IInv, TypeOK
  <2>2. QED
    BY <1>5, <2>1 DEF CommitToBase, IInv, TypeOK, FlushInv, Views
<1>6. ASSUME NEW k \in Keys, FlushKey(k) PROVE IInv'
  <2>1. base' \in Views /\ flush' \in Overlays
    BY <1>6 DEF FlushKey, IInv, TypeOK, Views, Overlays
  <2>2. \A j \in Keys : flush'[j] # Unwritten => base'[j] = prior[j]
    BY <1>6 DEF FlushKey, IInv, TypeOK, FlushInv, Views, Overlays
  <2>3. QED
    BY <1>6, <2>1, <2>2 DEF FlushKey, IInv, TypeOK, FlushInv
<1>7. CASE FlushDone
  BY <1>7 DEF FlushDone, IInv, TypeOK, FlushInv
<1>8. CASE FlushError
  BY <1>8 DEF FlushError, IInv, TypeOK, FlushInv, Overlays, NoWrites
<1>9. CASE Revoke
  BY <1>9, SubSeqProperties, EmptySeq, LenProperties
     DEF Revoke, IInv, TypeOK, FlushInv
<1>10. CASE Crash
  BY <1>10 DEF Crash, IInv, TypeOK, FlushInv, Overlays, NoWrites
<1>11. CASE UNCHANGED vars
  BY <1>11 DEF vars, IInv, TypeOK, FlushInv
<1>12. QED
  BY <1>1, <1>2, <1>3, <1>4, <1>5, <1>6, <1>7, <1>8, <1>9, <1>10, <1>11 DEF Next

\* Every reachable state of the revoking database is well typed, and a
\* Commit that is flushing to base has popped its session and written no
\* key it still holds.
THEOREM FlushCorrect == Spec => [](TypeOK /\ FlushInv)
<1>1. Spec => []IInv
  BY InitIInv, NextIInv, PTL DEF Spec
<1>2. QED
  BY <1>1, PTL DEF IInv

\* The committed store changes only while no session is open: nothing a
\* session wrote reaches base before the last Commit has popped it.
THEOREM BaseIsolated == Spec => BaseOnlyWithoutSessions
<1>1. IInv /\ [Next]_vars => [base' # base => sessions = <<>>]_vars
  <2> SUFFICES ASSUME IInv, Next, base' # base PROVE sessions = <<>>
    BY DEF vars
  <2>1. CASE prior = Idle
    <3>1. \E k \in Keys, e \in Vals \cup {Absent} : WriteEntry(k, e)
      BY <2>1 DEF Next, BuildSession, Put, Delete, CommitMerge, CommitToBase, FlushKey,
                  FlushDone, FlushError, Revoke, Crash
    <3>2. QED
      BY <3>1 DEF WriteEntry
  <2>2. CASE prior # Idle
    BY <2>2 DEF IInv, FlushInv
  <2>3. QED
    BY <2>1, <2>2
<1>2. Spec => []IInv
  BY InitIInv, NextIInv, PTL DEF Spec
<1>3. QED
  BY <1>1, <1>2, PTL DEF Spec, BaseOnlyWithoutSessions

-----------------------------------------------------------------------------
(* Reads through the overlay stack.                                        *)

\* What Get returns after one more session was pushed: its entry for the
\* key if it has one, else what the sessions below return.
LEMMA LookupAppend ==
    ASSUME NEW b, NEW ss \in Seq(Overlays), NEW e \in Overlays, NEW k \in Keys
    PROVE  Lookup(b, Append(ss, e), k) =
              IF e[k] = Unwritten THEN Lookup(b, ss, k) ELSE e[k]
<1> DEFINE tt == Append(ss, e)
           n == Len(ss)
<1>1. /\ n \in Nat
      /\ Len(tt) = n + 1
      /\ tt[n + 1] = e
      /\ \A i \in 1..n : tt[i] = ss[i]
  BY AppendProperties, LenProperties
<1>2. CASE e[k] = Unwritten
  <2>1. Writers(tt, k) = Writers(ss, k)
    BY <1>1, <1>2 DEF Writers
  <2>2. CASE Writers(ss, k) = {}
    BY <1>2, <2>1, <2>2 DEF Lookup
  <2>3. CASE Writers(ss, k) # {}
    <3>1. Writers(ss, k) \in SUBSET (0..n)
      BY <1>1 DEF Writers
    <3>2. \E i \in Writers(ss, k) : \A j \in Writers(ss, k) : j <= i
      BY <1>1, <2>3, <3>1, GreatestNat
    <3>3. Innermost(Writers(ss, k)) \in Writers(ss, k)
      BY <3>2 DEF Innermost
    <3>4. Innermost(Writers(ss, k)) \in 1..n
      BY <3>3 DEF Writers
    <3>5. QED
      BY <1>1, <1>2, <2>1, <2>3, <3>4 DEF Lookup
  <2>4. QED
    BY <2>2, <2>3
<1>3. CASE e[k] # Unwritten
  <2>1. n + 1 \in Writers(tt, k) /\ \A j \in Writers(tt, k) : j \in Nat /\ j <= n + 1
    BY <1>1, <1>3 DEF Writers
  <2>2. Innermost(Writers(tt, k)) = n + 1
    BY <1>1, <2>1 DEF Innermost
  <2>3. QED
    BY <1>1, <1>3, <2>1, <2>2 DEF Lookup
<1>4. QED
  BY <1>2, <1>3

\* A read returns a value of the store or "not found".
LEMMA LookupType ==
    ASSUME NEW b \in Views, NEW ss \in Seq(Overlays), NEW k \in Keys
    PROVE  Lookup(b, ss, k) \in Vals \cup {Absent}
<1>1. CASE Writers(ss, k) = {}
  BY <1>1 DEF Lookup, Views
<1>2. CASE Writers(ss, k) # {}
  <2>1. Len(ss) \in Nat /\ Writers(ss, k) \in SUBSET (0..Len(ss))
    BY LenProperties DEF Writers
  <2>2. \E i \in Writers(ss, k) : \A j \in Writers(ss, k) : j <= i
    BY <1>2, <2>1, GreatestNat
  <2>3. Innermost(Writers(ss, k)) \in Writers(ss, k)
    BY <2>2 DEF Innermost
  <2>4. PICK i \in 1..Len(ss) : ss[i][k] # Unwritten /\ i = Innermost(Writers(ss, k))
    BY <2>3 DEF Writers
  <2>5. ss[i] \in Overlays
    BY <2>4, ElementOfSeq
  <2>6. QED
    BY <1>2, <2>4, <2>5 DEF Lookup, Overlays
<1>3. QED
  BY <1>1, <1>2

-----------------------------------------------------------------------------
(* The stack of views.                                                     *)

\* A function on 1..n is a sequence of length n.
LEMMA FunIsSeq ==
    ASSUME NEW S, NEW n \in Nat, NEW f \in [1..n -> S]
    PROVE  f \in Seq(S) /\ Len(f) = n
<1>1. f \in Seq(S)
  BY SeqDef
<1>2. Len(f) \in Nat /\ DOMAIN f = 1..Len(f)
  BY <1>1, LenProperties
<1>3. 1..Len(f) = 1..n
  BY <1>2
<1>4. QED
  BY <1>1, <1>2, <1>3

\* StackViews is a sequence of views, one more than there are sessions.
LEMMA StackViewsType ==
    ASSUME NEW b \in Views, NEW ss \in Seq(Overlays)
    PROVE  /\ StackViews(b, ss) \in Seq(Views)
           /\ Len(StackViews(b, ss)) = Len(ss) + 1
           /\ \A i \in 1..(Len(ss) + 1) : StackViews(b, ss)[i] =
                 [k \in Keys |-> Lookup(b, SubSeq(ss, 1, i - 1), k)]
<1>1. Len(ss) \in Nat
  BY LenProperties
<1>2. ASSUME NEW i \in 1..(Len(ss) + 1)
      PROVE  [k \in Keys |-> Lookup(b, SubSeq(ss, 1, i - 1), k)] \in Views
  <2>1. SubSeq(ss, 1, i - 1) \in Seq(Overlays)
    BY <1>1, SubSeqProperties
  <2>2. QED
    BY <2>1, LookupType DEF Views
<1>3. StackViews(b, ss) \in [1..(Len(ss) + 1) -> Views]
  BY <1>2 DEF StackViews
<1>4. Len(ss) + 1 \in Nat
  BY <1>1
<1>5. StackViews(b, ss) \in Seq(Views) /\ Len(StackViews(b, ss)) = Len(ss) + 1
  BY <1>3, <1>4, FunIsSeq
<1>6. QED
  BY <1>5 DEF StackViews

\* With no session open the only view is the committed store.
LEMMA StackViewsEmpty ==
    ASSUME NEW b \in Views
    PROVE  StackViews(b, <<>>) = <<b>>
<1>1. <<>> \in Seq(Overlays) /\ Len(<<>>) = 0
  BY EmptySeq
<1>2. ASSUME NEW k \in Keys PROVE Lookup(b, SubSeq(<<>>, 1, 0), k) = b[k]
  BY DEF Lookup, Writers
<1>3. [k \in Keys |-> Lookup(b, SubSeq(<<>>, 1, 0), k)] = b
  BY <1>2 DEF Views
<1>4. /\ StackViews(b, <<>>) \in Seq(Views)
      /\ Len(StackViews(b, <<>>)) = 1
      /\ StackViews(b, <<>>)[1] = b
  <2>1. \A i \in 1..(Len(<<>>) + 1) : StackViews(b, <<>>)[i] =
          [k \in Keys |-> Lookup(b, SubSeq(<<>>, 1, i - 1), k)]
    BY <1>1, StackViewsType
  <2>2. 1 \in 1..(Len(<<>>) + 1) /\ 1 - 1 = 0
    BY <1>1
  <2>3. StackViews(b, <<>>)[1] = b
    BY <1>3, <2>1, <2>2
  <2>4. StackViews(b, <<>>) \in Seq(Views) /\ Len(StackViews(b, <<>>)) = Len(<<>>) + 1
    BY <1>1, StackViewsType
  <2>5. QED
    BY <1>1, <2>3, <2>4
<1>5. QED
  BY <1>4

\* Dropping inner sessions drops the views above and changes no other.
LEMMA StackViewsPrefix ==
    ASSUME NEW b \in Views, NEW ss \in Seq(Overlays), NEW n \in 0..Len(ss)
    PROVE  StackViews(b, SubSeq(ss, 1, n)) = SubSeq(StackViews(b, ss), 1, n + 1)
<1> DEFINE tt == SubSeq(ss, 1, n)
           sv == StackViews(b, ss)
           tv == StackViews(b, tt)
<1>1. Len(ss) \in Nat /\ tt \in Seq(Overlays) /\ Len(tt) = n
  BY SubSeqProperties, LenProperties
<1>2. tv \in Seq(Views) /\ Len(tv) = n + 1
  BY <1>1, StackViewsType
<1>3. sv \in Seq(Views) /\ Len(sv) = Len(ss) + 1
  BY StackViewsType
<1>4. /\ SubSeq(sv, 1, n + 1) \in Seq(Views)
      /\ Len(SubSeq(sv, 1, n + 1)) = n + 1
      /\ \A i \in 1..(n + 1) : SubSeq(sv, 1, n + 1)[i] = sv[i]
  BY <1>1, <1>3, SubSeqProperties
<1>5. ASSUME NEW i \in 1..(n + 1) PROVE tv[i] = sv[i]
  <2>1. SubSeq(tt, 1, i - 1) = SubSeq(ss, 1, i - 1)
    BY <1>1
  <2>2. tv[i] = [k \in Keys |-> Lookup(b, SubSeq(tt, 1, i - 1), k)]
    BY <1>1, StackViewsType, ZenonT(40)
  <2>3. sv[i] = [k \in Keys |-> Lookup(b, SubSeq(ss, 1, i - 1), k)]
    <3>1. i \in 1..(Len(ss) + 1)
      BY <1>1
    <3>2. QED
      BY <3>1, StackViewsType
  <2>4. QED
    BY <2>1, <2>2, <2>3
<1>6. QED
  BY <1>2, <1>4, <1>5, SeqEqual

\* Pushing an overlay pushes the view it gives of the view below.
LEMMA StackViewsAppend ==
    ASSUME NEW b \in Views, NEW ss \in Seq(Overlays), NEW e \in Overlays
    PROVE  StackViews(b, Append(ss, e)) =
              Append(StackViews(b, ss), Over(StackViews(b, ss)[Len(ss) + 1], e))
<1> DEFINE n == Len(ss)
           tt == Append(ss, e)
           sv == StackViews(b, ss)
           tv == StackViews(b, tt)
           top == Over(sv[n + 1], e)
<1>1. n \in Nat /\ tt \in Seq(Overlays) /\ Len(tt) = n + 1
  BY AppendProperties, LenProperties
<1>2. tv \in Seq(Views) /\ Len(tv) = n + 2
  <2>1. tv \in Seq(Views) /\ Len(tv) = Len(tt) + 1
    BY <1>1, StackViewsType
  <2>2. QED
    BY <1>1, <2>1
<1>3. sv \in Seq(Views) /\ Len(sv) = n + 1
  BY StackViewsType
<1>4. SubSeq(tt, 1, n) = ss /\ SubSeq(tt, 1, n + 1) = tt /\ SubSeq(ss, 1, n) = ss
  BY <1>1
<1>5. SubSeq(tv, 1, n + 1) = sv
  <2>1. n \in 0..Len(tt)
    BY <1>1
  <2>2. StackViews(b, SubSeq(tt, 1, n)) = SubSeq(tv, 1, n + 1)
    BY <1>1, <2>1, StackViewsPrefix
  <2>3. QED
    BY <1>4, <2>2
<1>6. \A i \in 1..(n + 1) : tv[i] = sv[i]
  BY <1>1, <1>2, <1>5, SubSeqProperties
<1>7. tv[n + 2] = top
  <2>1. tv[n + 2] = [k \in Keys |-> Lookup(b, tt, k)]
    <3>1. n + 2 \in 1..(Len(tt) + 1) /\ (n + 2) - 1 = n + 1
      BY <1>1
    <3>2. tv[n + 2] = [k \in Keys |-> Lookup(b, SubSeq(tt, 1, (n + 2) - 1), k)]
      BY <1>1, <3>1, StackViewsType
    <3>3. QED
      BY <1>4, <3>1, <3>2
  <2>2. sv[n + 1] = [k \in Keys |-> Lookup(b, ss, k)]
    <3>1. n + 1 \in 1..(Len(ss) + 1) /\ (n + 1) - 1 = n
      BY <1>1
    <3>2. sv[n + 1] = [k \in Keys |-> Lookup(b, SubSeq(ss, 1, (n + 1) - 1), k)]
      BY <3>1, StackViewsType
    <3>3. QED
      BY <1>4, <3>1, <3>2
  <2>3. \A k \in Keys : Lookup(b, tt, k) = IF e[k] = Unwritten THEN Lookup(b, ss, k) ELSE e[k]
    BY LookupAppend
  <2>4. QED
    BY <2>1, <2>2, <2>3 DEF Over
<1>8. top \in Views
  BY <1>1, <1>3, ElementOfSeq, OverType
<1>9. /\ Append(sv, top) \in Seq(Views)
      /\ Len(Append(sv, top)) = n + 2
      /\ \A i \in 1..(n + 1) : Append(sv, top)[i] = sv[i]
      /\ Append(sv, top)[n + 2] = top
  BY <1>1, <1>3, <1>8, AppendProperties
<1>10. \A i \in 1..(n + 2) : tv[i] = Append(sv, top)[i]
  BY <1>1, <1>6, <1>7, <1>9
<1>11. QED
  BY <1>2, <1>9, <1>10, SeqEqual

-----------------------------------------------------------------------------
(* Overlay algebra.                                                        *)

\* A session that wrote nothing changes no view.
LEMMA OverNoWrites ==
    ASSUME NEW v \in Views
    PROVE  Over(v, NoWrites) = v
BY DEF Over, NoWrites, Views

\* Merging two sessions and laying the result over a view is laying both.
LEMMA OverAssociative ==
    ASSUME NEW v \in Views, NEW p \in Overlays, NEW t \in Overlays
    PROVE  Over(Over(v, p), t) = Over(v, Over(p, t))
BY DEF Over, Overlays, Views

\* One more write in the session is one more write in its view.
LEMMA OverExcept ==
    ASSUME NEW v \in Views, NEW o \in Overlays, NEW k \in Keys,
           NEW e \in Vals \cup {Absent}
    PROVE  Over(v, [o EXCEPT ![k] = e]) = [Over(v, o) EXCEPT ![k] = e]
BY SentinelAssumption DEF Over, Overlays, Views

\* Replacing the last element of a non-empty sequence.
LEMMA ExceptLast ==
    ASSUME NEW S, NEW s \in Seq(S), NEW x \in S, NEW y \in S
    PROVE  [Append(s, x) EXCEPT ![Len(s) + 1] = y] = Append(s, y)
<1> DEFINE u == [Append(s, x) EXCEPT ![Len(s) + 1] = y]
<1>1. Len(s) \in Nat
  BY LenProperties
<1>2. /\ Append(s, x) \in Seq(S) /\ Len(Append(s, x)) = Len(s) + 1
      /\ \A i \in 1..Len(s) : Append(s, x)[i] = s[i]
  BY AppendProperties
<1>3. /\ Append(s, y) \in Seq(S) /\ Len(Append(s, y)) = Len(s) + 1
      /\ \A i \in 1..Len(s) : Append(s, y)[i] = s[i]
      /\ Append(s, y)[Len(s) + 1] = y
  BY AppendProperties
<1>4. Len(s) + 1 \in 1..Len(Append(s, x))
  BY <1>1, <1>2
<1>5. /\ u \in Seq(S) /\ Len(u) = Len(s) + 1
      /\ \A i \in 1..(Len(s) + 1) : u[i] = IF i = Len(s) + 1 THEN y ELSE Append(s, x)[i]
  <2>1. Append(s, x) \in [1..(Len(s) + 1) -> S]
    BY <1>2, LenProperties
  <2>2. u \in [1..(Len(s) + 1) -> S]
    BY <2>1
  <2>3. Len(s) + 1 \in Nat
    BY <1>1
  <2>4. u \in Seq(S) /\ Len(u) = Len(s) + 1
    BY <2>2, <2>3, FunIsSeq
  <2>5. QED
    BY <2>1, <2>4
<1>6. \A i \in 1..(Len(s) + 1) : u[i] = Append(s, y)[i]
  BY <1>1, <1>2, <1>3, <1>5
<1>7. QED
  BY <1>3, <1>5, <1>6, SeqEqual

-----------------------------------------------------------------------------
(* Refinement: one lemma per operation.                                    *)

\* The committed store as the mapping sees it, and the state a step starts in.
LEMMA Committed ==
    ASSUME IInv
    PROVE  /\ Over(base, flush) \in Views
           /\ prior = Idle => Over(base, flush) = base
           /\ ViewsOf \in Seq(Views)
           /\ Len(ViewsOf) = Len(sessions) + 1
           /\ Len(sessions) \in Nat
<1>1. Over(base, flush) \in Views
  BY OverType DEF IInv, TypeOK
<1>2. prior = Idle => Over(base, flush) = base
  BY OverNoWrites DEF IInv, TypeOK, FlushInv
<1>3. ViewsOf \in Seq(Views) /\ Len(ViewsOf) = Len(sessions) + 1
  BY <1>1, StackViewsType DEF ViewsOf, IInv, TypeOK
<1>4. QED
  BY <1>1, <1>2, <1>3, LenProperties DEF IInv, TypeOK

\* BuildSession duplicates the top view.
LEMMA BuildSessionRefines == IInv /\ BuildSession => Abstract!Begin
<1> SUFFICES ASSUME IInv, BuildSession PROVE Abstract!Begin
  OBVIOUS
<1> DEFINE b == Over(base, flush)
           top == ViewsOf[Len(sessions) + 1]
<1>1. b \in Views /\ NoWrites \in Overlays /\ sessions \in Seq(Overlays)
  BY Committed DEF IInv, TypeOK, NoWrites, Overlays
<1>2. StackViews(b, Append(sessions, NoWrites)) =
         Append(ViewsOf, Over(top, NoWrites))
  BY <1>1, StackViewsAppend DEF ViewsOf
<1>3. top \in Views
  BY Committed, ElementOfSeq
<1>4. ViewsOf' = Append(ViewsOf, top)
  BY <1>2, <1>3, OverNoWrites DEF BuildSession, ViewsOf
<1>5. QED
  BY <1>4, Committed DEF BuildSession, Abstract!Begin, Abstract!Top

\* Revoke drops the top view and no other.
LEMMA RevokeRefines == IInv /\ Revoke => Abstract!Rollback
<1> SUFFICES ASSUME IInv, Revoke PROVE Abstract!Rollback
  OBVIOUS
<1> DEFINE b == Over(base, flush)
           n == Len(sessions)
<1>1. b \in Views /\ sessions \in Seq(Overlays) /\ n \in Nat /\ n # 0
  BY Committed, EmptySeq DEF IInv, TypeOK, Revoke
<1>2. n - 1 \in 0..n /\ (n - 1) + 1 = n
  BY <1>1
<1>3. StackViews(b, SubSeq(sessions, 1, n - 1)) = SubSeq(ViewsOf, 1, (n - 1) + 1)
  BY <1>1, <1>2, StackViewsPrefix DEF ViewsOf
<1>4. ViewsOf' = SubSeq(ViewsOf, 1, Len(ViewsOf) - 1)
  BY <1>1, <1>2, <1>3, Committed DEF Revoke, ViewsOf
<1>5. QED
  BY <1>1, <1>4, Committed DEF Revoke, Abstract!Rollback

\* A non-empty session stack is its outer sessions with the top one pushed.
LEMMA SplitTop ==
    ASSUME NEW ss \in Seq(Overlays), Len(ss) > 0
    PROVE  /\ SubSeq(ss, 1, Len(ss) - 1) \in Seq(Overlays)
           /\ Len(SubSeq(ss, 1, Len(ss) - 1)) = Len(ss) - 1
           /\ ss[Len(ss)] \in Overlays
           /\ ss = Append(SubSeq(ss, 1, Len(ss) - 1), ss[Len(ss)])
<1>1. Len(ss) \in Nat /\ Len(ss) \in 1..Len(ss)
  BY LenProperties
<1>2. ss[Len(ss)] \in Overlays
  BY <1>1, ElementOfSeq
<1>3. \A i \in 1..(Len(ss) - 1) : ss[i] \in Overlays
  BY <1>1, ElementOfSeq
<1>4. /\ SubSeq(ss, 1, Len(ss) - 1) \in Seq(Overlays)
      /\ Len(SubSeq(ss, 1, Len(ss) - 1)) = Len(ss) - 1
      /\ \A i \in 1..(Len(ss) - 1) : SubSeq(ss, 1, Len(ss) - 1)[i] = ss[i]
  <2> DEFINE m == Len(ss) - 1
             h == SubSeq(ss, 1, m)
  <2>1. m \in Nat
    BY <1>1
  <2>2. \A i \in 1..m : ss[i] \in Overlays
    BY <1>3
  <2> HIDE DEF m
  <2>3. /\ h \in Seq(Overlays)
        /\ Len(h) = IF 1 <= m THEN m - 1 + 1 ELSE 0
        /\ \A i \in 1..(m - 1 + 1) : h[i] = ss[1 + i - 1]
    BY <2>1, <2>2, SubSeqProperties
  <2>4. Len(h) = m /\ \A i \in 1..m : h[i] = ss[i]
    BY <2>1, <2>3
  <2>5. QED
    BY <2>3, <2>4 DEF m
<1> DEFINE tt == Append(SubSeq(ss, 1, Len(ss) - 1), ss[Len(ss)])
<1>5. /\ tt \in Seq(Overlays) /\ Len(tt) = Len(ss)
      /\ \A i \in 1..(Len(ss) - 1) : tt[i] = ss[i]
      /\ tt[Len(ss)] = ss[Len(ss)]
  BY <1>1, <1>2, <1>4, AppendProperties
<1>6. \A i \in 1..Len(ss) : ss[i] = tt[i]
  BY <1>1, <1>5
<1>7. ss = tt
  BY <1>5, <1>6, SeqEqual
<1>8. QED
  BY <1>2, <1>4, <1>7

\* Put and Delete change one key of the top view.
LEMMA WriteEntryRefines ==
    ASSUME IInv, NEW k \in Keys, NEW e \in Vals \cup {Absent}, WriteEntry(k, e)
    PROVE  Abstract!Write(k, e)
<1> DEFINE n == Len(sessions)
<1>0. /\ prior = Idle /\ prior' = prior /\ flush' = flush
      /\ base \in Views /\ sessions \in Seq(Overlays)
      /\ Over(base, flush) = base
      /\ n \in Nat /\ Len(ViewsOf) = n + 1
      /\ ViewsOf = StackViews(base, sessions)
  BY Committed DEF WriteEntry, IInv, TypeOK, ViewsOf
<1>1. CASE sessions = <<>>
  <2>1. base' = [base EXCEPT ![k] = e] /\ base' \in Views /\ sessions' = <<>>
    BY <1>0, <1>1 DEF WriteEntry, Views
  <2>2. Over(base', flush') = base'
    BY <1>0, <2>1, OverNoWrites DEF IInv, FlushInv
  <2>3. ViewsOf = <<base>> /\ ViewsOf' = <<base'>>
    BY <1>0, <1>1, <2>1, <2>2, StackViewsEmpty DEF ViewsOf
  <2>4. Len(ViewsOf) = 1 /\ ViewsOf[1] = base
    BY <2>3
  <2>5. [<<base>> EXCEPT ![1] = base'] = <<base'>>
    OBVIOUS
  <2>6. ViewsOf' = [ViewsOf EXCEPT ![1] = [ViewsOf[1] EXCEPT ![k] = e]]
    BY <2>1, <2>3, <2>4, <2>5
  <2>7. QED
    BY <1>0, <2>4, <2>6 DEF Abstract!Write, Abstract!Top
<1>2. CASE sessions # <<>>
  <2> DEFINE f == SubSeq(sessions, 1, n - 1)
             o == sessions[n]
             u == [o EXCEPT ![k] = e]
             fv == StackViews(base, f)
             v == fv[n]
  <2>1. n > 0
    BY <1>0, <1>2, EmptySeq
  <2>2. f \in Seq(Overlays) /\ Len(f) = n - 1 /\ o \in Overlays /\ sessions = Append(f, o)
    BY <1>0, <2>1, SplitTop
  <2>3. u \in Overlays
    BY <2>2 DEF Overlays
  <2>4. sessions' = [sessions EXCEPT ![n] = u]
    BY <1>0, <1>2, <2>1 DEF WriteEntry
  <2>5. sessions' = Append(f, u)
    <3>1. [Append(f, o) EXCEPT ![Len(f) + 1] = u] = Append(f, u)
      <4> HIDE DEF f, o, u
      <4> QED
        BY <2>2, <2>3, ExceptLast
    <3>2. Len(f) + 1 = n
      BY <1>0, <2>2
    <3>3. QED
      BY <2>2, <2>4, <3>1, <3>2
  <2>6. fv \in Seq(Views) /\ Len(fv) = n
    <3>1. fv \in Seq(Views) /\ Len(fv) = Len(f) + 1
      BY <1>0, <2>2, StackViewsType
    <3>2. QED
      BY <1>0, <2>2, <3>1
  <2>7. v \in Views
    BY <1>0, <2>1, <2>6, ElementOfSeq
  <2>8. Len(f) + 1 = n
    BY <1>0, <2>2
  <2>9. StackViews(base, Append(f, o)) = Append(fv, Over(v, o))
    BY <1>0, <2>2, <2>8, StackViewsAppend
  <2>10. StackViews(base, Append(f, u)) = Append(fv, Over(v, u))
    BY <1>0, <2>2, <2>3, <2>8, StackViewsAppend
  <2>11. base' = base
    BY <1>2 DEF WriteEntry
  <2>12. ViewsOf = Append(fv, Over(v, o)) /\ ViewsOf' = Append(fv, Over(v, u))
    <3>1. ViewsOf' = StackViews(base, Append(f, u))
      BY <1>0, <2>5, <2>11 DEF ViewsOf
    <3>2. QED
      BY <1>0, <2>2, <2>9, <2>10, <3>1
  <2>13. Over(v, o) \in Views /\ Over(v, u) = [Over(v, o) EXCEPT ![k] = e]
    <3> HIDE DEF o, v
    <3> QED
      BY <2>2, <2>7, OverType, OverExcept
  <2>14. [Over(v, o) EXCEPT ![k] = e] \in Views
    BY <2>13 DEF Views
  <2>15. ViewsOf[n + 1] = Over(v, o)
    BY <2>6, <2>12, <2>13, AppendProperties
  <2>16. ViewsOf' = [ViewsOf EXCEPT ![n + 1] = [ViewsOf[n + 1] EXCEPT ![k] = e]]
    <3>1. [Append(fv, Over(v, o)) EXCEPT ![Len(fv) + 1] = [Over(v, o) EXCEPT ![k] = e]]
             = Append(fv, [Over(v, o) EXCEPT ![k] = e])
      <4> DEFINE x == Over(v, o)
                 y == [Over(v, o) EXCEPT ![k] = e]
      <4>1. x \in Views /\ y \in Views
        BY <2>13, <2>14
      <4> HIDE DEF fv, x, y
      <4>2. [Append(fv, x) EXCEPT ![Len(fv) + 1] = y] = Append(fv, y)
        BY <2>6, <4>1, ExceptLast
      <4>3. QED
        BY <4>2 DEF x, y
    <3>2. QED
      BY <2>6, <2>12, <2>13, <2>15, <3>1
  <2>17. QED
    BY <1>0, <2>16 DEF Abstract!Write, Abstract!Top
<1>3. QED
  BY <1>1, <1>2

\* Commit of a nested session replaces the view below by the top one.
LEMMA CommitMergeRefines == IInv /\ CommitMerge => Abstract!Commit
<1> SUFFICES ASSUME IInv, CommitMerge PROVE Abstract!Commit
  OBVIOUS
<1> DEFINE n == Len(sessions)
           f == SubSeq(sessions, 1, n - 2)
           g == SubSeq(sessions, 1, n - 1)
           p == sessions[n - 1]
           t == sessions[n]
           fv == StackViews(base, f)
           v == fv[n - 1]
<1>0. /\ prior = Idle /\ prior' = prior /\ flush' = flush /\ base' = base
      /\ base \in Views /\ sessions \in Seq(Overlays)
      /\ Over(base, flush) = base
      /\ n \in Nat /\ n > 1 /\ Len(ViewsOf) = n + 1
      /\ ViewsOf = StackViews(base, sessions)
  BY Committed DEF CommitMerge, IInv, TypeOK, ViewsOf
<1>1. g \in Seq(Overlays) /\ Len(g) = n - 1 /\ t \in Overlays /\ sessions = Append(g, t)
  BY <1>0, SplitTop
<1>2. /\ f \in Seq(Overlays) /\ Len(f) = n - 2 /\ p \in Overlays
      /\ g = Append(f, p)
  <2>1. Len(g) > 0 /\ Len(g) - 1 = n - 2
    BY <1>0, <1>1
  <2>2. SubSeq(g, 1, n - 2) = f /\ g[n - 1] = p
    BY <1>0
  <2>3. QED
    BY <1>1, <2>1, <2>2, SplitTop
<1>3. fv \in Seq(Views) /\ Len(fv) = n - 1
  <2>1. Len(f) + 1 = n - 1
    BY <1>0, <1>2
  <2>2. QED
    BY <1>0, <1>2, <2>1, StackViewsType
<1>4. v \in Views
  BY <1>0, <1>3, ElementOfSeq
<1>5. StackViews(base, g) = Append(fv, Over(v, p))
  <2>1. Len(f) + 1 = n - 1
    BY <1>0, <1>2
  <2>2. QED
    BY <1>0, <1>2, <2>1, StackViewsAppend
<1>6. Over(v, p) \in Views /\ StackViews(base, g)[n] = Over(v, p)
  <2>1. Over(v, p) \in Views
    BY <1>2, <1>4, OverType
  <2>2. Append(fv, Over(v, p))[Len(fv) + 1] = Over(v, p)
    BY <1>3, <2>1, AppendProperties
  <2>3. Len(fv) + 1 = n
    BY <1>0, <1>3
  <2>4. QED
    BY <1>5, <2>1, <2>2, <2>3
<1>7. ViewsOf = Append(Append(fv, Over(v, p)), Over(Over(v, p), t))
  <2>1. Len(g) + 1 = n
    BY <1>0, <1>1
  <2>2. StackViews(base, Append(g, t)) =
          Append(StackViews(base, g), Over(StackViews(base, g)[Len(g) + 1], t))
    BY <1>0, <1>1, StackViewsAppend
  <2>3. QED
    BY <1>0, <1>1, <1>5, <1>6, <2>1, <2>2
<1>8. Over(Over(v, p), t) \in Views /\ Over(p, t) \in Overlays
  BY <1>1, <1>2, <1>6, OverType
<1>9. ViewsOf' = Append(fv, Over(Over(v, p), t))
  <2>1. Len(f) + 1 = n - 1
    BY <1>0, <1>2
  <2>2. StackViews(base, Append(f, Over(p, t))) = Append(fv, Over(v, Over(p, t)))
    BY <1>0, <1>2, <1>8, <2>1, StackViewsAppend, ZenonT(40)
  <2>3. Over(v, Over(p, t)) = Over(Over(v, p), t)
    BY <1>1, <1>2, <1>4, OverAssociative
  <2>4. ViewsOf' = StackViews(base, Append(f, Over(p, t)))
    BY <1>0 DEF CommitMerge, ViewsOf
  <2>5. QED
    BY <2>2, <2>3, <2>4
<1>10. ViewsOf[n + 1] = Over(Over(v, p), t)
  <2>1. Append(fv, Over(v, p)) \in Seq(Views) /\ Len(Append(fv, Over(v, p))) = n
    BY <1>0, <1>3, <1>6, AppendProperties
  <2>2. QED
    BY <1>7, <1>8, <2>1, AppendProperties
<1>11. SubSeq(ViewsOf, 1, n - 1) = fv
  <2>1. n - 2 \in 0..Len(sessions) /\ (n - 2) + 1 = n - 1
    BY <1>0
  <2>2. StackViews(base, SubSeq(sessions, 1, n - 2)) =
           SubSeq(StackViews(base, sessions), 1, (n - 2) + 1)
    BY <1>0, <2>1, StackViewsPrefix
  <2>3. QED
    BY <1>0, <2>1, <2>2
<1>12. (n + 1) - 2 = n - 1 /\ n + 1 > 1 /\ n + 1 # 2
  BY <1>0
<1> HIDE DEF n, fv
<1>13. QED
  BY <1>0, <1>9, <1>10, <1>11, <1>12 DEF Abstract!Commit, Abstract!Top

\* Commit of the outermost session makes its view the committed one at once.
LEMMA CommitToBaseRefines == IInv /\ CommitToBase => Abstract!Commit
<1> SUFFICES ASSUME IInv, CommitToBase PROVE Abstract!Commit
  OBVIOUS
<1> DEFINE o == sessions[1]
<1>1. /\ prior = Idle /\ prior' = base /\ base' = base /\ sessions' = <<>> /\ flush' = o
      /\ base \in Views /\ sessions \in Seq(Overlays) /\ Len(sessions) = 1
      /\ Over(base, flush) = base
      /\ ViewsOf = StackViews(base, sessions)
  BY Committed DEF CommitToBase, IInv, TypeOK, ViewsOf
<1>2. o \in Overlays /\ sessions = Append(<<>>, o)
  BY <1>1, ElementOfSeq, SMTT(40)
<1>3. Over(base, o) \in Views
  BY <1>1, <1>2, OverType
<1>4. StackViews(base, <<>>) = <<base>>
  BY <1>1, StackViewsEmpty
<1>5. <<>> \in Seq(Overlays) /\ Len(<<>>) = 0
  BY EmptySeq
<1>6. StackViews(base, Append(<<>>, o)) =
         Append(StackViews(base, <<>>), Over(StackViews(base, <<>>)[Len(<<>>) + 1], o))
  BY <1>1, <1>2, <1>5, StackViewsAppend
<1>7. ViewsOf = Append(<<base>>, Over(base, o))
  <2>1. StackViews(base, <<>>)[Len(<<>>) + 1] = base
    BY <1>4, <1>5
  <2>2. ViewsOf = StackViews(base, Append(<<>>, o))
    BY <1>1, <1>2
  <2>3. QED
    BY <1>4, <1>6, <2>1, <2>2, Zenon
<1>8. ViewsOf' = <<Over(base, o)>>
  BY <1>1, <1>3, StackViewsEmpty DEF ViewsOf
<1> HIDE DEF o
<1>9. /\ Len(ViewsOf) = 2 /\ ViewsOf[2] = Over(base, o) /\ ViewsOf[1] = base
      /\ SubSeq(ViewsOf, 1, 0) = <<>>
  BY <1>7
<1>10. Append(<<>>, Over(base, o)) = <<Over(base, o)>>
  OBVIOUS
<1>11. QED
  BY <1>1, <1>8, <1>9, <1>10 DEF Abstract!Commit, Abstract!Top

\* While a flush runs there is one view: the store with the flush applied.
LEMMA FlushingView ==
    ASSUME IInv, sessions = <<>>
    PROVE  ViewsOf = <<Over(base, flush)>>
BY Committed, StackViewsEmpty DEF ViewsOf

\* Writing one key of a flush changes no view.
LEMMA FlushKeyStutters ==
    ASSUME IInv, IInv', NEW k \in Keys, FlushKey(k)
    PROVE  UNCHANGED Abstract!vvars
<1>1. sessions = <<>> /\ sessions' = <<>> /\ prior' = prior
  BY DEF FlushKey, IInv, FlushInv
<1>2. Over(base', flush') = Over(base, flush)
  BY DEF FlushKey, Over, IInv, TypeOK, Views, Overlays
<1>3. QED
  BY <1>1, <1>2 DEF ViewsOf, Abstract!vvars

\* A flush that stops early leaves old values exactly under the keys it had
\* not written: FlushInv is what makes the mixture one of prior and new.
LEMMA TornFlush ==
    ASSUME IInv, prior # Idle, base' = base, sessions' = <<>>,
           flush' = NoWrites, prior' = Idle
    PROVE  Abstract!Tear
<1> DEFINE kept == {k \in Keys : flush[k] = Unwritten}
           new == Over(base, flush)
<1>1. /\ base \in Views /\ sessions = <<>>
      /\ \A k \in Keys : flush[k] # Unwritten => base[k] = prior[k]
  BY DEF IInv, TypeOK, FlushInv
<1>2. ViewsOf = <<new>>
  BY <1>1, FlushingView
<1>3. ViewsOf' = <<base>>
  BY <1>1, OverNoWrites, StackViewsEmpty DEF ViewsOf
<1>4. base = [k \in Keys |-> IF k \in kept THEN new[k] ELSE prior[k]]
  BY <1>1 DEF Over, Views
<1>5. kept \in SUBSET Keys
  OBVIOUS
<1>6. Len(ViewsOf) = 1 /\ ViewsOf[1] = new
  BY <1>2
<1> HIDE DEF kept, new
<1>7. ViewsOf' = <<[k \in Keys |-> IF k \in kept THEN ViewsOf[Len(ViewsOf)][k] ELSE prior[k]]>>
  BY <1>3, <1>4, <1>6
<1>8. QED
  BY <1>5, <1>7 DEF Abstract!Tear, Abstract!Top

\* A crash loses the open sessions, or tears the flush under way.
LEMMA CrashRefines == IInv /\ Crash => Abstract!Crash \/ Abstract!Tear
<1> SUFFICES ASSUME IInv, Crash PROVE Abstract!Crash \/ Abstract!Tear
  OBVIOUS
<1>1. CASE prior # Idle
  BY <1>1, TornFlush DEF Crash
<1>2. CASE prior = Idle
  <2>1. base \in Views /\ sessions \in Seq(Overlays) /\ flush = NoWrites
    BY <1>2 DEF IInv, TypeOK, FlushInv
  <2>2. Over(base, NoWrites) = base
    BY <2>1, OverNoWrites
  <2>3. ViewsOf' = <<base>>
    BY <2>1, <2>2, StackViewsEmpty DEF Crash, ViewsOf
  <2>4. ViewsOf[1] = base
    <3>1. 0 \in 0..Len(sessions) /\ 0 + 1 = 1 /\ SubSeq(sessions, 1, 0) = <<>>
      BY Committed
    <3>2. StackViews(base, SubSeq(sessions, 1, 0)) = SubSeq(StackViews(base, sessions), 1, 0 + 1)
      BY <2>1, <3>1, StackViewsPrefix
    <3>3. <<base>> = SubSeq(ViewsOf, 1, 1)
      BY <2>1, <2>2, <3>1, <3>2, StackViewsEmpty DEF ViewsOf
    <3>4. SubSeq(ViewsOf, 1, 1)[1] = ViewsOf[1]
      BY Committed
    <3>5. QED
      BY <3>3, <3>4
  <2>5. QED
    BY <1>2, <2>3, <2>4 DEF Crash, Abstract!Crash
<1>3. QED
  BY <1>1, <1>2

\* Every step is a step of the view stack or a stutter.
LEMMA NextRefines == IInv /\ IInv' /\ [Next]_vars => [Abstract!Next]_(Abstract!vvars)
<1> SUFFICES ASSUME IInv, IInv', [Next]_vars PROVE [Abstract!Next]_(Abstract!vvars)
  OBVIOUS
<1> USE DEF Abstract!Next
<1>1. CASE BuildSession
  BY <1>1, BuildSessionRefines
<1>2. ASSUME NEW k \in Keys, NEW v \in Vals, Put(k, v) PROVE Abstract!Next
  BY <1>2, WriteEntryRefines DEF Put
<1>3. ASSUME NEW k \in Keys, Delete(k) PROVE Abstract!Next
  BY <1>3, WriteEntryRefines DEF Delete
<1>4. CASE CommitMerge
  BY <1>4, CommitMergeRefines
<1>5. CASE CommitToBase
  BY <1>5, CommitToBaseRefines
<1>6. ASSUME NEW k \in Keys, FlushKey(k) PROVE UNCHANGED Abstract!vvars
  BY <1>6, FlushKeyStutters
<1>7. CASE FlushDone
  BY <1>7 DEF FlushDone, ViewsOf, Abstract!Settle
<1>8. CASE FlushError
  <2>1. sessions = <<>>
    BY <1>8 DEF FlushError, IInv, FlushInv
  <2>2. QED
    BY <1>8, <2>1, TornFlush DEF FlushError
<1>9. CASE Revoke
  BY <1>9, RevokeRefines
<1>10. CASE Crash
  BY <1>10, CrashRefines
<1>11. CASE UNCHANGED vars
  BY <1>11 DEF vars, ViewsOf, Abstract!vvars
<1>12. QED
  BY <1>1, <1>2, <1>3, <1>4, <1>5, <1>6, <1>7, <1>8, <1>9, <1>10, <1>11 DEF Next

\* The initial states map to initial states of the view stack.
LEMMA InitRefines == Init => Abstract!Init
<1> SUFFICES ASSUME Init PROVE Abstract!Init
  OBVIOUS
<1>1. base \in Views /\ Over(base, flush) = base
  BY OverNoWrites DEF Init
<1>2. ViewsOf = <<base>>
  BY <1>1, StackViewsEmpty DEF Init, ViewsOf
<1>3. QED
  BY <1>1, <1>2 DEF Init, Views, Abstract!Init

\* For every set of keys and values and any nesting, Revoke restores exactly
\* the view the session started from, Commit (merge or flush) keeps what is
\* visible, and only a failed or interrupted flush to base can leave a store
\* that mixes the view before and after: the overlay stack of snapshot.go
\* implements the stack of full views.
THEOREM Refinement == Spec => RefinesViewStack
<1>1. Spec => []IInv
  BY InitIInv, NextIInv, PTL DEF Spec
<1>2. QED
  BY <1>1, InitRefines, NextRefines, PTL DEF Spec, RefinesViewStack, Abstract!Spec

-----------------------------------------------------------------------------
(* Scan, bottom-up, and Get, top-down.                                     *)

(* g lists, for each n up to m, base with the first n sessions merged in.  *)
Merges(b, ss, m, g) ==
    g = [n \in 0..m |-> IF n = 0 THEN b ELSE Over(g[n - 1], ss[n])]

\* There is such a g, so it is what Scan takes the last of.
LEMMA MergesExists == ASSUME NEW b, NEW ss, NEW m \in Nat PROVE \E g : Merges(b, ss, m, g)
<1> DEFINE N == {n \in Nat : \E g : Merges(b, ss, n, g)}
<1>1. 0 \in N
  <2> DEFINE g == [n \in 0..0 |-> b]
  <2>1. Merges(b, ss, 0, g)
    BY DEF Merges
  <2>2. QED
    BY <2>1
<1>2. ASSUME NEW n \in Nat, n \in N PROVE n + 1 \in N
  <2>1. PICK g : Merges(b, ss, n, g)
    BY <1>2
  <2> DEFINE last == Over(g[n], ss[n + 1])
             h == [i \in 0..(n + 1) |-> IF i = n + 1 THEN last ELSE g[i]]
  <2>2. ASSUME NEW i \in 0..n PROVE g[i] = IF i = 0 THEN b ELSE Over(g[i - 1], ss[i])
    BY <2>1 DEF Merges
  <2> HIDE DEF last
  <2>3. /\ h[n + 1] = last
        /\ \A i \in 0..n : h[i] = g[i]
    OBVIOUS
  <2>4. ASSUME NEW i \in 0..(n + 1)
        PROVE  h[i] = IF i = 0 THEN b ELSE Over(h[i - 1], ss[i])
    <3> HIDE DEF h
    <3>1. CASE i = n + 1
      <4>1. i # 0 /\ i - 1 = n /\ h[n] = g[n]
        BY <2>3, <3>1
      <4>2. QED
        BY <2>3, <3>1, <4>1 DEF last
    <3>2. CASE i # n + 1
      <4>1. i \in 0..n /\ (i # 0 => i - 1 \in 0..n)
        BY <3>2
      <4>2. h[i] = g[i] /\ (i # 0 => h[i - 1] = g[i - 1])
        BY <2>3, <4>1
      <4>3. QED
        BY <2>2, <4>1, <4>2
    <3>3. QED
      BY <3>1, <3>2
  <2>5. Merges(b, ss, n + 1, h)
    BY <2>4 DEF Merges
  <2>6. QED
    BY <2>5
<1>3. m \in N
  <2> HIDE DEF N
  <2> QED
    BY <1>1, <1>2, NatSetInduction
<1>4. QED
  BY <1>3

\* With the first n sessions merged, an entry is what a search of those
\* sessions finds; with all of them, what Get returns.
LEMMA ScanIsGet == ASSUME IInv PROVE ScanAgreesWithGet
<1> DEFINE ss == sessions
           m == Len(sessions)
           upto(n) == SubSeq(ss, 1, n)
<1>1. ss \in Seq(Overlays)
  BY DEF IInv, TypeOK
<1>2. m \in Nat /\ upto(m) = ss
  BY <1>1, LenProperties
<1>3. Scan = (CHOOSE g : Merges(base, ss, m, g))[m]
  BY DEF Scan, Merges
<1>4. PICK g : Merges(base, ss, m, g) /\ Scan = g[m]
  BY <1>2, <1>3, MergesExists
<1> HIDE DEF ss, m
<1>5. ASSUME NEW n \in 0..m PROVE g[n] = IF n = 0 THEN base ELSE Over(g[n - 1], ss[n])
  BY <1>4 DEF Merges
<1> DEFINE Good(n) == \A k \in Keys : g[n][k] = Lookup(base, upto(n), k)
           N == {n \in Nat : n <= m => Good(n)}
<1>6. 0 \in N
  <2>1. g[0] = base /\ upto(0) = <<>>
    BY <1>1, <1>2, <1>5
  <2>2. \A k \in Keys : Lookup(base, <<>>, k) = base[k]
    BY DEF Lookup, Writers
  <2>3. QED
    BY <2>1, <2>2
<1>7. ASSUME NEW n \in Nat, n \in N PROVE n + 1 \in N
  <2> SUFFICES ASSUME n + 1 <= m, NEW k \in Keys
               PROVE  g[n + 1][k] = Lookup(base, upto(n + 1), k)
    OBVIOUS
  <2>1. n \in 0..m /\ n + 1 \in 1..m /\ n + 1 # 0 /\ n + 1 \in 0..m /\ (n + 1) - 1 = n
    BY <1>2
  <2>2. Len(ss) = m
    BY DEF ss, m
  <2>3. /\ ss[n + 1] \in Overlays /\ upto(n) \in Seq(Overlays)
        /\ upto(n + 1) = Append(upto(n), ss[n + 1])
    BY <1>1, <2>1, <2>2
  <2>4. g[n][k] = Lookup(base, upto(n), k)
    BY <1>7, <2>1
  <2>5. g[n + 1] = Over(g[n], ss[n + 1])
    BY <1>5, <2>1
  <2> DEFINE tt == upto(n)
             e == ss[n + 1]
  <2> HIDE DEF tt, e
  <2>6. Lookup(base, Append(tt, e), k) = IF e[k] = Unwritten THEN Lookup(base, tt, k) ELSE e[k]
    BY <2>3, LookupAppend DEF tt, e
  <2>7. QED
    BY <2>3, <2>4, <2>5, <2>6 DEF Over, tt, e
<1>8. m \in N
  <2> HIDE DEF N
  <2> QED
    BY <1>2, <1>6, <1>7, NatSetInduction
<1>9. \A k \in Keys : g[m][k] = Lookup(base, upto(m), k)
  <2>1. \A n \in N : n <= m => Good(n)
    OBVIOUS
  <2>2. m <= m
    BY <1>2
  <2> HIDE DEF N
  <2>3. Good(m)
    BY <1>8, <2>1, <2>2
  <2>4. QED
    BY <2>3
<1>10. \A k \in Keys : Scan[k] = Lookup(base, ss, k)
  <2> HIDE DEF upto
  <2> QED
    BY <1>2, <1>4, <1>9
<1>11. QED
  BY <1>10 DEF ScanAgreesWithGet, Get, ss

\* In every reachable state, also half way through a flush, the merged view of
\* Scan (snapshot.go 93-126) and the search of Get answer every key alike.
THEOREM ScanTheorem == Spec => []ScanAgreesWithGet
<1>1. Spec => []IInv
  BY InitIInv, NextIInv, PTL DEF Spec
<1>2. IInv => ScanAgreesWithGet
  BY ScanIsGet
<1>3. QED
  BY <1>1, <1>2, PTL

=============================================================================
