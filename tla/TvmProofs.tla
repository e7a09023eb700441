------------------------------ MODULE TvmProofs ------------------------------
(***************************************************************************)
(* Proofs about smart-contract execution.  First a transaction with its    *)
(* nested frames (module CallFrames), for any accounts, costs, budgets and *)
(* call depth; then one frame (module Interpreter), for any code, input,   *)
(* width of words and limits, with what it needs of the words (Words).     *)
(***************************************************************************)
EXTENDS CallFrames, Interpreter, NatFacts, SequenceTheorems, TLAPS

-----------------------------------------------------------------------------
(* The working copy.                                                       *)

Copies == [Addresses -> VmAccount]

BalSum(w) == SumFunction([a \in Addresses |-> w[a].bal])

(* What Flush relies on: a change of the copy w over the stores st is      *)
(* marked, and an account that exists in w will exist in the stores.       *)
Marks(st, w) ==
    \A a \in Addresses :
        /\ ~w[a].balDirty => w[a].bal = st[a].bal
        /\ ~w[a].codeDirty => w[a].code = st[a].code
        /\ ~w[a].slotDirty => w[a].slot = st[a].slot
        /\ w[a].exists <=> (st[a].exists \/ w[a].balDirty \/ w[a].codeDirty)
        /\ w[a].code > 0 => w[a].exists

(* No account goes away.                                                   *)
Grows(w, v) == \A a \in Addresses : w[a].exists => v[a].exists

(* v follows w by vmStateDB calls that keep what the proofs rely on.       *)
Follows(st, w, v) ==
    /\ v \in Copies
    /\ Grows(w, v)
    /\ Marks(st, w) => Marks(st, v)

\* Two copies that differ in the balance of one account: the totals differ by
\* the same amount.
LEMMA BalSumUpdate ==
    ASSUME NEW w \in Copies, NEW v \in Copies, NEW a \in Addresses,
           \A b \in Addresses \ {a} : v[b].bal = w[b].bal
    PROVE  BalSum(v) = BalSum(w) - w[a].bal + v[a].bal
<1> DEFINE f == [b \in Addresses |-> w[b].bal]
           g == [b \in Addresses |-> v[b].bal]
<1>1. \A b \in Addresses : f[b] \in Int /\ g[b] \in Int
  BY DEF Copies, VmAccount
<1>2. \A b \in Addresses \ {a} : f[b] = g[b]
  OBVIOUS
<1>3. IsFiniteSet(Addresses)
  BY CallFramesAssumption
<1>4. f[a] = w[a].bal /\ g[a] = v[a].bal
  OBVIOUS
<1>5. BalSum(w) = SumFunctionOnSet(f, Addresses) /\ BalSum(v) = SumFunctionOnSet(g, Addresses)
  BY DEF BalSum, SumFunction
<1> HIDE DEF f, g
<1>6. SumFunctionOnSet(g, Addresses) = SumFunctionOnSet(f, Addresses) - f[a] + g[a]
  BY <1>1, <1>2, <1>3, SumUpdate
<1>7. QED
  BY <1>4, <1>5, <1>6

\* The total of a copy is an integer, and only the balances matter to it.
LEMMA BalSumSame ==
    ASSUME NEW w \in Copies, NEW v \in Copies, \A b \in Addresses : v[b].bal = w[b].bal
    PROVE  BalSum(v) = BalSum(w) /\ BalSum(w) \in Int
<1> DEFINE f == [b \in Addresses |-> w[b].bal]
           g == [b \in Addresses |-> v[b].bal]
<1>1. \A b \in Addresses : f[b] \in Int
  BY DEF Copies, VmAccount
<1>2. IsFiniteSet(Addresses)
  BY CallFramesAssumption
<1>3. f = g /\ BalSum(w) = SumFunctionOnSet(f, Addresses) /\ BalSum(v) = SumFunctionOnSet(g, Addresses)
  BY DEF BalSum, SumFunction
<1> HIDE DEF f, g
<1>4. SumFunctionOnSet(f, Addresses) \in Int
  BY <1>1, <1>2, SumInt
<1>5. QED
  BY <1>3, <1>4

\* CreateAccount marks the account, makes it exist and moves no TRX.
LEMMA CreateAccountFollows ==
    ASSUME NEW st, NEW w \in Copies, NEW a \in Addresses
    PROVE  /\ Follows(st, w, CreateAccount(w, a))
           /\ CreateAccount(w, a)[a].exists
           /\ BalSum(CreateAccount(w, a)) = BalSum(w)
<1> DEFINE v == CreateAccount(w, a)
<1>1. v \in Copies /\ v[a].exists /\ \A b \in Addresses : v[b].bal = w[b].bal
  BY DEF CreateAccount, Copies, VmAccount
<1>2. Follows(st, w, v)
  BY <1>1 DEF CreateAccount, Copies, VmAccount, Follows, Grows, Marks
<1> HIDE DEF v
<1>3. BalSum(v) = BalSum(w)
  BY <1>1, BalSumSame
<1>4. QED
  BY <1>1, <1>2, <1>3 DEF v

\* AddBalance marks the account and adds to the total.
LEMMA AddBalanceFollows ==
    ASSUME NEW st, NEW w \in Copies, NEW a \in Addresses, NEW n \in Int
    PROVE  /\ Follows(st, w, AddBalance(w, a, n))
           /\ BalSum(AddBalance(w, a, n)) = BalSum(w) + n
<1> DEFINE v == AddBalance(w, a, n)
           r == [w[a] EXCEPT !.bal = w[a].bal + n, !.balDirty = TRUE, !.exists = TRUE]
<1>0. v = [w EXCEPT ![a] = r] /\ w[a] \in VmAccount
  BY DEF AddBalance, Copies
<1>1. v \in Copies /\ v[a].bal = w[a].bal + n /\ w[a].bal \in Int
      /\ \A b \in Addresses \ {a} : v[b].bal = w[b].bal
  <2>1. r \in VmAccount /\ r.bal = w[a].bal + n /\ w[a].bal \in Int
    <3>1. w[a].bal \in Int /\ w[a].bal + n \in Int
      BY <1>0 DEF VmAccount
    <3>2. r.bal = w[a].bal + n
      BY <1>0 DEF VmAccount
    <3>3. r \in VmAccount
      BY <1>0, <3>1 DEF VmAccount
    <3>4. QED
      BY <3>1, <3>2, <3>3
  <2> HIDE DEF v, r
  <2>2. QED
    BY <1>0, <2>1 DEF Copies
<1>2. Follows(st, w, v)
  <2>1. /\ r.balDirty = TRUE /\ r.exists = TRUE /\ r.code = w[a].code
        /\ r.slot = w[a].slot /\ r.codeDirty = w[a].codeDirty /\ r.slotDirty = w[a].slotDirty
    BY <1>0 DEF VmAccount
  <2> HIDE DEF v, r
  <2>2. v[a] = r /\ \A b \in Addresses \ {a} : v[b] = w[b]
    BY <1>0 DEF Copies
  <2>3. Grows(w, v)
    BY <2>1, <2>2 DEF Grows
  <2>4. ASSUME Marks(st, w) PROVE Marks(st, v)
    BY <2>1, <2>2, <2>4 DEF Marks
  <2>5. QED
    BY <1>1, <2>3, <2>4 DEF Follows
<1> HIDE DEF v
<1>3. BalSum(v) = BalSum(w) - w[a].bal + v[a].bal /\ BalSum(w) \in Int
  BY <1>1, BalSumUpdate, BalSumSame
<1>4. QED
  BY <1>1, <1>2, <1>3 DEF v

\* SubBalance marks the account and takes from the total.
LEMMA SubBalanceFollows ==
    ASSUME NEW st, NEW w \in Copies, NEW a \in Addresses, NEW n \in Int
    PROVE  /\ Follows(st, w, SubBalance(w, a, n))
           /\ BalSum(SubBalance(w, a, n)) = BalSum(w) - n
<1> DEFINE v == SubBalance(w, a, n)
           r == [w[a] EXCEPT !.bal = w[a].bal - n, !.balDirty = TRUE, !.exists = TRUE]
<1>0. v = [w EXCEPT ![a] = r] /\ w[a] \in VmAccount
  BY DEF SubBalance, Copies
<1>1. v \in Copies /\ v[a].bal = w[a].bal - n /\ w[a].bal \in Int
      /\ \A b \in Addresses \ {a} : v[b].bal = w[b].bal
  <2>1. r \in VmAccount /\ r.bal = w[a].bal - n /\ w[a].bal \in Int
    <3>1. w[a].bal \in Int /\ w[a].bal - n \in Int
      BY <1>0 DEF VmAccount
    <3>2. r.bal = w[a].bal - n
      BY <1>0 DEF VmAccount
    <3>3. r \in VmAccount
      BY <1>0, <3>1 DEF VmAccount
    <3>4. QED
      BY <3>1, <3>2, <3>3
  <2> HIDE DEF v, r
  <2>2. QED
    BY <1>0, <2>1 DEF Copies
<1>2. Follows(st, w, v)
  <2>1. /\ r.balDirty = TRUE /\ r.exists = TRUE /\ r.code = w[a].code
        /\ r.slot = w[a].slot /\ r.codeDirty = w[a].codeDirty /\ r.slotDirty = w[a].slotDirty
    BY <1>0 DEF VmAccount
  <2> HIDE DEF v, r
  <2>2. v[a] = r /\ \A b \in Addresses \ {a} : v[b] = w[b]
    BY <1>0 DEF Copies
  <2>3. Grows(w, v)
    BY <2>1, <2>2 DEF Grows
  <2>4. ASSUME Marks(st, w) PROVE Marks(st, v)
    BY <2>1, <2>2, <2>4 DEF Marks
  <2>5. QED
    BY <1>1, <2>3, <2>4 DEF Follows
<1> HIDE DEF v
<1>3. BalSum(v) = BalSum(w) - w[a].bal + v[a].bal /\ BalSum(w) \in Int
  BY <1>1, BalSumUpdate, BalSumSame
<1>4. QED
  BY <1>1, <1>2, <1>3 DEF v

\* Follows is reflexive and transitive.
LEMMA FollowsTrans ==
    ASSUME NEW st, NEW u \in Copies, NEW w, NEW v, Follows(st, u, w), Follows(st, w, v)
    PROVE  Follows(st, u, v)
BY DEF Follows, Grows

\* Transfer moves TRX between accounts and changes no total, also when an
\* account pays itself.
LEMMA TransferFollows ==
    ASSUME NEW st, NEW w \in Copies, NEW a \in Addresses, NEW b \in Addresses, NEW n \in Nat
    PROVE  /\ Follows(st, w, Transfer(w, a, b, n))
           /\ BalSum(Transfer(w, a, b, n)) = BalSum(w)
           /\ n = 0 => Transfer(w, a, b, n) = w
<1>1. CASE n = 0
  BY <1>1 DEF Transfer, Follows, Grows
<1>2. CASE n # 0
  <2> DEFINE u == SubBalance(w, a, n)
  <2>1. Follows(st, w, u) /\ BalSum(u) = BalSum(w) - n /\ u \in Copies
    BY SubBalanceFollows DEF Follows
  <2> HIDE DEF u
  <2>2. Follows(st, u, AddBalance(u, b, n)) /\ BalSum(AddBalance(u, b, n)) = BalSum(u) + n
    BY <2>1, AddBalanceFollows
  <2>3. BalSum(w) \in Int
    BY BalSumSame
  <2>4. Transfer(w, a, b, n) = AddBalance(u, b, n)
    BY <1>2 DEF Transfer, u
  <2>5. Follows(st, w, AddBalance(u, b, n))
    BY <2>1, <2>2, FollowsTrans
  <2>6. BalSum(AddBalance(u, b, n)) = BalSum(w)
    BY <2>1, <2>2, <2>3
  <2>7. QED
    BY <1>2, <2>4, <2>5, <2>6
<1>3. QED
  BY <1>1, <1>2

\* SetNonce is not flushed; it keeps everything else.
LEMMA SetNonceFollows ==
    ASSUME NEW st, NEW w \in Copies, NEW a \in Addresses, NEW n \in Nat
    PROVE  Follows(st, w, SetNonce(w, a, n)) /\ BalSum(SetNonce(w, a, n)) = BalSum(w)
<1> DEFINE v == SetNonce(w, a, n)
<1>1. v \in Copies /\ \A b \in Addresses : v[b].bal = w[b].bal
  BY DEF SetNonce, Copies, VmAccount
<1>2. Follows(st, w, v)
  BY <1>1 DEF SetNonce, Copies, VmAccount, Follows, Grows, Marks
<1> HIDE DEF v
<1>3. BalSum(v) = BalSum(w)
  BY <1>1, BalSumSame
<1>4. QED
  BY <1>2, <1>3 DEF v

\* SetCode marks the code and makes the account exist.
LEMMA SetCodeFollows ==
    ASSUME NEW st, NEW w \in Copies, NEW a \in Addresses, NEW n \in 0 .. MaxCodeLength
    PROVE  Follows(st, w, SetCode(w, a, n)) /\ BalSum(SetCode(w, a, n)) = BalSum(w)
<1> DEFINE v == SetCode(w, a, n)
<1>1. v \in Copies /\ \A b \in Addresses : v[b].bal = w[b].bal
  <2>1. v = [w EXCEPT ![a] = [w[a] EXCEPT !.code = n, !.codeDirty = TRUE, !.exists = TRUE]]
    BY DEF SetCode, Copies
  <2>2. [w[a] EXCEPT !.code = n, !.codeDirty = TRUE, !.exists = TRUE] \in VmAccount
    BY DEF Copies, VmAccount
  <2>3. QED
    BY <2>1, <2>2 DEF Copies, VmAccount
<1>2. Follows(st, w, v)
  BY <1>1 DEF SetCode, Copies, VmAccount, Follows, Grows, Marks
<1> HIDE DEF v
<1>3. BalSum(v) = BalSum(w)
  BY <1>1, BalSumSame
<1>4. QED
  BY <1>2, <1>3 DEF v

\* SetStorage makes the account exist without a mark that Flush would see, so
\* it keeps Marks only for an account that exists already.
LEMMA SetStorageFollows ==
    ASSUME NEW st, NEW w \in Copies, NEW a \in Addresses, NEW x \in Slots, w[a].exists
    PROVE  Follows(st, w, SetStorage(w, a, x)) /\ BalSum(SetStorage(w, a, x)) = BalSum(w)
<1> DEFINE v == SetStorage(w, a, x)
<1>1. v \in Copies /\ \A b \in Addresses : v[b].bal = w[b].bal
  BY ZenonT(40) DEF SetStorage, Copies, VmAccount
<1>2. Follows(st, w, v)
  BY <1>1 DEF SetStorage, Copies, VmAccount, Follows, Grows, Marks
<1> HIDE DEF v
<1>3. BalSum(v) = BalSum(w)
  BY <1>1, BalSumSame
<1>4. QED
  BY <1>2, <1>3 DEF v

-----------------------------------------------------------------------------
(* The frames fr over the working copy w, the snapshots sn and the logs lg.*)

(* Every frame finds its way back: its snapshot and its log mark give what *)
(* it started from, and those of the frames below it lie deeper.           *)
WayBack(fr, sn, lg) ==
    /\ \A i \in DOMAIN fr :
          /\ fr[i].snap \in DOMAIN sn
          /\ sn[fr[i].snap] = fr[i].before.work
          /\ fr[i].logMark <= Len(lg)
          /\ fr[i].before.logs = SubSeq(lg, 1, fr[i].logMark)
    /\ \A i, j \in DOMAIN fr :
          i < j => fr[i].snap < fr[j].snap /\ fr[i].logMark <= fr[j].logMark

(* A static call is never left by going deeper, and changes nothing.       *)
Frozen(fr, w, lg) ==
    /\ \A i, j \in DOMAIN fr : i < j /\ fr[i].readOnly => fr[j].readOnly
    /\ \A i \in DOMAIN fr :
          fr[i].readOnly => w = fr[i].before.work /\ lg = fr[i].before.logs
    /\ \A i \in DOMAIN fr : fr[i].kind = "create" => ~fr[i].readOnly

(* The account a program runs on exists, now and after every return.       *)
Alive(fr, w) ==
    /\ \A i \in DOMAIN fr : fr[i].hasCode => w[fr[i].self].exists
    /\ \A i, j \in DOMAIN fr :
          i < j /\ fr[i].hasCode => fr[j].before.work[fr[i].self].exists

(* The copy, now and after every return, is marked and adds up.            *)
Sound(st, w) == Marks(st, w) /\ BalSum(w) = SumFunction(InitialBalance)
AllSound(st, fr, w) ==
    /\ Sound(st, w)
    /\ \A i \in DOMAIN fr : Sound(st, fr[i].before.work)

Trail(st, fr, w, sn, lg) ==
    /\ fr \in Seq(Frames) /\ w \in Copies /\ sn \in Seq(Copies) /\ lg \in Seq(Addresses)
    /\ WayBack(fr, sn, lg)
    /\ Frozen(fr, w, lg)
    /\ Alive(fr, w)
    /\ AllSound(st, fr, w)

(* The same frames but for what the meters show.                           *)
SameButUsed(fr, gr) ==
    /\ gr \in Seq(Frames)
    /\ Len(gr) = Len(fr)
    /\ \A i \in DOMAIN fr :
          /\ gr[i].self = fr[i].self /\ gr[i].readOnly = fr[i].readOnly
          /\ gr[i].hasCode = fr[i].hasCode /\ gr[i].snap = fr[i].snap
          /\ gr[i].logMark = fr[i].logMark /\ gr[i].before = fr[i].before
          /\ gr[i].limit = fr[i].limit /\ gr[i].kind = fr[i].kind

\* The fields of a frame.
LEMMA FrameFields ==
    ASSUME NEW f \in Frames
    PROVE  /\ f.self \in Addresses /\ f.snap \in Nat /\ f.logMark \in Nat
           /\ f.limit \in Nat /\ f.used \in Nat
           /\ f.before.work \in Copies /\ f.before.logs \in Seq(Addresses)
BY DEF Frames, Copies

\* The frames of a sequence are frames.
LEMMA FrameOf ==
    ASSUME NEW fr \in Seq(Frames), NEW i \in DOMAIN fr
    PROVE  fr[i] \in Frames
OBVIOUS

\* Meters do not matter to the trail.
LEMMA TrailMeters ==
    ASSUME NEW st, NEW fr, NEW w, NEW sn, NEW lg, Trail(st, fr, w, sn, lg),
           NEW gr, SameButUsed(fr, gr)
    PROVE  Trail(st, gr, w, sn, lg)
<1> fr \in Seq(Frames) /\ gr \in Seq(Frames) /\ DOMAIN fr = DOMAIN gr
  BY DEF Trail, SameButUsed
<1>1. WayBack(gr, sn, lg)
  BY ZenonT(40) DEF Trail, SameButUsed, WayBack
<1>2. Frozen(gr, w, lg)
  BY ZenonT(40) DEF Trail, SameButUsed, Frozen
<1>3. Alive(gr, w)
  BY DEF Trail, SameButUsed, Alive
<1>4. AllSound(st, gr, w)
  BY DEF Trail, SameButUsed, AllSound
<1>5. QED
  BY <1>1, <1>2, <1>3, <1>4 DEF Trail

\* Outside of static calls the working copy may change.
LEMMA TrailWork ==
    ASSUME NEW st, NEW fr, NEW w, NEW sn, NEW lg, Trail(st, fr, w, sn, lg),
           NEW v, Follows(st, w, v), BalSum(v) = BalSum(w),
           fr = <<>> \/ ~fr[Len(fr)].readOnly \/ v = w
    PROVE  Trail(st, fr, v, sn, lg)
<1> fr \in Seq(Frames) /\ v \in Copies /\ w \in Copies
  BY DEF Trail, Follows
<1>1. v = w \/ \A i \in DOMAIN fr : ~fr[i].readOnly
  BY DEF Trail, Frozen
<1>2. Frozen(fr, v, lg)
  BY <1>1 DEF Trail, Frozen
<1>3. Alive(fr, v)
  <2>1. \A i \in DOMAIN fr : fr[i].self \in Addresses
    BY FrameOf, FrameFields
  <2>2. QED
    BY <2>1 DEF Trail, Alive, Follows, Grows
<1>4. AllSound(st, fr, v)
  BY DEF Trail, AllSound, Sound, Follows
<1>5. QED
  BY <1>2, <1>3, <1>4 DEF Trail

\* Outside of static calls an event may be logged.
LEMMA TrailLog ==
    ASSUME NEW st, NEW fr, NEW w, NEW sn, NEW lg, Trail(st, fr, w, sn, lg),
           NEW a \in Addresses, fr # <<>>, ~fr[Len(fr)].readOnly
    PROVE  Trail(st, fr, w, sn, Append(lg, a))
<1> fr \in Seq(Frames) /\ lg \in Seq(Addresses)
  BY DEF Trail
<1>1. \A i \in DOMAIN fr : ~fr[i].readOnly
  BY DEF Trail, Frozen
<1>2. Frozen(fr, w, Append(lg, a))
  BY <1>1 DEF Trail, Frozen
<1>3. WayBack(fr, sn, Append(lg, a))
  <2>1. \A i \in DOMAIN fr : fr[i].logMark \in Nat /\ fr[i].logMark <= Len(lg)
    BY FrameOf, FrameFields DEF Trail, WayBack
  <2>2. \A k \in Nat : k <= Len(lg) => SubSeq(Append(lg, a), 1, k) = SubSeq(lg, 1, k)
    OBVIOUS
  <2>3. QED
    BY <2>1, <2>2 DEF Trail, WayBack
<1>4. Append(lg, a) \in Seq(Addresses)
  OBVIOUS
<1>5. QED
  BY <1>2, <1>3, <1>4 DEF Trail

\* A snapshot more does no harm (a precompiled contract leaves one behind).
LEMMA TrailSnap ==
    ASSUME NEW st, NEW fr, NEW w, NEW sn, NEW lg, Trail(st, fr, w, sn, lg), NEW v \in Copies
    PROVE  Trail(st, fr, w, Append(sn, v), lg)
<1> fr \in Seq(Frames) /\ sn \in Seq(Copies)
  BY DEF Trail
<1>1. WayBack(fr, Append(sn, v), lg)
  BY DEF Trail, WayBack
<1>2. QED
  BY <1>1 DEF Trail

\* A frame is entered over the copy w, and starts from v.
LEMMA TrailEnter ==
    ASSUME NEW st, NEW fr, NEW w, NEW sn, NEW lg, Trail(st, fr, w, sn, lg),
           NEW v, Follows(st, w, v), BalSum(v) = BalSum(w),
           NEW f \in Frames, f.snap = Len(sn) + 1, f.logMark = Len(lg),
           f.before = [work |-> w, logs |-> lg],
           f.hasCode => v[f.self].exists,
           f.readOnly => v = w,
           f.kind = "create" => ~f.readOnly,
           fr # <<>> => (fr[Len(fr)].readOnly => f.readOnly)
    PROVE  Trail(st, Append(fr, f), v, Append(sn, w), lg)
<1> fr \in Seq(Frames) /\ sn \in Seq(Copies) /\ lg \in Seq(Addresses) /\ v \in Copies /\ w \in Copies
  BY DEF Trail, Follows
<1> DEFINE gr == Append(fr, f)
           n == Len(fr) + 1
<1>1. /\ gr \in Seq(Frames) /\ Len(gr) = n /\ gr[n] = f /\ n \in Nat
      /\ \A i \in DOMAIN gr : i # n => i \in DOMAIN fr /\ gr[i] = fr[i]
      /\ \A i \in DOMAIN gr : i <= n
  OBVIOUS
<1>2. Append(sn, w) \in Seq(Copies)
  OBVIOUS
<1> HIDE DEF gr, n
<1>3. WayBack(gr, Append(sn, w), lg)
  <2>1. SubSeq(lg, 1, Len(lg)) = lg
    OBVIOUS
  <2>2. \A i \in DOMAIN fr : fr[i].snap \in DOMAIN sn /\ fr[i].logMark <= Len(lg)
    BY DEF Trail, WayBack
  <2>3. ASSUME NEW i \in DOMAIN gr
        PROVE  /\ gr[i].snap \in DOMAIN Append(sn, w)
               /\ Append(sn, w)[gr[i].snap] = gr[i].before.work
               /\ gr[i].logMark <= Len(lg)
               /\ gr[i].before.logs = SubSeq(lg, 1, gr[i].logMark)
    <3>1. CASE i = n
      BY <1>1, <2>1, <3>1
    <3>2. CASE i # n
      BY <1>1, <3>2 DEF Trail, WayBack
    <3>3. QED
      BY <3>1, <3>2
  <2>4. ASSUME NEW i \in DOMAIN gr, NEW j \in DOMAIN gr, i < j
        PROVE  gr[i].snap < gr[j].snap /\ gr[i].logMark <= gr[j].logMark
    <3>1. i # n /\ i \in DOMAIN fr /\ gr[i] = fr[i]
      BY <1>1, <2>4
    <3>2. CASE j = n
      BY <1>1, <2>2, <3>1, <3>2
    <3>3. CASE j # n
      BY <1>1, <2>4, <3>1, <3>3 DEF Trail, WayBack
    <3>4. QED
      BY <3>2, <3>3
  <2>5. QED
    BY <2>3, <2>4 DEF WayBack
<1>4. Frozen(gr, v, lg)
  <2>1. \A i \in DOMAIN fr : fr[i].readOnly => f.readOnly
    <3>1. fr # <<>> => \A i \in DOMAIN fr : fr[i].readOnly => fr[Len(fr)].readOnly
      BY DEF Trail, Frozen
    <3>2. QED
      BY <3>1
  <2>2. \A i \in DOMAIN fr : fr[i].readOnly => v = fr[i].before.work /\ lg = fr[i].before.logs
    BY <2>1 DEF Trail, Frozen
  <2>3. ASSUME NEW i \in DOMAIN gr, NEW j \in DOMAIN gr, i < j, gr[i].readOnly PROVE gr[j].readOnly
    <3>1. i # n /\ i \in DOMAIN fr /\ gr[i] = fr[i]
      BY <1>1, <2>3
    <3>2. CASE j = n
      BY <1>1, <2>1, <2>3, <3>1, <3>2
    <3>3. CASE j # n
      BY <1>1, <2>3, <3>1, <3>3 DEF Trail, Frozen
    <3>4. QED
      BY <3>2, <3>3
  <2>4. ASSUME NEW i \in DOMAIN gr, gr[i].readOnly
        PROVE  v = gr[i].before.work /\ lg = gr[i].before.logs
    <3>1. CASE i = n
      BY <1>1, <2>4, <3>1
    <3>2. CASE i # n
      <4>1. i \in DOMAIN fr /\ gr[i] = fr[i]
        BY <1>1, <3>2
      <4>2. QED
        BY <2>2, <2>4, <4>1
    <3>3. QED
      BY <3>1, <3>2
  <2>5. \A i \in DOMAIN gr : gr[i].kind = "create" => ~gr[i].readOnly
    BY <1>1 DEF Trail, Frozen
  <2>6. QED
    BY <2>3, <2>4, <2>5 DEF Frozen
<1>5. Alive(gr, v)
  <2>1. \A i \in DOMAIN fr : fr[i].hasCode => w[fr[i].self].exists /\ v[fr[i].self].exists
    <3>1. \A i \in DOMAIN fr : fr[i].self \in Addresses
      BY FrameOf, FrameFields
    <3>2. QED
      BY <3>1 DEF Trail, Alive, Follows, Grows
  <2>2. \A i \in DOMAIN gr : gr[i].hasCode => v[gr[i].self].exists
    BY <1>1, <2>1
  <2>3. ASSUME NEW i \in DOMAIN gr, NEW j \in DOMAIN gr, i < j, gr[i].hasCode
        PROVE  gr[j].before.work[gr[i].self].exists
    <3>1. i # n /\ i \in DOMAIN fr /\ gr[i] = fr[i]
      BY <1>1, <2>3
    <3>2. CASE j = n
      BY <1>1, <2>1, <2>3, <3>1, <3>2
    <3>3. CASE j # n
      BY <1>1, <2>3, <3>1, <3>3 DEF Trail, Alive
    <3>4. QED
      BY <3>2, <3>3
  <2>4. QED
    BY <2>2, <2>3 DEF Alive
<1>6. AllSound(st, gr, v)
  <2>1. Sound(st, w) /\ Sound(st, v)
    BY DEF Trail, AllSound, Sound, Follows
  <2>2. ASSUME NEW i \in DOMAIN gr PROVE Sound(st, gr[i].before.work)
    <3>1. CASE i = n
      BY <1>1, <2>1, <3>1
    <3>2. CASE i # n
      BY <1>1, <3>2 DEF Trail, AllSound
    <3>3. QED
      BY <3>1, <3>2
  <2>3. QED
    BY <2>1, <2>2 DEF AllSound
<1>7. QED
  BY <1>1, <1>2, <1>3, <1>4, <1>5, <1>6 DEF Trail, gr

\* gr is fr without its last frame.
Without(fr, gr) ==
    /\ gr \in Seq(Frames)
    /\ Len(fr) = Len(gr) + 1
    /\ \A i \in DOMAIN gr : gr[i] = fr[i]

\* A frame is left and what it did stays.
LEMMA TrailLeave ==
    ASSUME NEW st, NEW fr, NEW w, NEW sn, NEW lg, Trail(st, fr, w, sn, lg),
           NEW gr, Without(fr, gr)
    PROVE  Trail(st, gr, w, sn, lg)
<1> fr \in Seq(Frames) /\ gr \in Seq(Frames)
  BY DEF Trail, Without
<1>1. \A i \in DOMAIN gr : i \in DOMAIN fr /\ gr[i] = fr[i]
  BY DEF Without
<1>2. WayBack(gr, sn, lg)
  BY <1>1 DEF Trail, WayBack
<1>3. Frozen(gr, w, lg)
  BY <1>1 DEF Trail, Frozen
<1>4. Alive(gr, w)
  BY <1>1 DEF Trail, Alive
<1>5. AllSound(st, gr, w)
  BY <1>1 DEF Trail, AllSound
<1>6. QED
  BY <1>2, <1>3, <1>4, <1>5 DEF Trail

\* What RevertToSnapshot and the log mark restore for the innermost frame is
\* what it started from.
LEMMA TrailRestores ==
    ASSUME NEW st, NEW fr, NEW w, NEW sn, NEW lg, Trail(st, fr, w, sn, lg), fr # <<>>,
           NEW f, f = fr[Len(fr)]
    PROVE  /\ f \in Frames /\ f.snap \in DOMAIN sn /\ sn[f.snap] = f.before.work
           /\ SubSeq(lg, 1, f.logMark) = f.before.logs
           /\ f.before.work \in Copies /\ Sound(st, f.before.work)
<1> fr \in Seq(Frames) /\ Len(fr) \in DOMAIN fr
  BY DEF Trail
<1>1. f \in Frames /\ f.before.work \in Copies
  BY FrameOf, FrameFields
<1>2. QED
  BY <1>1 DEF Trail, WayBack, AllSound

\* A frame is left and what it did is undone.
LEMMA TrailUndo ==
    ASSUME NEW st, NEW fr, NEW w, NEW sn, NEW lg, Trail(st, fr, w, sn, lg),
           NEW gr, Without(fr, gr), NEW f, f = fr[Len(fr)]
    PROVE  Trail(st, gr, f.before.work, SubSeq(sn, 1, f.snap - 1), SubSeq(lg, 1, f.logMark))
<1> DEFINE n == Len(fr)
           lh == SubSeq(lg, 1, f.logMark)
           sm == SubSeq(sn, 1, f.snap - 1)
<1>1. /\ fr \in Seq(Frames) /\ gr \in Seq(Frames) /\ sn \in Seq(Copies) /\ lg \in Seq(Addresses)
      /\ w \in Copies /\ n \in DOMAIN fr
      /\ \A i \in DOMAIN gr : i \in DOMAIN fr /\ gr[i] = fr[i] /\ i < n
  BY DEF Trail, Without
<1>2. f \in Frames /\ f.snap \in DOMAIN sn /\ f.logMark \in Nat /\ f.logMark <= Len(lg)
      /\ f.before.work \in Copies /\ f.before.logs = lh
  <2>1. f \in Frames /\ f.before.work \in Copies /\ f.logMark \in Nat
    BY <1>1, FrameOf, FrameFields
  <2>2. QED
    BY <1>1, <2>1 DEF Trail, WayBack
<1>3. sm \in Seq(Copies) /\ Len(sm) = f.snap - 1 /\ \A k \in 1 .. f.snap - 1 : sm[k] = sn[k]
  BY <1>1, <1>2
<1>4. lh \in Seq(Addresses) /\ Len(lh) = f.logMark
  BY <1>1, <1>2
<1>5. \A k \in Nat : k <= f.logMark => SubSeq(lh, 1, k) = SubSeq(lg, 1, k)
  BY <1>1, <1>2
<1> HIDE DEF n, lh, sm
<1>6. \A i \in DOMAIN gr : /\ fr[i].snap \in 1 .. f.snap - 1
                           /\ fr[i].logMark \in Nat /\ fr[i].logMark <= f.logMark
  <2> TAKE i \in DOMAIN gr
  <2>1. i \in DOMAIN fr /\ i < n /\ fr[i] \in Frames
    BY <1>1
  <2>2. fr[i].snap < f.snap /\ fr[i].logMark <= f.logMark /\ fr[i].snap \in DOMAIN sn
    BY <1>1, <2>1 DEF Trail, WayBack, n
  <2>3. fr[i].snap \in Nat /\ fr[i].logMark \in Nat /\ f.snap \in Nat
    BY <2>1, <1>2, FrameFields
  <2>4. QED
    BY <1>1, <2>2, <2>3
<1>7. WayBack(gr, sm, lh)
  <2>1. ASSUME NEW i \in DOMAIN gr
        PROVE  /\ gr[i].snap \in DOMAIN sm
               /\ sm[gr[i].snap] = gr[i].before.work
               /\ gr[i].logMark <= Len(lh)
               /\ gr[i].before.logs = SubSeq(lh, 1, gr[i].logMark)
    <3>1. gr[i] = fr[i] /\ i \in DOMAIN fr /\ DOMAIN sm = 1 .. f.snap - 1
      BY <1>1, <1>3
    <3>2. sn[fr[i].snap] = fr[i].before.work /\ fr[i].before.logs = SubSeq(lg, 1, fr[i].logMark)
      BY <3>1 DEF Trail, WayBack
    <3>3. QED
      BY <1>3, <1>4, <1>5, <1>6, <3>1, <3>2
  <2>2. ASSUME NEW i \in DOMAIN gr, NEW j \in DOMAIN gr, i < j
        PROVE  gr[i].snap < gr[j].snap /\ gr[i].logMark <= gr[j].logMark
    BY <1>1, <2>2 DEF Trail, WayBack
  <2>3. QED
    BY <2>1, <2>2 DEF WayBack
<1>8. Frozen(gr, f.before.work, lh)
  <2>1. \A i \in DOMAIN gr : gr[i].readOnly => f.readOnly
    BY <1>1 DEF Trail, Frozen, n
  <2>2. f.readOnly => w = f.before.work /\ lg = lh
    BY <1>1, <1>2 DEF Trail, Frozen, n
  <2>3. QED
    BY <1>1, <2>1, <2>2 DEF Trail, Frozen
<1>9. Alive(gr, f.before.work)
  BY <1>1 DEF Trail, Alive, n
<1>10. AllSound(st, gr, f.before.work)
  BY <1>1 DEF Trail, AllSound, n
<1>11. QED
  BY <1>1, <1>2, <1>3, <1>4, <1>7, <1>8, <1>9, <1>10 DEF Trail, lh, sm

-----------------------------------------------------------------------------
(* The energy meters.                                                      *)

RemSum(fr) == SumFunction([i \in DOMAIN fr |-> Remaining(fr[i])])
Metered(fr) == \A i \in DOMAIN fr : fr[i].used <= fr[i].limit

\* What a frame has left is a natural number.
LEMMA RemainingNat ==
    ASSUME NEW fr \in Seq(Frames), Metered(fr), NEW i \in DOMAIN fr
    PROVE  Remaining(fr[i]) \in Nat
<1>1. fr[i].limit \in Nat /\ fr[i].used \in Nat
  BY FrameOf, FrameFields
<1>2. QED
  BY <1>1 DEF Metered, Remaining

\* The sum over frames as a sum over 1..Len; it is a natural number.
LEMMA RemSumNat ==
    ASSUME NEW fr \in Seq(Frames)
    PROVE  /\ RemSum(fr) \in Int
           /\ Metered(fr) => RemSum(fr) \in Nat
<1> DEFINE f == [i \in DOMAIN fr |-> Remaining(fr[i])]
<1>1. DOMAIN f = 1 .. Len(fr) /\ IsFiniteSet(DOMAIN f)
  BY FS_Interval
<1>2. \A i \in DOMAIN f : f[i] \in Int
  BY FrameOf, FrameFields DEF Remaining
<1>3. Metered(fr) => \A i \in DOMAIN f : f[i] \in Nat
  BY RemainingNat
<1>4. RemSum(fr) = SumFunctionOnSet(f, DOMAIN f)
  BY DEF RemSum, SumFunction
<1> HIDE DEF f
<1>5. QED
  BY <1>1, <1>2, <1>3, <1>4, SumInt, SumNat

\* Without frames there is no energy left.
LEMMA RemSumEmpty == RemSum(<<>>) = 0
BY SumEmpty DEF RemSum, SumFunction

\* A new frame adds what it may spend.
LEMMA RemSumWithout ==
    ASSUME NEW fr \in Seq(Frames), NEW gr, Without(fr, gr)
    PROVE  RemSum(fr) = RemSum(gr) + Remaining(fr[Len(fr)])
<1> DEFINE f == [i \in DOMAIN gr |-> Remaining(gr[i])]
           g == [i \in DOMAIN fr |-> Remaining(fr[i])]
           n == Len(gr)
<1>1. gr \in Seq(Frames) /\ n \in Nat /\ DOMAIN f = 1 .. n /\ DOMAIN g = 1 .. n + 1 /\ Len(fr) = n + 1
  BY DEF Without
<1>2. \A i \in 1 .. n : f[i] = g[i]
  BY <1>1 DEF Without
<1>3. \A i \in 1 .. n + 1 : g[i] \in Int
  BY <1>1, FrameOf, FrameFields DEF Remaining
<1>4. g[n + 1] = Remaining(fr[Len(fr)])
  BY <1>1
<1>5. RemSum(gr) = SumFunctionOnSet(f, 1 .. n) /\ RemSum(fr) = SumFunctionOnSet(g, 1 .. n + 1)
  BY <1>1 DEF RemSum, SumFunction
<1> HIDE DEF f, g, n
<1>6. SumFunctionOnSet(g, 1 .. n + 1) = SumFunctionOnSet(f, 1 .. n) + g[n + 1]
  BY <1>1, <1>2, <1>3, SumExtend
<1>7. QED
  BY <1>4, <1>5, <1>6

MeterAt(fr, u) == [fr EXCEPT ![Len(fr)] = [fr[Len(fr)] EXCEPT !.used = u]]

\* The innermost frame's meter moves: the rest of the frames and its own other
\* fields stay, and the energy left in all frames changes by as much.
LEMMA MeterMoves ==
    ASSUME NEW fr \in Seq(Frames), fr # <<>>, Metered(fr), NEW u \in Nat,
           u <= fr[Len(fr)].limit,
           NEW gr, gr = MeterAt(fr, u)
    PROVE  /\ SameButUsed(fr, gr) /\ gr # <<>>
           /\ Metered(gr)
           /\ RemSum(gr) = RemSum(fr) + fr[Len(fr)].used - u
           /\ gr[1].before = fr[1].before /\ gr[1].limit = fr[1].limit
           /\ gr[Len(gr)].readOnly = fr[Len(fr)].readOnly
<1> DEFINE n == Len(fr)
           f == [i \in DOMAIN fr |-> Remaining(fr[i])]
           g == [i \in DOMAIN gr |-> Remaining(gr[i])]
<1>1. n \in Nat /\ n > 0 /\ n \in DOMAIN fr /\ DOMAIN fr = 1 .. n
  OBVIOUS
<1>2. fr[n] \in Frames /\ fr[n].used \in Nat /\ fr[n].limit \in Nat
  BY <1>1, FrameOf, FrameFields
<1>3. [fr[n] EXCEPT !.used = u] \in Frames
  BY <1>2 DEF Frames
<1>4. gr \in Seq(Frames) /\ Len(gr) = n /\ DOMAIN gr = DOMAIN fr
      /\ gr[n] = [fr[n] EXCEPT !.used = u] /\ \A i \in DOMAIN fr \ {n} : gr[i] = fr[i]
  BY <1>1, <1>3 DEF MeterAt
<1>5. gr[n].used = u /\ gr[n].limit = fr[n].limit /\ gr[n].self = fr[n].self
      /\ gr[n].readOnly = fr[n].readOnly /\ gr[n].hasCode = fr[n].hasCode
      /\ gr[n].snap = fr[n].snap /\ gr[n].logMark = fr[n].logMark /\ gr[n].before = fr[n].before
      /\ gr[n].kind = fr[n].kind
  BY <1>2, <1>4 DEF Frames
<1>6. SameButUsed(fr, gr)
  BY <1>1, <1>4, <1>5 DEF SameButUsed
<1>7. Metered(gr)
  <2>1. u <= fr[n].limit
    OBVIOUS
  <2>2. ASSUME NEW i \in DOMAIN fr PROVE gr[i].used <= gr[i].limit
    <3>1. CASE i = n
      BY <1>5, <2>1, <3>1
    <3>2. CASE i # n
      BY <1>4, <3>2 DEF Metered
    <3>3. QED
      BY <3>1, <3>2
  <2>3. QED
    BY <1>4, <2>2 DEF Metered
<1>8. RemSum(gr) = RemSum(fr) + fr[n].used - u
  <2> DEFINE D == 1 .. n
  <2>1. IsFiniteSet(D) /\ n \in D
    <3>1. n \in Nat /\ n \in Int /\ n >= 1 /\ 1 \in Int
      BY <1>1
    <3>2. IsFiniteSet(1 .. n)
      <4> HIDE DEF n, D
      <4> QED
        BY ONLY <3>1, FS_Interval, Zenon
    <3>3. QED
      BY <3>1, <3>2
  <2>2. \A i \in D : f[i] \in Int /\ g[i] \in Int
    BY <1>1, <1>4, FrameOf, FrameFields DEF Remaining
  <2>3. \A i \in D \ {n} : f[i] = g[i]
    BY <1>1, <1>4
  <2>4. f[n] = fr[n].limit - fr[n].used /\ g[n] = fr[n].limit - u
    BY <1>1, <1>4, <1>5 DEF Remaining
  <2>5. RemSum(fr) = SumFunctionOnSet(f, D) /\ RemSum(gr) = SumFunctionOnSet(g, D)
    BY <1>1, <1>4 DEF RemSum, SumFunction
  <2> HIDE DEF f, g, D, n
  <2>6. SumFunctionOnSet(g, D) = SumFunctionOnSet(f, D) - f[n] + g[n]
    BY <2>1, <2>2, <2>3, SumUpdate
  <2>7. RemSum(fr) \in Int
    BY RemSumNat
  <2>8. QED
    BY <1>2, <2>4, <2>5, <2>6, <2>7, SMTT(40)
<1>9. gr[1].before = fr[1].before /\ gr[1].limit = fr[1].limit
  BY <1>1, <1>6 DEF SameButUsed
<1>10. QED
  BY <1>1, <1>4, <1>5, <1>6, <1>7, <1>8, <1>9

\* A cost the innermost frame can pay is taken from its meter.
LEMMA ChargedFrames ==
    ASSUME frames \in Seq(Frames), Running, Metered(frames), NEW c \in Nat, CanSpend(c)
    PROVE  /\ SameButUsed(frames, Charged(c)) /\ Charged(c) # <<>>
           /\ Metered(Charged(c))
           /\ RemSum(Charged(c)) = RemSum(frames) - c
           /\ Charged(c)[1].before = frames[1].before
           /\ Charged(c)[1].limit = frames[1].limit
           /\ Charged(c)[Len(Charged(c))].readOnly = Inner.readOnly
<1>1. Len(frames) \in DOMAIN frames /\ Inner = frames[Len(frames)] /\ frames # <<>>
  BY DEF Running, Inner
<1>2. Inner.used \in Nat /\ Inner.limit \in Nat
  BY <1>1, FrameOf, FrameFields
<1> DEFINE u == Inner.used + c
<1>3. u \in Nat /\ u <= frames[Len(frames)].limit
  BY <1>1, <1>2 DEF CanSpend, Remaining
<1> DEFINE gr == Charged(c)
<1>4. gr = MeterAt(frames, u)
  BY <1>1 DEF Charged, Spend, MeterAt
<1>5. RemSum(frames) \in Int
  BY RemSumNat
<1> HIDE DEF u, gr
<1>6. /\ SameButUsed(frames, gr) /\ gr # <<>>
      /\ Metered(gr)
      /\ RemSum(gr) = RemSum(frames) + frames[Len(frames)].used - u
      /\ gr[1].before = frames[1].before
      /\ gr[1].limit = frames[1].limit
      /\ gr[Len(gr)].readOnly = frames[Len(frames)].readOnly
  BY <1>1, <1>3, <1>4, MeterMoves
<1>7. RemSum(gr) = RemSum(frames) - c
  BY <1>1, <1>2, <1>5, <1>6 DEF u
<1>8. QED
  BY <1>1, <1>6, <1>7 DEF gr

-----------------------------------------------------------------------------
(* The inductive invariant.                                                *)

TypeInv ==
    /\ stores \in [Addresses -> Account]
    /\ phase \in {"new", "running", "over"}
    /\ tx \in [create : BOOLEAN, callerEnergy : Nat, budget : Nat]
    /\ burned \in Nat
    /\ paidFor \in Nat

(* Until the end the stores are those the transaction found.               *)
Unfinished ==
    /\ Trail(stores, frames, work, snaps, logs)
    /\ burned = 0
    /\ stores[Owner].exists
    /\ \A a \in Addresses : stores[a].bal = InitialBalance[a]

(* The energy left in all frames and the energy of the steps taken stay    *)
(* within the budget, and the outermost frame started from the stores.     *)
Metering ==
    /\ Metered(frames)
    /\ frames[1].limit = tx.budget
    /\ RemSum(frames) + paidFor <= tx.budget
    /\ frames[1].before.work = NewVMStateDB

Settled ==
    /\ frames = <<>>
    /\ work \in Copies
    /\ BalSum(work) + burned = SumFunction(InitialBalance)

IInv ==
    /\ TypeInv
    /\ Running <=> phase = "running"
    /\ phase # "over" => Unfinished
    /\ phase = "new" => work = NewVMStateDB /\ paidFor = 0
    /\ Running => Metering
    /\ phase = "over" => Settled
    /\ FlushMissesNothing
    /\ ReceiptCoversSteps

(* What a step of a running transaction that pays for e of energy does,    *)
(* unless it is the last one.                                              *)
Goes(e) ==
    /\ UNCHANGED <<stores, txVars, burned>>
    /\ Trail(stores, frames', work', snaps', logs')
    /\ frames' # <<>>
    /\ frames'[1].before = frames[1].before
    /\ frames'[1].limit = frames[1].limit
    /\ Metered(frames')
    /\ RemSum(frames') + e <= RemSum(frames)
    /\ 2 * RemSum(frames') + Len(frames') < 2 * RemSum(frames) + Len(frames)
    /\ paidFor' = Min({paidFor + e, tx.budget + 1})
    /\ Len(frames') < Len(frames) /\ pushed' = 0
          => work' = Inner.before.work /\ logs' = Inner.before.logs

\* The constants are numbers, and most costs are positive.
LEMMA Costs ==
    /\ OpGas \in Nat /\ CallGas \in Nat /\ CreateGas \in Nat /\ SstoreSet \in Nat
    /\ SstoreReset \in Nat /\ PrecompileGas \in Nat /\ ForwardPart \in Nat \ {0}
    /\ OpGas > 0 /\ CallGas > 0 /\ CreateGas > 0 /\ SstoreSet > 0 /\ SstoreReset > 0
    /\ PrecompileGas > 0
    /\ EnergyFee \in Nat /\ MaxCallDepth \in Nat /\ NewAcctCall \in Nat /\ StipendCall \in Nat
    /\ VtCall \in Nat /\ CreateData \in Nat /\ MaxCodeLength \in Nat /\ MaxCodeLength > 0
    /\ StipendCall <= VtCall
    /\ \A v \in CallValues : v \in Nat
    /\ \A v \in CallerEnergies : v \in Nat
    /\ \A v \in FeeLimits : v \in Int
    /\ \A v \in TxValues : v \in Int
    /\ \A v \in Requests : v \in Nat
BY CallFramesAssumption

\* A running transaction: what the invariant says of its frames.
LEMMA RunningFacts ==
    ASSUME IInv, Running
    PROVE  /\ phase = "running" /\ Unfinished /\ Metering
           /\ frames \in Seq(Frames) /\ work \in Copies /\ snaps \in Seq(Copies)
           /\ logs \in Seq(Addresses)
           /\ Len(frames) \in Nat /\ Len(frames) > 0 /\ Len(frames) \in DOMAIN frames
           /\ Inner \in Frames /\ Inner = frames[Len(frames)]
           /\ Inner.self \in Addresses /\ Inner.limit \in Nat /\ Inner.used \in Nat
           /\ Remaining(Inner) \in Nat
           /\ RemSum(frames) \in Nat
           /\ Remaining(Inner) = Inner.limit - Inner.used
<1>1. phase = "running" /\ Unfinished /\ Metering
  BY DEF IInv
<1>2. /\ frames \in Seq(Frames) /\ work \in Copies /\ snaps \in Seq(Copies)
      /\ logs \in Seq(Addresses) /\ Metered(frames)
  BY <1>1 DEF Unfinished, Trail, Metering
<1>3. /\ Len(frames) \in Nat /\ Len(frames) > 0 /\ Len(frames) \in DOMAIN frames
      /\ Inner = frames[Len(frames)]
  BY <1>2 DEF Running, Inner
<1>4. Inner \in Frames
  BY <1>2, <1>3, FrameOf
<1>5. Remaining(Inner) \in Nat /\ RemSum(frames) \in Nat
  BY <1>2, <1>3, RemainingNat, RemSumNat
<1>6. QED
  BY <1>1, <1>2, <1>3, <1>4, <1>5, FrameFields DEF Remaining

\* A step that goes on keeps the invariant.
LEMMA GoesOn ==
    ASSUME IInv, Running, NEW e \in Nat, Goes(e)
    PROVE  IInv'
<1>1. /\ Unfinished /\ Metering /\ phase = "running" /\ RemSum(frames) \in Nat
  BY RunningFacts
<1>2. frames' \in Seq(Frames)
  BY DEF Goes, Trail
<1>3. RemSum(frames') \in Nat
  BY <1>2, RemSumNat DEF Goes
<1>4. paidFor \in Nat /\ tx.budget \in Nat
  BY DEF IInv, TypeInv
<1>5. paidFor' = paidFor + e /\ paidFor' \in Nat /\ RemSum(frames') + paidFor' <= tx.budget
  <2>1. RemSum(frames') + e <= RemSum(frames) /\ RemSum(frames) + paidFor <= tx.budget
    BY <1>1 DEF Goes, Metering
  <2>2. paidFor + e <= tx.budget + 1 /\ RemSum(frames') + (paidFor + e) <= tx.budget
    BY <1>1, <1>3, <1>4, <2>1
  <2>3. paidFor' = paidFor + e
    BY <1>4, <2>2, Min2 DEF Goes
  <2>4. QED
    BY <1>4, <2>2, <2>3
<1>6. phase' = phase /\ tx' = tx /\ receipt' = receipt /\ stores' = stores /\ burned' = burned
  BY DEF Goes, txVars
<1>7. TypeInv'
  BY <1>5, <1>6 DEF IInv, TypeInv
<1>8. Running' /\ phase' = "running"
  BY <1>1, <1>6 DEF Goes, Running
<1>9. Unfinished'
  BY <1>1, <1>6 DEF Goes, Unfinished
<1>10. Metering'
  <2>1. NewVMStateDB' = NewVMStateDB
    BY <1>6 DEF NewVMStateDB, Load
  <2>2. QED
    BY <1>1, <1>5, <1>6, <2>1 DEF Goes, Metering
<1>11. FlushMissesNothing' /\ ReceiptCoversSteps'
  BY <1>8 DEF FlushMissesNothing, ReceiptCoversSteps
<1>12. QED
  BY <1>7, <1>8, <1>9, <1>10, <1>11 DEF IInv

\* A step that pays c and stays in its frame.
LEMMA StaysGoes ==
    ASSUME IInv, Running, NEW c \in Nat, c > 0, CanSpend(c), NEW e \in Nat, e <= c,
           frames' = Charged(c), PayFor(e), UNCHANGED <<stores, txVars, burned>>,
           Trail(stores, frames', work', snaps', logs')
    PROVE  Goes(e)
<1>1. /\ frames \in Seq(Frames) /\ Metered(frames) /\ RemSum(frames) \in Nat
      /\ Len(frames) \in Nat
  BY RunningFacts DEF Metering
<1>2. /\ SameButUsed(frames, frames') /\ frames' # <<>> /\ Metered(frames')
      /\ RemSum(frames') = RemSum(frames) - c
      /\ frames'[1].before = frames[1].before /\ frames'[1].limit = frames[1].limit
  BY <1>1, ChargedFrames
<1>3. Len(frames') = Len(frames)
  BY <1>2 DEF SameButUsed
<1>4. /\ RemSum(frames') + e <= RemSum(frames)
      /\ 2 * RemSum(frames') + Len(frames') < 2 * RemSum(frames) + Len(frames)
      /\ ~(Len(frames') < Len(frames))
  BY <1>1, <1>2, <1>3
<1>5. QED
  BY <1>2, <1>4 DEF Goes, PayFor

\* Charging the innermost frame keeps the trail.
LEMMA ChargedTrail ==
    ASSUME IInv, Running, NEW c \in Nat, CanSpend(c)
    PROVE  Trail(stores, Charged(c), work, snaps, logs)
<1>1. frames \in Seq(Frames) /\ Metered(frames) /\ Trail(stores, frames, work, snaps, logs)
  BY RunningFacts DEF Metering, Unfinished
<1>2. SameButUsed(frames, Charged(c))
  BY <1>1, ChargedFrames
<1>3. QED
  BY <1>1, <1>2, TrailMeters

\* An opcode that neither calls nor changes state.
LEMMA StepGoes ==
    ASSUME IInv, Step
    PROVE  Running /\ Goes(OpGas)
<1>1. Running /\ CanSpend(OpGas) /\ OpGas \in Nat /\ OpGas > 0 /\ OpGas <= OpGas
  BY Costs DEF Step, CanStep
<1>2. Trail(stores, frames', work', snaps', logs')
  BY <1>1, ChargedTrail DEF Step
<1>3. QED
  BY <1>1, <1>2, StaysGoes DEF Step

\* SSTORE: its account exists, because its program does.
LEMMA SstoreGoes ==
    ASSUME IInv, NEW x \in Writes, Sstore(x)
    PROVE  Running /\ Goes(SstoreCost(x))
<1> DEFINE c == SstoreCost(x)
<1>1. Running /\ CanSpend(c) /\ c \in Nat /\ c > 0 /\ c <= c
  BY Costs DEF Sstore, CanStep, SstoreCost
<1>2. Trail(stores, Charged(c), work, snaps, logs)
  BY <1>1, ChargedTrail
<1>3. work \in Copies /\ Inner.self \in Addresses /\ work[Inner.self].exists
  <2>1. Inner.hasCode /\ Len(frames) \in DOMAIN frames /\ Inner = frames[Len(frames)]
    BY <1>1, RunningFacts DEF Sstore, CanStep
  <2>2. QED
    BY <1>1, <2>1, RunningFacts DEF Unfinished, Trail, Alive
<1>4. x \in Slots
  BY CallFramesAssumption DEF Slots
<1>5. Follows(stores, work, work') /\ BalSum(work') = BalSum(work)
  BY <1>3, <1>4, SetStorageFollows DEF Sstore
<1>6. ~Charged(c)[Len(Charged(c))].readOnly
  BY <1>1, RunningFacts, ChargedFrames DEF Sstore, Metering
<1> HIDE DEF c
<1>7. Trail(stores, Charged(c), work', snaps, logs)
  BY <1>2, <1>5, <1>6, TrailWork
<1>8. Goes(c)
  BY <1>1, <1>7, StaysGoes DEF Sstore, c
<1>9. QED
  BY <1>1, <1>8 DEF c

\* LOG.
LEMMA OpLogGoes ==
    ASSUME IInv, OpLog
    PROVE  Running /\ Goes(OpGas)
<1>1. Running /\ CanSpend(OpGas) /\ OpGas \in Nat /\ OpGas > 0 /\ OpGas <= OpGas
  BY Costs DEF OpLog, CanStep
<1>2. Trail(stores, Charged(OpGas), work, snaps, logs)
  BY <1>1, ChargedTrail
<1>3. ~Charged(OpGas)[Len(Charged(OpGas))].readOnly /\ Charged(OpGas) # <<>>
  BY <1>1, RunningFacts, ChargedFrames DEF OpLog, Metering
<1>4. Trail(stores, Charged(OpGas), work, snaps, Append(logs, Inner.self))
  BY <1>1, <1>2, <1>3, RunningFacts, TrailLog
<1>5. QED
  BY <1>1, <1>4, StaysGoes DEF OpLog

-----------------------------------------------------------------------------
(* Calls and creations.                                                    *)

\* A call never reserves more than there is.
LEMMA CallEnergyBounds ==
    ASSUME NEW r \in Nat, NEW n \in Nat
    PROVE  CallEnergy(r, n) \in Nat /\ CallEnergy(r, n) <= n
<1>1. n \div ForwardPart \in Nat /\ n \div ForwardPart <= n
  BY Costs, DivNat
<1> DEFINE m == IF Forward6364 THEN n - n \div ForwardPart ELSE n
<1>2. m \in Nat /\ m <= n
  BY <1>1
<1>3. CallEnergy(r, n) = Min({r, m})
  BY DEF CallEnergy
<1> HIDE DEF m
<1>4. QED
  BY <1>2, <1>3, Min2

\* A call pays for its opcode and, with a value, for the stipend.
LEMMA CallCostBounds ==
    ASSUME NEW kind, NEW to, NEW value \in Nat
    PROVE  /\ CallCost(kind, to, value) \in Nat /\ CallCost(kind, to, value) > 0
           /\ Stipend(value) \in Nat
           /\ CallCost(kind, to, value) >= CallGas + Stipend(value)
BY Costs DEF CallCost, Stipend

\* A call that does not run.
LEMMA CallRefusedGoes ==
    ASSUME IInv, NEW kind \in CallKinds, NEW to \in Addresses, NEW value \in CallValues,
           CallRefused(kind, to, value)
    PROVE  Running /\ Goes(CallGas)
<1> DEFINE c == CallCost(kind, to, value)
<1>1. Running /\ CanSpend(c) /\ c \in Nat /\ c > 0 /\ CallGas <= c /\ CallGas \in Nat
  BY Costs, CallCostBounds DEF CallRefused, CanStep
<1>2. frames' = Charged(c) /\ PayFor(CallGas) /\ UNCHANGED <<stores, work, snaps, logs, txVars, burned>>
  BY DEF CallRefused
<1> HIDE DEF c
<1>3. Trail(stores, frames', work', snaps', logs')
  BY <1>1, <1>2, ChargedTrail
<1>4. QED
  BY <1>1, <1>2, <1>3, StaysGoes

\* A creation that does not run.
LEMMA CreateRefusedGoes ==
    ASSUME IInv, NEW value \in CallValues, CreateRefused(value)
    PROVE  Running /\ Goes(CreateGas)
<1>1. Running /\ CanSpend(CreateGas) /\ CreateGas \in Nat /\ CreateGas > 0 /\ CreateGas <= CreateGas
  BY Costs DEF CreateRefused, CanStep
<1>2. Trail(stores, frames', work', snaps', logs')
  BY <1>1, ChargedTrail DEF CreateRefused
<1>3. QED
  BY <1>1, <1>2, StaysGoes DEF CreateRefused

\* The value a call carries: in a static context there is none.
LEMMA MovedFollows ==
    ASSUME IInv, Running, NEW kind \in CallKinds, NEW to \in Addresses, NEW value \in Nat,
           MayCarry(kind, value)
    PROVE  /\ Follows(stores, work, Moved(kind, to, value))
           /\ BalSum(Moved(kind, to, value)) = BalSum(work)
           /\ Inner.readOnly \/ kind = "static" => Moved(kind, to, value) = work
<1>1. work \in Copies /\ Inner.self \in Addresses
  BY RunningFacts
<1>2. CASE kind = "call"
  <2>1. Moved(kind, to, value) = Transfer(work, Inner.self, to, value)
    BY <1>2 DEF Moved
  <2>2. Inner.readOnly => value = 0
    BY DEF MayCarry
  <2>3. QED
    BY <1>1, <1>2, <2>1, <2>2, TransferFollows
<1>3. CASE kind # "call"
  BY <1>1, <1>3 DEF Moved, Follows, Grows
<1>4. QED
  BY <1>2, <1>3

\* A new frame over the copy w.
LEMMA NewFrameFields ==
    ASSUME IInv, phase # "over", NEW kind \in CallKinds \cup {"top", "create"},
           NEW self \in Addresses, NEW readOnly \in BOOLEAN, NEW limit \in Nat,
           NEW hasCode \in BOOLEAN, NEW w \in Copies,
           NEW f, f = NewFrame(kind, self, readOnly, limit, hasCode, w)
    PROVE  /\ f \in Frames
           /\ f.snap = Len(snaps) + 1 /\ f.logMark = Len(logs)
           /\ f.before = [work |-> w, logs |-> logs]
           /\ f.hasCode = hasCode /\ f.self = self /\ f.readOnly = readOnly
           /\ f.limit = limit /\ f.used = 0 /\ Remaining(f) = limit /\ f.kind = kind
<1>1. snaps \in Seq(Copies) /\ logs \in Seq(Addresses)
  BY DEF IInv, Unfinished, Trail
<1>2. [work |-> w, logs |-> logs] \in [work : [Addresses -> VmAccount], logs : Seq(Addresses)]
  BY <1>1 DEF Copies
<1>3. QED
  BY <1>1, <1>2 DEF NewFrame, SnapshotId, Frames, Remaining

\* A step that charges c and enters a frame f with less than c to spend.
LEMMA EntersGoes ==
    ASSUME IInv, Running, NEW c \in Nat, CanSpend(c), NEW e \in Nat, e > 0,
           NEW f \in Frames, f.used = 0, f.limit + e <= c,
           frames' = Append(Charged(c), f), PayFor(e), UNCHANGED <<stores, txVars, burned>>,
           Trail(stores, frames', work', snaps', logs')
    PROVE  Goes(e)
<1> DEFINE gr == Charged(c)
<1>1. /\ frames \in Seq(Frames) /\ Metered(frames) /\ RemSum(frames) \in Nat
      /\ Len(frames) \in Nat
  BY RunningFacts DEF Metering
<1>2. /\ SameButUsed(frames, gr) /\ gr # <<>> /\ Metered(gr)
      /\ RemSum(gr) = RemSum(frames) - c
      /\ gr[1].before = frames[1].before /\ gr[1].limit = frames[1].limit
  BY <1>1, ChargedFrames
<1>3. gr \in Seq(Frames) /\ Len(gr) = Len(frames)
  BY <1>2 DEF SameButUsed
<1>4. frames' = Append(gr, f)
  OBVIOUS
<1> HIDE DEF gr
<1>5. /\ frames' \in Seq(Frames) /\ Len(frames') = Len(frames) + 1 /\ frames' # <<>>
      /\ frames'[Len(frames')] = f /\ frames'[1] = gr[1]
      /\ \A i \in DOMAIN gr : frames'[i] = gr[i]
      /\ \A i \in DOMAIN frames' : i = Len(frames') \/ i \in DOMAIN gr
  BY <1>1, <1>2, <1>3, <1>4
<1>6. Without(frames', gr)
  BY <1>3, <1>5 DEF Without
<1>7. RemSum(frames') = RemSum(gr) + Remaining(f)
  BY <1>5, <1>6, RemSumWithout
<1>8. f.limit \in Nat /\ Remaining(f) = f.limit
  BY FrameFields DEF Remaining
<1>9. Metered(frames')
  BY <1>2, <1>5, <1>8 DEF Metered
<1>10. /\ RemSum(frames') + e <= RemSum(frames)
       /\ 2 * RemSum(frames') + Len(frames') < 2 * RemSum(frames) + Len(frames)
       /\ ~(Len(frames') < Len(frames))
  BY <1>1, <1>2, <1>5, <1>7, <1>8, SMTT(40)
<1>11. QED
  BY <1>2, <1>5, <1>9, <1>10 DEF Goes, PayFor

\* CALL, CALLCODE, DELEGATECALL and STATICCALL of a contract.
LEMMA CallGoes ==
    ASSUME IInv, NEW kind \in CallKinds, NEW to \in Addresses, NEW value \in CallValues,
           NEW requested \in Requests, Call(kind, to, value, requested)
    PROVE  Running /\ Goes(CallGas)
<1> DEFINE cost == CallCost(kind, to, value)
           r == Reserved(cost, requested)
           c == cost + r
           self == IF kind \in {"call", "static"} THEN to ELSE Inner.self
           readOnly == ChildReadOnly(kind)
           limit == r + Stipend(value)
           hasCode == work[to].code > 0
           f == NewFrame(kind, self, readOnly, limit, hasCode, work)
<1>1. Running /\ Inner.hasCode /\ CanSpend(cost) /\ MayCarry(kind, value)
  BY DEF Call, CanStep
<1>2. /\ frames' = Append(Charged(c), f) /\ snaps' = Append(snaps, work) /\ logs' = logs
      /\ work' = Moved(kind, to, value) /\ PayFor(CallGas) /\ UNCHANGED <<stores, txVars, burned>>
  BY DEF Call
<1>3. value \in Nat /\ requested \in Nat /\ CallGas \in Nat /\ CallGas > 0
  BY Costs
<1>4. cost \in Nat /\ Stipend(value) \in Nat /\ cost >= CallGas + Stipend(value)
  BY <1>3, CallCostBounds
<1>5. Remaining(Inner) - cost \in Nat
  BY <1>1, <1>4, RunningFacts DEF CanSpend
<1>6. r \in Nat /\ r <= Remaining(Inner) - cost
  BY <1>3, <1>5, CallEnergyBounds DEF Reserved
<1>7. c \in Nat /\ CanSpend(c)
  <2> HIDE DEF cost, r
  <2> QED
    BY <1>1, <1>4, <1>5, <1>6, RunningFacts DEF CanSpend
<1>8. /\ Trail(stores, Charged(c), work, snaps, logs) /\ Charged(c) # <<>>
      /\ Charged(c)[Len(Charged(c))].readOnly = Inner.readOnly
  <2> HIDE DEF c
  <2> QED
    BY <1>1, <1>7, ChargedTrail, ChargedFrames, RunningFacts DEF Metering
<1>9. self \in Addresses /\ readOnly \in BOOLEAN /\ hasCode \in BOOLEAN /\ work \in Copies
  BY <1>1, RunningFacts DEF ChildReadOnly
<1>10. /\ Follows(stores, work, work') /\ BalSum(work') = BalSum(work)
       /\ readOnly => work' = work
  BY <1>1, <1>2, <1>3, MovedFollows DEF ChildReadOnly
<1>11. hasCode => work'[self].exists
  <2>1. work[to].code > 0 => work[self].exists
    <3>1. work[to].code > 0 => work[to].exists
      BY <1>1, RunningFacts DEF Unfinished, Trail, AllSound, Sound, Marks
    <3>2. work[Inner.self].exists
      BY <1>1, RunningFacts DEF Unfinished, Trail, Alive
    <3>3. QED
      BY <3>1, <3>2
  <2>2. QED
    BY <1>9, <1>10, <2>1 DEF Follows, Grows
<1>12. limit \in Nat /\ limit + CallGas <= c
  <2> HIDE DEF cost, r
  <2> QED
    BY <1>3, <1>4, <1>6
<1>13. phase # "over"
  BY <1>1, RunningFacts
<1>14. Inner.readOnly => readOnly
  BY DEF ChildReadOnly
<1>15. kind \in CallKinds \cup {"top", "create"} /\ kind # "create"
  BY DEF CallKinds
<1> HIDE DEF self, c, r, cost, readOnly, limit, hasCode, f
<1>16. /\ f \in Frames
       /\ f.snap = Len(snaps) + 1 /\ f.logMark = Len(logs)
       /\ f.before = [work |-> work, logs |-> logs]
       /\ f.hasCode = hasCode /\ f.self = self /\ f.readOnly = readOnly
       /\ f.limit = limit /\ f.used = 0 /\ f.kind # "create"
  BY <1>9, <1>12, <1>13, <1>15, NewFrameFields DEF f
<1>17. Trail(stores, Append(Charged(c), f), work', Append(snaps, work), logs)
  BY <1>8, <1>10, <1>11, <1>14, <1>16, TrailEnter
<1>18. Trail(stores, frames', work', snaps', logs')
  BY <1>2, <1>17
<1>19. Goes(CallGas)
  BY <1>1, <1>2, <1>3, <1>7, <1>12, <1>16, <1>18, EntersGoes
<1>20. QED
  BY <1>1, <1>19

\* The address of a new contract is an address.
LEMMA NewAddressType ==
    ASSUME NEW create2 \in BOOLEAN, CanDerive(create2)
    PROVE  NewAddress(create2) \in Addresses
<1>1. \A x \in DOMAIN CreateAddress : CreateAddress[x] \in Addresses
  BY CallFramesAssumption DEF Range
<1>2. \A x \in DOMAIN Create2Address : Create2Address[x] \in Addresses
  BY CallFramesAssumption DEF Range
<1>3. QED
  BY <1>1, <1>2 DEF CanDerive, NewAddress

\* CREATE and CREATE2.
LEMMA CreateGoes ==
    ASSUME IInv, NEW create2 \in BOOLEAN, NEW value \in CallValues, Create(create2, value)
    PROVE  Running /\ Goes(CreateGas)
<1> DEFINE left == Remaining(Inner) - CreateGas
           gas == CallEnergy(left, left)
           c == CreateGas + gas
           bumped == SetNonce(work, Inner.self, work[Inner.self].nonce + 1)
           to == NewAddress(create2)
           made == CreateAccount(bumped, to)
           f == NewFrame("create", to, FALSE, gas, TRUE, bumped)
<1>1. Running /\ ~Inner.readOnly /\ CanSpend(CreateGas) /\ CanDerive(create2)
  BY DEF Create, CanStep
<1>2. /\ frames' = Append(Charged(c), f) /\ snaps' = Append(snaps, bumped) /\ logs' = logs
      /\ work' = Transfer(made, Inner.self, to, value)
      /\ PayFor(CreateGas) /\ UNCHANGED <<stores, txVars, burned>>
  BY DEF Create
<1>3. value \in Nat /\ CreateGas \in Nat /\ CreateGas > 0 /\ to \in Addresses
  BY <1>1, Costs, NewAddressType
<1>4. left \in Nat
  BY <1>1, <1>3, RunningFacts DEF CanSpend
<1>5. gas \in Nat /\ gas <= left
  <2> HIDE DEF left
  <2> QED
    BY <1>4, CallEnergyBounds
<1>6. c \in Nat /\ CanSpend(c) /\ gas + CreateGas <= c
  <2> HIDE DEF gas
  <2> QED
    BY <1>1, <1>3, <1>4, <1>5, RunningFacts DEF CanSpend
<1>7. /\ Trail(stores, Charged(c), work, snaps, logs) /\ Charged(c) # <<>>
      /\ ~Charged(c)[Len(Charged(c))].readOnly
  <2> HIDE DEF c
  <2> QED
    BY <1>1, <1>6, ChargedTrail, ChargedFrames, RunningFacts DEF Metering
<1>8. work \in Copies /\ Inner.self \in Addresses /\ work[Inner.self].nonce + 1 \in Nat
  BY <1>1, RunningFacts, SMTT(40) DEF Copies, VmAccount
<1>9. Follows(stores, work, bumped) /\ BalSum(bumped) = BalSum(work) /\ bumped \in Copies
  BY <1>8, SetNonceFollows DEF Follows
<1>11. snaps \in Seq(Copies) /\ logs \in Seq(Addresses)
  BY <1>1, RunningFacts
<1> HIDE DEF left, gas, c, bumped, to, made, f
<1>12. /\ Follows(stores, bumped, made) /\ made[to].exists /\ BalSum(made) = BalSum(bumped)
       /\ made \in Copies
  BY <1>3, <1>9, CreateAccountFollows DEF made, Follows
<1>13. Follows(stores, made, work') /\ BalSum(work') = BalSum(made)
  BY <1>2, <1>3, <1>8, <1>12, TransferFollows
<1>14. Follows(stores, bumped, work') /\ BalSum(work') = BalSum(bumped) /\ work'[to].exists
  <2>1. Follows(stores, bumped, work')
    BY <1>9, <1>12, <1>13, FollowsTrans
  <2>2. QED
    BY <1>3, <1>12, <1>13, <2>1 DEF Follows, Grows
<1>15. Trail(stores, Charged(c), bumped, snaps, logs)
  BY <1>7, <1>9, TrailWork
<1>16. /\ f \in Frames
       /\ f.snap = Len(snaps) + 1 /\ f.logMark = Len(logs)
       /\ f.before = [work |-> bumped, logs |-> logs]
       /\ f.hasCode /\ f.self = to /\ ~f.readOnly
       /\ f.limit = gas /\ f.used = 0
  <2>1. [work |-> bumped, logs |-> logs] \in [work : [Addresses -> VmAccount], logs : Seq(Addresses)]
    BY <1>9, <1>11 DEF Copies
  <2>2. QED
    BY <1>3, <1>5, <1>11, <2>1 DEF f, NewFrame, SnapshotId, Frames
<1>17. Trail(stores, Append(Charged(c), f), work', Append(snaps, bumped), logs)
  BY <1>7, <1>14, <1>15, <1>16, TrailEnter
<1>18. Trail(stores, frames', work', snaps', logs')
  BY <1>2, <1>17
<1>19. Goes(CreateGas)
  BY <1>1, <1>2, <1>3, <1>6, <1>16, <1>18, EntersGoes
<1>20. QED
  BY <1>1, <1>19

\* A precompiled contract: its caller's meter, its value and its snapshot.
LEMMA CallPrecompileGoes ==
    ASSUME IInv, NEW kind \in CallKinds, NEW to \in Addresses, NEW value \in CallValues,
           NEW requested \in Requests, NEW ok \in BOOLEAN,
           CallPrecompile(kind, to, value, requested, ok)
    PROVE  \E e \in Nat : Running /\ Goes(e)
<1> DEFINE cost == CallCost(kind, to, value)
           r == Reserved(cost, requested)
           budget == r + Stipend(value)
           used == IF ok THEN PrecompileGas ELSE budget
           e == CallGas + (IF ok THEN PrecompileGas ELSE 0)
           u == Max({(Inner.used + (cost + r)) - (budget - used), 0})
<1>1. Running /\ CanSpend(cost) /\ MayCarry(kind, value) /\ used <= budget
  BY DEF CallPrecompile, CanStep
<1>2. /\ work' = (IF ok THEN Moved(kind, to, value) ELSE work)
      /\ snaps' = (IF ok THEN Append(snaps, work) ELSE snaps)
      /\ PayFor(e) /\ UNCHANGED <<stores, logs, txVars, burned>>
  BY DEF CallPrecompile
<1>3. value \in Nat /\ requested \in Nat /\ CallGas \in Nat /\ CallGas > 0 /\ PrecompileGas \in Nat
  BY Costs
<1>4. cost \in Nat /\ Stipend(value) \in Nat /\ cost >= CallGas + Stipend(value)
  BY <1>3, CallCostBounds
<1>5. Remaining(Inner) - cost \in Nat
  BY <1>1, <1>4, RunningFacts DEF CanSpend
<1>6. r \in Nat /\ r <= Remaining(Inner) - cost
  BY <1>3, <1>5, CallEnergyBounds DEF Reserved
<1>7. frames' = MeterAt(frames, u)
  <2>1. Restore(Spend(Inner, cost + r), budget - used) = [Inner EXCEPT !.used = u]
    <3>1. Inner \in Frames
      BY <1>1, RunningFacts
    <3> HIDE DEF cost, r, budget, used
    <3>2. Spend(Inner, cost + r).used = Inner.used + (cost + r)
      BY <3>1 DEF Spend, Frames
    <3>3. QED
      BY <3>1, <3>2 DEF Spend, Restore, Frames
  <2>2. frames' = [frames EXCEPT ![Len(frames)] = Restore(Spend(Inner, cost + r), budget - used)]
    BY DEF CallPrecompile, Inner
  <2>3. QED
    BY <1>1, <2>1, <2>2, RunningFacts DEF MeterAt
<1> HIDE DEF cost, r
<1>8. /\ u \in Nat /\ u <= Inner.limit /\ e \in Nat
      /\ u >= Inner.used + e
  <2>1. /\ Inner.used \in Nat /\ Inner.limit \in Nat /\ Remaining(Inner) = Inner.limit - Inner.used
    BY <1>1, RunningFacts
  <2>2. budget \in Nat /\ used \in Nat /\ e \in Nat
    BY <1>3, <1>4, <1>6
  <2> DEFINE x == (Inner.used + (cost + r)) - (budget - used)
  <2>3. x \in Int /\ x <= Inner.limit /\ x >= Inner.used + e
    <3>1. CASE ok
      BY <1>1, <1>3, <1>4, <1>5, <1>6, <2>1, <3>1
    <3>2. CASE ~ok
      BY <1>1, <1>3, <1>4, <1>5, <1>6, <2>1, <3>2
    <3>3. QED
      BY <3>1, <3>2
  <2>4. u = x
    <3> HIDE DEF x, e
    <3>1. x >= 0
      BY <2>1, <2>2, <2>3
    <3>2. Max({x, 0}) = x
      BY <2>3, <3>1, Max2
    <3>3. QED
      BY <3>2 DEF x
  <2> HIDE DEF u, x, e
  <2>5. QED
    BY <2>1, <2>2, <2>3, <2>4
<1> HIDE DEF u, e, budget, used
<1>9. /\ frames \in Seq(Frames) /\ Metered(frames) /\ RemSum(frames) \in Nat
      /\ Len(frames) \in Nat /\ Inner = frames[Len(frames)] /\ frames # <<>>
      /\ Trail(stores, frames, work, snaps, logs) /\ Inner.used \in Nat /\ work \in Copies
  BY <1>1, RunningFacts DEF Metering, Running, Unfinished
<1>10. /\ SameButUsed(frames, frames') /\ frames' # <<>> /\ Metered(frames')
       /\ RemSum(frames') = RemSum(frames) + frames[Len(frames)].used - u
       /\ frames'[1].before = frames[1].before /\ frames'[1].limit = frames[1].limit
       /\ frames'[Len(frames')].readOnly = frames[Len(frames)].readOnly
  BY <1>7, <1>8, <1>9, MeterMoves
<1>11. Len(frames') = Len(frames)
  BY <1>10 DEF SameButUsed
<1>12. Trail(stores, frames', work, snaps, logs)
  BY <1>9, <1>10, TrailMeters
<1>13. Trail(stores, frames', work', snaps', logs')
  <2>1. CASE ok
    <3>1. Trail(stores, frames', work, Append(snaps, work), logs)
      BY <1>9, <1>12, TrailSnap
    <3>2. /\ Follows(stores, work, work') /\ BalSum(work') = BalSum(work)
          /\ Inner.readOnly => work' = work
      BY <1>1, <1>2, <1>3, <2>1, MovedFollows
    <3>3. frames' = <<>> \/ ~frames'[Len(frames')].readOnly \/ work' = work
      BY <1>9, <1>10, <3>2
    <3>4. QED
      BY <1>2, <2>1, <3>1, <3>2, <3>3, TrailWork
  <2>2. CASE ~ok
    BY <1>2, <1>12, <2>2
  <2>3. QED
    BY <2>1, <2>2
<1>14. /\ RemSum(frames') + e <= RemSum(frames)
       /\ 2 * RemSum(frames') + Len(frames') < 2 * RemSum(frames) + Len(frames)
       /\ ~(Len(frames') < Len(frames))
  <2>1. e > 0
    BY <1>3 DEF e
  <2>2. QED
    BY <1>8, <1>9, <1>10, <1>11, <2>1, SMTT(40)
<1>15. Goes(e)
  BY <1>2, <1>10, <1>13, <1>14 DEF Goes, PayFor
<1>16. QED
  BY <1>1, <1>8, <1>15

-----------------------------------------------------------------------------
(* The end of a nested frame.                                              *)

\* A frame ends and its caller gets back no more than was left: the frames
\* below stay as they are, and the energy left in all frames does not grow.
LEMMA PoppedFrames ==
    ASSUME IInv, Nested, NEW n \in Nat, n <= Remaining(Inner)
    PROVE  /\ Running
           /\ \E gr \in Seq(Frames) : Without(frames, gr) /\ SameButUsed(gr, Popped(n))
           /\ Popped(n) # <<>> /\ Metered(Popped(n))
           /\ RemSum(Popped(n)) + Remaining(Inner) <= RemSum(frames) + n
           /\ Len(Popped(n)) + 1 = Len(frames)
           /\ Popped(n)[1].before = frames[1].before
           /\ Popped(n)[1].limit = frames[1].limit
<1> DEFINE m == Len(frames) - 1
           gr == [i \in 1 .. m |-> frames[i]]
           hr == Popped(n)
<1>1. Running
  BY DEF Running, Nested
<1>2. /\ frames \in Seq(Frames) /\ Metered(frames) /\ Inner = frames[Len(frames)]
      /\ Len(frames) \in Nat /\ RemSum(frames) \in Nat /\ Remaining(Inner) \in Nat
  BY <1>1, RunningFacts DEF Metering
<1>3. m \in Nat /\ m > 0 /\ Len(frames) = m + 1
  BY <1>2 DEF Nested
<1>4. gr \in Seq(Frames) /\ Len(gr) = m /\ DOMAIN gr = 1 .. m /\ \A i \in 1 .. m : gr[i] = frames[i]
  <2>1. \A i \in 1 .. m : frames[i] \in Frames
    BY <1>2, <1>3, FrameOf
  <2>2. QED
    BY <1>3, <2>1
<1>5. hr = [i \in 1 .. m |-> IF i = m THEN Restore(frames[i], n) ELSE frames[i]]
  BY DEF Popped
<1> HIDE DEF m, gr, hr
<1>6. Without(frames, gr)
  BY <1>3, <1>4 DEF Without
<1>7. RemSum(frames) = RemSum(gr) + Remaining(Inner)
  BY <1>2, <1>6, RemSumWithout
<1>8. Metered(gr)
  BY <1>2, <1>3, <1>4 DEF Metered
<1> DEFINE u == Max({gr[m].used - n, 0})
<1>9. gr[m].used \in Nat /\ gr[m].limit \in Nat /\ gr[m].used <= gr[m].limit /\ gr[m] \in Frames
  BY <1>3, <1>4, <1>8, FrameOf, FrameFields DEF Metered
<1>10. u \in Nat /\ u <= gr[m].limit /\ u >= gr[m].used - n
  <2>1. gr[m].used - n \in Int
    BY <1>9
  <2>2. QED
    BY <1>9, <2>1, Max2
<1>11. hr = MeterAt(gr, u)
  <2>1. gr[m] = frames[m] /\ Restore(gr[m], n) = [gr[m] EXCEPT !.used = u]
    BY <1>3, <1>4 DEF Restore
  <2>2. QED
    BY <1>3, <1>4, <1>5, <2>1 DEF MeterAt
<1> HIDE DEF u
<1>12. gr # <<>>
  BY <1>3, <1>4
<1>13. /\ SameButUsed(gr, hr) /\ hr # <<>> /\ Metered(hr)
       /\ RemSum(hr) = RemSum(gr) + gr[Len(gr)].used - u
       /\ hr[1].before = gr[1].before /\ hr[1].limit = gr[1].limit
  BY <1>4, <1>8, <1>10, <1>11, <1>12, MeterMoves
<1>14. RemSum(gr) \in Int
  BY <1>4, RemSumNat
<1>15. RemSum(hr) + Remaining(Inner) <= RemSum(frames) + n
  BY <1>2, <1>4, <1>7, <1>9, <1>10, <1>13, <1>14, SMTT(40)
<1>16. Len(hr) + 1 = Len(frames)
  BY <1>3, <1>4, <1>13 DEF SameButUsed
<1>17. gr[1] = frames[1]
  BY <1>3, <1>4
<1>18. QED
  BY <1>1, <1>4, <1>6, <1>13, <1>15, <1>16, <1>17 DEF hr

\* A return that refunds n and pays for e, over a trail that stays sound.
LEMMA ReturnsGoes ==
    ASSUME IInv, Nested, NEW n \in Nat, NEW e \in Nat, n + e <= Remaining(Inner),
           frames' = Popped(n), paidFor' = Min({paidFor + e, tx.budget + 1}),
           UNCHANGED <<stores, txVars, burned>>,
           Trail(stores, frames', work', snaps', logs'),
           pushed' = 0 => work' = Inner.before.work /\ logs' = Inner.before.logs
    PROVE  Running /\ Goes(e)
<1>1. Running
  BY DEF Running, Nested
<1>2. Remaining(Inner) \in Nat /\ RemSum(frames) \in Nat /\ Len(frames) \in Nat
  BY <1>1, RunningFacts
<1>3. n <= Remaining(Inner)
  BY <1>2
<1>4. /\ frames' # <<>> /\ Metered(frames')
      /\ RemSum(frames') + Remaining(Inner) <= RemSum(frames) + n
      /\ Len(frames') + 1 = Len(frames)
      /\ frames'[1].before = frames[1].before
      /\ frames'[1].limit = frames[1].limit
  BY <1>3, PoppedFrames
<1>5. RemSum(frames') \in Int /\ Len(frames') \in Nat
  <2>1. frames' \in Seq(Frames)
    BY DEF Trail
  <2>2. QED
    BY <2>1, RemSumNat
<1>6. /\ RemSum(frames') + e <= RemSum(frames)
      /\ 2 * RemSum(frames') + Len(frames') < 2 * RemSum(frames) + Len(frames)
  BY <1>2, <1>4, <1>5, SMTT(40)
<1>7. QED
  BY <1>1, <1>4, <1>6 DEF Goes

\* A step that pays for nothing leaves the count of paid steps.
LEMMA PaysNothing ==
    ASSUME IInv, Running, paidFor' = paidFor
    PROVE  paidFor' = Min({paidFor + 0, tx.budget + 1})
<1>1. paidFor \in Nat /\ tx.budget \in Nat
  BY DEF IInv, TypeInv
<1>2. paidFor <= tx.budget
  BY <1>1, RunningFacts DEF Metering
<1>3. QED
  BY <1>1, <1>2, Min2

\* The frames below the one that ends keep the trail.
LEMMA PoppedTrail ==
    ASSUME IInv, Nested, NEW n \in Nat, n <= Remaining(Inner)
    PROVE  /\ Trail(stores, Popped(n), work, snaps, logs)
           /\ Trail(stores, Popped(n), Inner.before.work, SubSeq(snaps, 1, Inner.snap - 1),
                    SubSeq(logs, 1, Inner.logMark))
<1>1. Running
  BY PoppedFrames
<1>2. PICK gr \in Seq(Frames) : Without(frames, gr) /\ SameButUsed(gr, Popped(n))
  BY PoppedFrames
<1>3. Trail(stores, frames, work, snaps, logs) /\ Inner = frames[Len(frames)]
  BY <1>1, RunningFacts DEF Unfinished
<1>4. Trail(stores, gr, work, snaps, logs)
  BY <1>2, <1>3, TrailLeave
<1>5. Trail(stores, gr, Inner.before.work, SubSeq(snaps, 1, Inner.snap - 1),
            SubSeq(logs, 1, Inner.logMark))
  BY <1>2, <1>3, TrailUndo
<1>6. QED
  BY <1>2, <1>4, <1>5, TrailMeters

\* A child that returns leaves what it did.
LEMMA ReturnCallGoes ==
    ASSUME IInv, ReturnCall
    PROVE  Running /\ Goes(0)
<1> DEFINE n == Remaining(Inner)
<1>1. Nested /\ frames' = Popped(n) /\ pushed' = 1
      /\ UNCHANGED <<stores, work, snaps, logs, txVars, burned, paidFor>>
  BY DEF ReturnCall
<1>2. Running /\ n \in Nat
  BY <1>1, RunningFacts DEF Running, Nested
<1>3. Trail(stores, frames', work', snaps', logs')
  BY <1>1, <1>2, PoppedTrail
<1>4. paidFor' = Min({paidFor + 0, tx.budget + 1})
  BY <1>1, <1>2, PaysNothing
<1>5. n + 0 <= Remaining(Inner) /\ 0 \in Nat
  BY <1>2
<1>6. pushed' = 0 => work' = Inner.before.work /\ logs' = Inner.before.logs
  BY <1>1
<1> HIDE DEF n
<1>7. QED
  BY <1>1, <1>2, <1>3, <1>4, <1>5, <1>6, ReturnsGoes

\* A constructor that returns deploys its code.
LEMMA ReturnCreateGoes ==
    ASSUME IInv, NEW length \in 0 .. MaxCodeLength, ReturnCreate(length)
    PROVE  \E e \in Nat : Running /\ Goes(e)
<1> DEFINE e == length * CreateData
           n == Remaining(Inner) - e
<1>1. /\ Nested /\ Inner.kind = "create" /\ e <= Remaining(Inner) /\ frames' = Popped(n)
      /\ work' = SetCode(work, Inner.self, length) /\ pushed' = 1
      /\ paidFor' = Min({paidFor + e, tx.budget + 1})
      /\ UNCHANGED <<stores, snaps, logs, txVars, burned>>
  BY DEF ReturnCreate, PayFor
<1>2. /\ Running /\ Remaining(Inner) \in Nat /\ work \in Copies /\ Inner.self \in Addresses
      /\ Trail(stores, frames, work, snaps, logs) /\ Len(frames) \in DOMAIN frames
      /\ Inner = frames[Len(frames)] /\ frames \in Seq(Frames)
  BY <1>1, RunningFacts DEF Running, Nested, Unfinished
<1>3. e \in Nat
  BY Costs, MulNat
<1> HIDE DEF e
<1>4. n \in Nat /\ n + e <= Remaining(Inner) /\ n <= Remaining(Inner)
  BY <1>1, <1>2, <1>3
<1> HIDE DEF n
<1>5. ~Inner.readOnly
  BY <1>1, <1>2 DEF Trail, Frozen
<1>6. Follows(stores, work, work') /\ BalSum(work') = BalSum(work)
  BY <1>1, <1>2, SetCodeFollows
<1>7. frames = <<>> \/ ~frames[Len(frames)].readOnly \/ work' = work
  BY <1>2, <1>5
<1>8. Trail(stores, frames, work', snaps, logs)
  BY <1>2, <1>6, <1>7, TrailWork
<1>9. PICK gr \in Seq(Frames) : Without(frames, gr) /\ SameButUsed(gr, Popped(n))
  BY <1>1, <1>4, PoppedFrames
<1>10. Trail(stores, frames', work', snaps', logs')
  <2>1. Trail(stores, gr, work', snaps, logs)
    BY <1>8, <1>9, TrailLeave
  <2>2. QED
    BY <1>1, <1>9, <2>1, TrailMeters
<1>11. Running /\ Goes(e)
  BY <1>1, <1>3, <1>4, <1>10, ReturnsGoes
<1>12. QED
  BY <1>3, <1>11

\* A child that fails leaves nothing.
LEMMA UndoGoes ==
    ASSUME IInv, Nested, NEW n \in Nat, n <= Remaining(Inner), Undo(n)
    PROVE  Running /\ Goes(0)
<1>1. Running
  BY DEF Running, Nested
<1>2. /\ Trail(stores, frames, work, snaps, logs) /\ Inner = frames[Len(frames)]
      /\ frames # <<>> /\ Remaining(Inner) \in Nat
  BY <1>1, RunningFacts DEF Unfinished, Running
<1>3. /\ Inner.snap \in DOMAIN snaps /\ snaps[Inner.snap] = Inner.before.work
      /\ SubSeq(logs, 1, Inner.logMark) = Inner.before.logs
  BY <1>2, TrailRestores
<1>4. /\ work' = Inner.before.work /\ logs' = Inner.before.logs
      /\ snaps' = SubSeq(snaps, 1, Inner.snap - 1) /\ frames' = Popped(n)
      /\ UNCHANGED <<stores, txVars, burned, paidFor>>
  BY <1>3 DEF Undo, Reverted, SnapsBelow
<1>5. Trail(stores, frames', work', snaps', logs')
  BY <1>3, <1>4, PoppedTrail
<1>6. paidFor' = Min({paidFor + 0, tx.budget + 1})
  BY <1>1, <1>4, PaysNothing
<1>7. n + 0 <= Remaining(Inner) /\ 0 \in Nat
  BY <1>2
<1>8. QED
  BY <1>4, <1>5, <1>6, <1>7, ReturnsGoes

-----------------------------------------------------------------------------
(* The start of a transaction.                                             *)

\* Energy is never free, and a budget is a natural number.
LEMMA PriceNat == ASSUME NEW fee \in Nat PROVE EnergyPrice(fee) \in Nat /\ EnergyPrice(fee) > 0
BY EnergyAssumption DEF EnergyPrice

\* A budget is a natural number.
LEMMA BudgetNat ==
    ASSUME NEW energy \in Nat, NEW balance \in Int, NEW value \in Int, NEW limit \in Int,
           NEW fee \in Nat
    PROVE  Max({AccountEnergyLimit(energy, balance, value, limit, fee), 0}) \in Nat
<1> DEFINE price == EnergyPrice(fee)
           spendable == Max({balance - value, 0})
           x == energy + spendable \div price
           y == limit \div price
<1>1. price \in Nat /\ price > 0
  BY PriceNat
<1>2. spendable \in Nat
  <2>1. balance - value \in Int
    OBVIOUS
  <2>2. QED
    BY <2>1, Max2
<1>3. AccountEnergyLimit(energy, balance, value, limit, fee) = Min({x, y})
  BY DEF AccountEnergyLimit
<1> HIDE DEF price, spendable
<1>4. x \in Nat /\ y \in Int
  <2>1. spendable \div price \in Nat
    BY <1>1, <1>2, DivNat
  <2>2. limit \div price \in Int
    BY <1>1
  <2>3. QED
    BY <2>1, <2>2
<1> HIDE DEF x, y
<1>5. Min({x, y}) \in Int
  BY <1>4, Min2
<1>6. QED
  BY <1>3, <1>5, Max2

\* The copy a transaction starts from says what the stores say.
LEMMA FreshCopy ==
    ASSUME stores \in [Addresses -> Account], \A a \in Addresses : stores[a].bal = InitialBalance[a],
           \A a \in Addresses : stores[a].code > 0 => stores[a].exists
    PROVE  NewVMStateDB \in Copies /\ Sound(stores, NewVMStateDB)
<1>1. NewVMStateDB \in Copies
  BY DEF NewVMStateDB, Load, Copies, VmAccount, Account
<1>2. Marks(stores, NewVMStateDB)
  BY DEF NewVMStateDB, Load, Marks, Account
<1>3. [a \in Addresses |-> NewVMStateDB[a].bal] = InitialBalance
  BY CallFramesAssumption DEF NewVMStateDB, Load
<1>4. QED
  BY <1>1, <1>2, <1>3 DEF Sound, BalSum

\* The invariant holds before the transaction.
LEMMA InitInv == Init => IInv
<1> SUFFICES ASSUME Init PROVE IInv
  OBVIOUS
<1> DEFINE found(a) == [bal |-> InitialBalance[a], code |-> IF a \in Contracts THEN 1 ELSE 0,
                        slot |-> "absent", exists |-> a \in Contracts \cup {Owner}]
<1>0. stores = [a \in Addresses |-> found(a)]
  BY DEF Init
<1>1. /\ stores \in [Addresses -> Account] /\ stores[Owner].exists
      /\ \A a \in Addresses : stores[a].code > 0 => stores[a].exists
  <2>1. \A a \in Addresses : /\ found(a) \in Account /\ found(a).bal = InitialBalance[a]
                             /\ found(a).code > 0 => found(a).exists
    <3> TAKE a \in Addresses
    <3>1. InitialBalance[a] \in Int /\ 1 \in 0 .. MaxCodeLength /\ 0 \in 0 .. MaxCodeLength
      BY Costs, CallFramesAssumption
    <3>2. CASE a \in Contracts
      BY <3>1, <3>2 DEF Account, Slots
    <3>3. CASE a \notin Contracts
      BY <3>1, <3>3 DEF Account, Slots
    <3>4. QED
      BY <3>2, <3>3
  <2>2. Owner \in Addresses /\ found(Owner).exists
    BY CallFramesAssumption
  <2>3. \A a \in Addresses : stores[a] = found(a)
    BY <1>0
  <2> HIDE DEF found
  <2>4. stores \in [Addresses -> Account]
    BY <1>0, <2>1
  <2>5. QED
    BY <2>1, <2>2, <2>3, <2>4
<1>2. \A a \in Addresses : stores[a].bal = InitialBalance[a]
  BY <1>0
<1>3. work = NewVMStateDB /\ work \in Copies /\ Sound(stores, work)
  BY <1>1, <1>2, FreshCopy DEF Init
<1>4. frames = <<>> /\ snaps = <<>> /\ logs = <<>> /\ phase = "new" /\ burned = 0 /\ paidFor = 0
  BY DEF Init
<1>5. Trail(stores, frames, work, snaps, logs)
  BY <1>3, <1>4 DEF Trail, WayBack, Frozen, Alive, AllSound
<1>6. TypeInv
  BY <1>1, <1>4 DEF Init, TypeInv
<1>7. QED
  BY <1>1, <1>2, <1>3, <1>4, <1>5, <1>6
     DEF IInv, Unfinished, Running, FlushMissesNothing, ReceiptCoversSteps

\* The start of a transaction makes the outermost frame.
LEMMA BeginInv ==
    ASSUME IInv, NEW create \in BOOLEAN, NEW to \in Addresses, NEW callValue \in TxValues,
           NEW callerEnergy \in CallerEnergies, NEW feeLimit \in FeeLimits,
           Begin(create, to, callValue, callerEnergy, feeLimit)
    PROVE  IInv' /\ ~Running /\ Running'
<1> DEFINE budget == Max({AccountEnergyLimit(callerEnergy, stores[Owner].bal, callValue,
                                             feeLimit, EnergyFee), 0})
           fresh == IF create THEN CreateAccount(work, to) ELSE work
           hasCode == create \/ work[to].code > 0
           f == NewFrame("top", to, FALSE, budget, hasCode, work)
<1>1. /\ phase = "new" /\ phase' = "running"
      /\ tx' = [create |-> create, callerEnergy |-> callerEnergy, budget |-> budget]
      /\ snaps' = Append(snaps, work)
      /\ work' = IF callValue > 0 THEN Transfer(fresh, Owner, to, callValue) ELSE fresh
      /\ frames' = <<f>> /\ UNCHANGED <<stores, logs, receipt, pushed, burned, paidFor>>
  BY DEF Begin
<1>2. /\ frames = <<>> /\ ~Running /\ Unfinished /\ TypeInv /\ work = NewVMStateDB /\ paidFor = 0
      /\ Trail(stores, frames, work, snaps, logs) /\ work \in Copies
      /\ snaps \in Seq(Copies) /\ logs \in Seq(Addresses)
  BY <1>1 DEF IInv, Running, Unfinished, Trail
<1>3. Owner \in Addresses /\ callValue \in Int /\ callerEnergy \in Nat /\ feeLimit \in Int
      /\ EnergyFee \in Nat
  BY Costs, CallFramesAssumption
<1>4. budget \in Nat
  <2>1. stores[Owner].bal \in Int
    BY <1>2, <1>3 DEF TypeInv, Account
  <2>2. QED
    BY <1>3, <2>1, BudgetNat
<1>5. /\ Follows(stores, work, fresh) /\ BalSum(fresh) = BalSum(work) /\ fresh \in Copies
      /\ hasCode => fresh[to].exists
  <2>1. CASE create
    BY <1>2, <2>1, CreateAccountFollows DEF Follows
  <2>2. CASE ~create
    BY <1>2, <2>2 DEF Follows, Grows, Trail, AllSound, Sound, Marks
  <2>3. QED
    BY <2>1, <2>2
<1>6. hasCode \in BOOLEAN
  OBVIOUS
<1> HIDE DEF budget, fresh, hasCode, f
<1>7. /\ Follows(stores, fresh, work') /\ BalSum(work') = BalSum(fresh)
  <2>1. CASE callValue > 0
    BY <1>1, <1>3, <1>5, <2>1, TransferFollows
  <2>2. CASE ~(callValue > 0)
    <3>1. work' = fresh
      BY <1>1, <2>2
    <3>2. QED
      BY <1>5, <3>1 DEF Follows, Grows
  <2>3. QED
    BY <2>1, <2>2
<1>8. /\ Follows(stores, work, work') /\ BalSum(work') = BalSum(work)
      /\ hasCode => work'[to].exists
  <2>1. Follows(stores, work, work')
    BY <1>2, <1>5, <1>7, FollowsTrans
  <2>2. QED
    BY <1>5, <1>7, <2>1 DEF Follows, Grows
<1>9. /\ f \in Frames
      /\ f.snap = Len(snaps) + 1 /\ f.logMark = Len(logs)
      /\ f.before = [work |-> work, logs |-> logs]
      /\ f.hasCode = hasCode /\ f.self = to /\ ~f.readOnly /\ f.kind = "top"
      /\ f.limit = budget /\ f.used = 0
  <2>1. [work |-> work, logs |-> logs] \in [work : [Addresses -> VmAccount], logs : Seq(Addresses)]
    BY <1>2 DEF Copies
  <2>2. QED
    BY <1>2, <1>4, <1>6, <2>1 DEF f, NewFrame, SnapshotId, Frames
<1>10. frames' = Append(frames, f)
  BY <1>1, <1>2
<1>11. Trail(stores, Append(frames, f), work', Append(snaps, work), logs)
  BY <1>2, <1>8, <1>9, TrailEnter
<1>12. Trail(stores, frames', work', snaps', logs')
  BY <1>1, <1>10, <1>11
<1>13. /\ frames' \in Seq(Frames) /\ Len(frames') = 1 /\ frames'[1] = f /\ DOMAIN frames' = {1}
       /\ Without(frames', frames) /\ frames' # <<>>
  <2>1. frames \in Seq(Frames) /\ Len(frames) = 0 /\ DOMAIN frames = {}
    BY <1>2
  <2>2. frames' \in Seq(Frames) /\ Len(frames') = 1 /\ frames'[1] = f /\ DOMAIN frames' = {1}
        /\ frames' # <<>>
    BY <1>1, <1>9
  <2>3. QED
    BY <2>1, <2>2 DEF Without
<1>14. RemSum(frames') = budget
  <2>1. RemSum(frames') = RemSum(frames) + Remaining(frames'[Len(frames')])
    BY <1>13, RemSumWithout
  <2>2. QED
    BY <1>2, <1>4, <1>9, <1>13, <2>1, RemSumEmpty DEF Remaining
<1>15. NewVMStateDB' = NewVMStateDB
  BY <1>1 DEF NewVMStateDB, Load
<1>16. Metering'
  BY <1>1, <1>2, <1>4, <1>9, <1>13, <1>14, <1>15 DEF Metering, Metered
<1>17. TypeInv' /\ Unfinished'
  BY <1>1, <1>2, <1>3, <1>4, <1>12 DEF TypeInv, Unfinished
<1>18. Running'
  BY <1>13 DEF Running
<1>19. QED
  BY <1>1, <1>2, <1>16, <1>17, <1>18 DEF IInv, FlushMissesNothing, ReceiptCoversSteps

-----------------------------------------------------------------------------
(* The end of the transaction.                                             *)

\* The bill: the whole of the energy used, paid from the stake or burned.
LEMMA BillOf ==
    ASSUME TypeInv, NEW used \in Nat, NEW bill, bill = Compute(BillFor(used))
    PROVE  /\ bill.energyUsageTotal = used
           /\ bill.energyFee \in Nat
           /\ bill.energyFee = (bill.energyUsageTotal - bill.energyUsage) * EnergyPrice(EnergyFee)
<1> DEFINE price == EnergyPrice(EnergyFee)
           b == BillFor(used)
<1>1. price \in Nat
  BY Costs, PriceNat
<1>2. /\ b.energyUsed = used /\ b.callerEnergy = tx.callerEnergy /\ b.energyPrice = EnergyFee
      /\ b.originEnergy = 0 /\ b.consumeUserPercent = 100 /\ b.originEnergyLimit = 0
  BY DEF BillFor
<1> HIDE DEF b, price
<1>3. CASE used = 0
  <2>1. bill = NoBill
    BY <1>2, <1>3 DEF Compute, b
  <2>2. QED
    BY <1>1, <1>3, <2>1 DEF NoBill, price
<1>4. CASE used # 0
  <2>1. OriginUsage(b) = 0
    <3>1. Max({100 - b.consumeUserPercent, 0}) = 0
      BY <1>2, Max2
    <3>2. (b.energyUsed * 0) \div 100 = 0
      BY <1>2
    <3>3. Min({0, 0}) = 0
      BY Min2
    <3>4. QED
      BY <1>2, <3>1, <3>2, <3>3 DEF OriginUsage
  <2> DEFINE staked == Min({tx.callerEnergy, used})
  <2>2. staked \in Nat /\ staked <= used
    BY Min2 DEF TypeInv
  <2>3. /\ bill.energyUsage = staked /\ bill.energyUsageTotal = used
        /\ bill.energyFee = (used - staked) * price
    BY <1>2, <1>4, <2>1 DEF Compute, b, price
  <2> HIDE DEF staked
  <2>4. used - staked \in Nat
    BY <2>2
  <2>5. (used - staked) * price \in Nat
    BY <1>1, <2>4, MulNat
  <2>6. QED
    BY <2>3, <2>5 DEF price
<1>5. QED
  BY <1>3, <1>4

\* With one frame left, the steps taken cost no more than it has used.
LEMMA OneFrame ==
    ASSUME IInv, Len(frames) = 1
    PROVE  /\ Running /\ Inner = frames[1]
           /\ Inner.limit = tx.budget /\ Inner.used <= tx.budget /\ paidFor <= Inner.used
           /\ Inner.before.work = NewVMStateDB
<1>1. Running
  BY DEF Running
<1>2. /\ frames \in Seq(Frames) /\ Inner = frames[1] /\ Metering
      /\ Inner.limit \in Nat /\ Inner.used \in Nat /\ Remaining(Inner) = Inner.limit - Inner.used
      /\ paidFor \in Nat /\ tx.budget \in Nat
  BY <1>1, RunningFacts DEF IInv, TypeInv
<1>3. Without(frames, <<>>)
  BY <1>2 DEF Without
<1>4. RemSum(frames) = RemSum(<<>>) + Remaining(frames[Len(frames)])
  BY <1>2, <1>3, RemSumWithout
<1>5. RemSum(frames) = Inner.limit - Inner.used
  BY <1>2, <1>4, RemSumEmpty
<1>6. Inner.used <= Inner.limit
  BY <1>2 DEF Metering, Metered
<1>7. QED
  BY <1>1, <1>2, <1>5, <1>6 DEF Metering

\* Flush brings the stores to the copy, because every change is marked.
LEMMA FlushedIs ==
    ASSUME stores \in [Addresses -> Account], NEW w \in Copies, Marks(stores, w)
    PROVE  /\ Flushed(w) \in [Addresses -> Account]
           /\ \A a \in Addresses : /\ Flushed(w)[a].bal = w[a].bal
                                   /\ Flushed(w)[a].code = w[a].code
                                   /\ Flushed(w)[a].slot = w[a].slot
                                   /\ Flushed(w)[a].exists = w[a].exists
<1> DEFINE r(a) == [bal    |-> IF w[a].balDirty THEN w[a].bal ELSE stores[a].bal,
                    code   |-> IF w[a].codeDirty THEN w[a].code ELSE stores[a].code,
                    slot   |-> IF w[a].slotDirty THEN w[a].slot ELSE stores[a].slot,
                    exists |-> stores[a].exists \/ w[a].balDirty \/ w[a].codeDirty]
<1>1. ASSUME NEW a \in Addresses
      PROVE  r(a) = [bal |-> w[a].bal, code |-> w[a].code, slot |-> w[a].slot, exists |-> w[a].exists]
  <2>1. w[a].exists \in BOOLEAN
    BY DEF Copies, VmAccount
  <2>2. (stores[a].exists \/ w[a].balDirty \/ w[a].codeDirty) = w[a].exists
    BY <2>1 DEF Marks
  <2>3. QED
    BY <2>2 DEF Marks
<1>2. Flushed(w) = [a \in Addresses |-> r(a)]
  BY DEF Flushed
<1> HIDE DEF r
<1>3. Flushed(w) = [a \in Addresses |-> [bal |-> w[a].bal, code |-> w[a].code, slot |-> w[a].slot,
                                         exists |-> w[a].exists]]
  BY <1>1, <1>2
<1>4. QED
  BY <1>3 DEF Copies, VmAccount, Account

(* The copy the end of the transaction keeps, before its bill is paid.      *)
KeptAt(outcome, length) ==
    IF outcome # "stop" THEN Reverted(Inner.snap)
    ELSE IF tx.create THEN SetCode(work, Inner.self, length) ELSE work

\* What the copy keeps at the end: all, or nothing of what the program did.
LEMMA FinishKeeps ==
    ASSUME IInv, NEW outcome, NEW length \in 0 .. MaxCodeLength, Len(frames) = 1
    PROVE  /\ KeptAt(outcome, length) \in Copies /\ Sound(stores, KeptAt(outcome, length))
           /\ outcome # "stop" => KeptAt(outcome, length) = NewVMStateDB
<1> USE DEF KeptAt
<1>1. /\ Running /\ work \in Copies /\ Inner.self \in Addresses /\ frames # <<>>
      /\ Trail(stores, frames, work, snaps, logs) /\ Inner = frames[Len(frames)]
  BY OneFrame, RunningFacts DEF Unfinished, Running
<1>2. CASE outcome # "stop"
  BY <1>1, <1>2, TrailRestores, OneFrame DEF Reverted
<1>3. CASE outcome = "stop"
  <2>1. Sound(stores, work)
    BY <1>1 DEF Trail, AllSound
  <2>2. Follows(stores, work, SetCode(work, Inner.self, length))
        /\ BalSum(SetCode(work, Inner.self, length)) = BalSum(work)
    BY <1>1, SetCodeFollows
  <2>3. QED
    BY <1>1, <1>3, <2>1, <2>2 DEF Sound, Follows
<1>4. QED
  BY <1>2, <1>3

\* The copy a transaction started from, less a fee, flushed.
LEMMA FeeOnly ==
    ASSUME stores \in [Addresses -> Account], NewVMStateDB \in Copies, stores[Owner].exists,
           NEW fee \in Nat, NEW w,
           w = (IF fee > 0 THEN SubBalance(NewVMStateDB, Owner, fee) ELSE NewVMStateDB)
    PROVE  \A a \in Addresses :
              Flushed(w)[a] = [stores[a] EXCEPT !.bal = IF a = Owner THEN @ - fee ELSE @]
<1> TAKE a \in Addresses
<1>1. stores[a] \in Account /\ Owner \in Addresses
  BY CallFramesAssumption
<1>2. NewVMStateDB[a] = Load(a) /\ NewVMStateDB[Owner] = Load(Owner)
  BY <1>1 DEF NewVMStateDB
<1> DEFINE x == [bal    |-> IF w[a].balDirty THEN w[a].bal ELSE stores[a].bal,
                 code   |-> IF w[a].codeDirty THEN w[a].code ELSE stores[a].code,
                 slot   |-> IF w[a].slotDirty THEN w[a].slot ELSE stores[a].slot,
                 exists |-> stores[a].exists \/ w[a].balDirty \/ w[a].codeDirty]
<1>3. Flushed(w)[a] = x
  BY DEF Flushed
<1>4. CASE fee > 0 /\ a = Owner
  <2>1. w = [NewVMStateDB EXCEPT ![Owner] =
               [NewVMStateDB[Owner] EXCEPT !.bal = NewVMStateDB[Owner].bal - fee, !.balDirty = TRUE,
                                           !.exists = TRUE]]
    BY <1>4 DEF SubBalance, Copies
  <2>2. /\ w[a].balDirty /\ w[a].bal = stores[a].bal - fee /\ ~w[a].codeDirty /\ ~w[a].slotDirty
    <3>1. w[a] = [Load(a) EXCEPT !.bal = Load(a).bal - fee, !.balDirty = TRUE, !.exists = TRUE]
      BY <1>1, <1>2, <1>4, <2>1 DEF Copies
    <3>2. QED
      BY <3>1, ZenonT(40) DEF Load
  <2>3. stores[a].exists = TRUE
    BY <1>1, <1>4 DEF Account
  <2>4. x = [bal |-> stores[a].bal - fee, code |-> stores[a].code, slot |-> stores[a].slot,
             exists |-> stores[a].exists]
    BY <2>2, <2>3
  <2>5. [stores[a] EXCEPT !.bal = stores[a].bal - fee]
           = [bal |-> stores[a].bal - fee, code |-> stores[a].code, slot |-> stores[a].slot,
              exists |-> stores[a].exists]
    BY <1>1 DEF Account
  <2>6. QED
    BY <1>3, <1>4, <2>4, <2>5
<1>5. CASE ~(fee > 0 /\ a = Owner)
  <2>1. w[a] = NewVMStateDB[a]
    BY <1>1, <1>5 DEF SubBalance, Copies
  <2>2. ~w[a].balDirty /\ ~w[a].codeDirty /\ ~w[a].slotDirty
    BY <1>2, <2>1 DEF Load
  <2>3. x = [bal |-> stores[a].bal, code |-> stores[a].code, slot |-> stores[a].slot,
             exists |-> stores[a].exists]
    BY <1>1, <2>2 DEF Account
  <2>4. x = stores[a]
    BY <1>1, <2>3 DEF Account
  <2>5. (IF a = Owner THEN stores[a].bal - fee ELSE stores[a].bal) = stores[a].bal
    BY <1>1, <1>5 DEF Account
  <2>6. [stores[a] EXCEPT !.bal = stores[a].bal] = stores[a]
    BY <1>1 DEF Account
  <2>7. QED
    BY <1>3, <2>4, <2>5, <2>6
<1>6. QED
  BY <1>4, <1>5

\* The end of the transaction.
LEMMA FinishEnds ==
    ASSUME IInv, NEW outcome \in {"stop", "revert", "fault"}, NEW length \in 0 .. MaxCodeLength,
           Finish(outcome, length)
    PROVE  /\ IInv' /\ Running /\ ~Running'
           /\ 2 * RemSum(frames') + Len(frames') < 2 * RemSum(frames) + Len(frames)
           /\ receipt'.reverted =>
                 /\ receipt'.logs = <<>>
                 /\ \A a \in Addresses :
                       stores'[a] = [stores[a] EXCEPT
                           !.bal = IF a = Owner THEN @ - (burned' - burned) ELSE @]
<1> DEFINE used == IF outcome = "fault" THEN Inner.limit ELSE Inner.used
           kept == KeptAt(outcome, length)
           bill == Compute(BillFor(used))
           final == IF bill.energyFee > 0 THEN SubBalance(kept, Owner, bill.energyFee) ELSE kept
<1>1. /\ Len(frames) = 1 /\ work' = final /\ stores' = Flushed(final)
      /\ burned' = burned + bill.energyFee
      /\ receipt' = [energy |-> bill, reverted |-> outcome # "stop",
                     logs |-> IF outcome # "stop" THEN <<>> ELSE logs]
      /\ frames' = <<>> /\ phase' = "over" /\ UNCHANGED <<logs, tx, pushed, paidFor>>
  BY DEF Finish, KeptAt
<1>2. /\ Running /\ Inner.limit = tx.budget /\ Inner.used <= tx.budget /\ paidFor <= Inner.used
  BY <1>1, OneFrame
<1>3. /\ Inner.used \in Nat /\ Inner.limit \in Nat /\ RemSum(frames) \in Nat
      /\ TypeInv /\ Unfinished /\ burned = 0 /\ stores \in [Addresses -> Account]
      /\ tx.budget \in Nat /\ paidFor \in Nat /\ Owner \in Addresses
  BY <1>2, RunningFacts, CallFramesAssumption DEF IInv, TypeInv, Unfinished
<1>4. used \in Nat /\ used <= tx.budget /\ paidFor <= used
  BY <1>2, <1>3
<1> HIDE DEF used
<1>5. /\ bill.energyUsageTotal = used /\ bill.energyFee \in Nat
      /\ bill.energyFee = (bill.energyUsageTotal - bill.energyUsage) * EnergyPrice(EnergyFee)
  BY <1>3, <1>4, BillOf
<1>6. /\ kept \in Copies /\ Sound(stores, kept)
      /\ outcome # "stop" => kept = NewVMStateDB
  BY <1>1, FinishKeeps
<1> DEFINE fee == bill.energyFee
<1> HIDE DEF kept, bill
<1>7. /\ final \in Copies /\ Marks(stores, final)
      /\ BalSum(final) = SumFunction(InitialBalance) - fee
  <2>1. BalSum(kept) \in Int /\ BalSum(kept) = SumFunction(InitialBalance) /\ Marks(stores, kept)
    BY <1>6, BalSumSame DEF Sound
  <2>2. Follows(stores, kept, SubBalance(kept, Owner, fee))
        /\ BalSum(SubBalance(kept, Owner, fee)) = BalSum(kept) - fee
    <3>1. fee \in Int
      BY <1>5
    <3> HIDE DEF fee
    <3>2. QED
      BY <1>3, <1>6, <3>1, SubBalanceFollows
  <2>3. QED
    BY <1>5, <1>6, <2>1, <2>2 DEF Follows
<1>8. BalSum(final) \in Int
  BY <1>7, BalSumSame
<1>9. outcome # "stop" => \A a \in Addresses :
          Flushed(final)[a] = [stores[a] EXCEPT !.bal = IF a = Owner THEN @ - fee ELSE @]
  BY <1>3, <1>5, <1>6, FeeOnly DEF Unfinished
<1> HIDE DEF final, fee
<1>10. /\ stores' \in [Addresses -> Account]
       /\ \A a \in Addresses : /\ stores'[a].bal = work'[a].bal
                               /\ stores'[a].code = work'[a].code
                               /\ stores'[a].slot = work'[a].slot
                               /\ stores'[a].exists = work'[a].exists
  BY <1>1, <1>3, <1>7, FlushedIs
<1>11. burned' = fee /\ fee \in Nat
  BY <1>1, <1>3, <1>5 DEF fee
<1>12. TypeInv'
  BY <1>1, <1>3, <1>10, <1>11 DEF TypeInv
<1>13. Settled'
  <2>1. BalSum(work') + burned' = SumFunction(InitialBalance)
    <3>1. SumFunction(InitialBalance) \in Int
      BY <1>6, BalSumSame DEF Sound
    <3>2. QED
      BY <1>1, <1>7, <1>8, <1>11, <3>1
  <2>2. QED
    BY <1>1, <1>7, <2>1 DEF Settled
<1>14. FlushMissesNothing'
  BY <1>10 DEF FlushMissesNothing
<1>15. ReceiptCoversSteps'
  <2>1. receipt'.energy = bill /\ tx' = tx /\ paidFor' = paidFor
    BY <1>1
  <2>2. QED
    BY <1>4, <1>5, <1>11, <2>1 DEF ReceiptCoversSteps, fee
<1>16. IInv'
  BY <1>1, <1>12, <1>13, <1>14, <1>15 DEF IInv, Running
<1>17. 2 * RemSum(frames') + Len(frames') < 2 * RemSum(frames) + Len(frames)
  BY <1>1, <1>3, RemSumEmpty
<1>18. receipt'.reverted => /\ receipt'.logs = <<>>
                            /\ \A a \in Addresses :
                                 stores'[a] = [stores[a] EXCEPT
                                     !.bal = IF a = Owner THEN @ - (burned' - burned) ELSE @]
  <2>1. burned' - burned = fee
    BY <1>3, <1>11
  <2>2. receipt'.reverted => outcome # "stop" /\ receipt'.logs = <<>>
    BY <1>1
  <2>3. QED
    BY <1>1, <1>9, <2>1, <2>2
<1>19. QED
  BY <1>1, <1>2, <1>16, <1>17, <1>18 DEF Running

-----------------------------------------------------------------------------
(* Every step.                                                             *)

\* A step starts the transaction, goes on with it, ends it, or follows its end.
LEMMA EveryStep ==
    ASSUME IInv, Next
    PROVE  \/ IInv' /\ ~Running /\ Running'
           \/ \E e \in Nat : Running /\ Goes(e)
           \/ \E outcome \in {"stop", "revert", "fault"}, length \in 0 .. MaxCodeLength :
                 Finish(outcome, length)
           \/ UNCHANGED vars /\ ~Running
<1>1. CASE \E create \in BOOLEAN, to \in Addresses, callValue \in TxValues,
              callerEnergy \in CallerEnergies, feeLimit \in FeeLimits :
                 Begin(create, to, callValue, callerEnergy, feeLimit)
  BY <1>1, BeginInv
<1>2. CASE Step
  BY <1>2, StepGoes, Costs
<1>3. CASE \E value \in Writes : Sstore(value)
  <2>1. PICK value \in Writes : Sstore(value)
    BY <1>3
  <2>2. SstoreCost(value) \in Nat
    BY Costs DEF SstoreCost
  <2>3. QED
    BY <2>1, <2>2, SstoreGoes
<1>4. CASE OpLog
  BY <1>4, OpLogGoes, Costs
<1>5. CASE CallStep
  BY <1>5, CallRefusedGoes, CallGoes, CallPrecompileGoes, Costs DEF CallStep
<1>6. CASE CreateStep
  BY <1>6, CreateRefusedGoes, CreateGoes, Costs DEF CreateStep
<1>7. CASE EndStep
  <2>1. CASE ReturnCall
    BY <2>1, ReturnCallGoes
  <2>2. CASE \E length \in 0 .. MaxCodeLength : ReturnCreate(length)
    BY <2>2, ReturnCreateGoes
  <2>3. ASSUME Nested PROVE Running /\ Remaining(Inner) \in Nat
    BY <2>3, RunningFacts DEF Running, Nested
  <2>4. CASE \E length \in 0 .. MaxCodeLength : ReturnCreateUnpaid(length)
    BY <2>3, <2>4, UndoGoes DEF ReturnCreateUnpaid
  <2>5. CASE RevertNested
    <3> DEFINE n == Remaining(Inner)
    <3>1. Nested /\ Undo(n) /\ n \in Nat /\ n <= Remaining(Inner)
      BY <2>3, <2>5 DEF RevertNested
    <3> HIDE DEF n
    <3>2. QED
      BY <3>1, UndoGoes
  <2>6. CASE FaultNested
    BY <2>3, <2>6, UndoGoes DEF FaultNested
  <2>7. CASE \E outcome \in {"stop", "revert", "fault"}, length \in 0 .. MaxCodeLength :
                Finish(outcome, length)
    BY <2>7
  <2>8. QED
    BY <1>7, <2>1, <2>2, <2>4, <2>5, <2>6, <2>7 DEF EndStep
<1>8. CASE Done
  BY <1>8 DEF Done, IInv
<1>9. QED
  BY <1>1, <1>2, <1>3, <1>4, <1>5, <1>6, <1>7, <1>8 DEF Next

\* A step that changes nothing keeps the invariant.
LEMMA StutterInv ==
    ASSUME IInv, UNCHANGED vars
    PROVE  IInv'
<1>1. /\ stores' = stores /\ work' = work /\ snaps' = snaps /\ logs' = logs /\ frames' = frames
      /\ phase' = phase /\ tx' = tx /\ receipt' = receipt /\ burned' = burned /\ paidFor' = paidFor
  BY DEF vars, txVars
<1>2. QED
  BY <1>1 DEF IInv, TypeInv, Unfinished, Metering, Settled, Running, NewVMStateDB, Load,
              FlushMissesNothing, ReceiptCoversSteps

\* IInv is an invariant: it holds at the start and every step keeps it.
THEOREM InductiveInvariant == Spec => []IInv
<1>1. IInv /\ [Next]_vars => IInv'
  <2> SUFFICES ASSUME IInv, [Next]_vars PROVE IInv'
    OBVIOUS
  <2>1. CASE Next
    BY <2>1, EveryStep, GoesOn, FinishEnds, StutterInv
  <2>2. CASE UNCHANGED vars
    BY <2>2, StutterInv
  <2>3. QED
    BY <2>1, <2>2
<1>2. QED
  BY InitInv, <1>1, PTL DEF Spec

-----------------------------------------------------------------------------
(* What the invariant says of a transaction.                               *)

\* Below a STATICCALL neither accounts nor logs change, however deep.
THEOREM StaticTheorem == Spec => []StaticChangesNothing
<1>1. IInv => StaticChangesNothing
  <2> SUFFICES ASSUME IInv PROVE StaticChangesNothing
    OBVIOUS
  <2>1. CASE Running
    BY <2>1, RunningFacts DEF Unfinished, Trail, Frozen, StaticChangesNothing
  <2>2. CASE ~Running
    <3>1. DOMAIN frames = {}
      BY <2>2 DEF Running
    <3>2. QED
      BY <3>1 DEF StaticChangesNothing
  <2>3. QED
    BY <2>1, <2>2
<1>2. QED
  BY <1>1, InductiveInvariant, PTL

\* TRX are only moved until the fee is burned: the balances add up.
THEOREM ConservationTheorem == Spec => []TrxConserved
<1>1. IInv => TrxConserved
  <2> SUFFICES ASSUME IInv PROVE TrxConserved
    OBVIOUS
  <2> DEFINE total == SumFunction(InitialBalance)
             held == [a \in Addresses |-> stores[a].bal]
  <2>1. BalSum(work) + burned = total
    <3>1. CASE phase = "over"
      BY <3>1 DEF IInv, Settled
    <3>2. CASE phase # "over"
      <4>1. work \in Copies /\ BalSum(work) = total /\ burned = 0
        BY <3>2 DEF IInv, Unfinished, Trail, AllSound, Sound
      <4>2. BalSum(work) \in Int
        BY <4>1, BalSumSame
      <4>3. QED
        BY <4>1, <4>2
    <3>3. QED
      BY <3>1, <3>2
  <2>2. ASSUME ~Running PROVE SumFunction(held) + burned = total
    <3>1. CASE phase = "over"
      <4>1. held = [a \in Addresses |-> work[a].bal]
        <5>1. \A a \in Addresses : stores[a]["bal"] = work[a]["bal"]
          BY <3>1 DEF IInv, FlushMissesNothing
        <5>2. QED
          BY <5>1
      <4>2. SumFunction(held) = BalSum(work)
        BY <4>1 DEF BalSum
      <4>3. QED
        BY <2>1, <4>2
    <3>2. CASE phase # "over"
      <4>1. /\ \A a \in Addresses : stores[a].bal = InitialBalance[a]
            /\ burned = 0 /\ work \in Copies /\ BalSum(work) = total
        BY <3>2 DEF IInv, Unfinished, Trail, AllSound, Sound
      <4>2. held = InitialBalance
        BY <4>1, CallFramesAssumption
      <4>3. BalSum(work) \in Int
        BY <4>1, BalSumSame
      <4> HIDE DEF held
      <4>4. QED
        BY <4>1, <4>2, <4>3
    <3>3. QED
      BY <3>1, <3>2
  <2>3. QED
    BY <2>1, <2>2 DEF TrxConserved, BalSum
<1>2. QED
  BY <1>1, InductiveInvariant, PTL

\* When the transaction is over the stores say what the working copy said.
THEOREM FlushTheorem == Spec => []FlushMissesNothing
<1>1. IInv => FlushMissesNothing
  BY DEF IInv
<1>2. QED
  BY <1>1, InductiveInvariant, PTL

\* The budget covers every step, the stipends of value calls included.
THEOREM BudgetTheorem == Spec => []EnergyCoversSteps
<1>1. IInv => EnergyCoversSteps
  BY DEF IInv, Metering, EnergyCoversSteps, RemSum
<1>2. QED
  BY <1>1, InductiveInvariant, PTL

\* The receipt charges at least the energy of the steps taken and at most the
\* budget, and the fee burned is the part the stake did not pay.
THEOREM ReceiptTheorem == Spec => []ReceiptCoversSteps
<1>1. IInv => ReceiptCoversSteps
  BY DEF IInv
<1>2. QED
  BY <1>1, InductiveInvariant, PTL

\* A caller that finds 0 finds the accounts and the logs as they were.
THEOREM UndoTheorem == Spec => ZeroMeansUndone
<1> DEFINE A == Running' /\ Len(frames') < Len(frames) /\ pushed' = 0
                   => work' = Inner.before.work /\ logs' = Inner.before.logs
<1>1. IInv /\ [Next]_vars => [A]_vars
  <2> SUFFICES ASSUME IInv, Next PROVE A \/ UNCHANGED vars
    OBVIOUS
  <2>1. ASSUME ~Running, Running' PROVE A
    <3>1. Len(frames) = 0
      BY <2>1 DEF Running
    <3>2. IInv'
      BY <2>1, EveryStep, GoesOn, FinishEnds, StutterInv
    <3>3. frames' \in Seq(Frames)
      BY <2>1, <3>2 DEF IInv, Unfinished, Trail
    <3>4. ~(Len(frames') < Len(frames))
      BY <3>1, <3>3
    <3>5. QED
      BY <3>4
  <2>2. ASSUME NEW e \in Nat, Running /\ Goes(e) PROVE A
    BY <2>2 DEF Goes
  <2>3. QED
    BY <2>1, <2>2, EveryStep, FinishEnds
<1>2. QED
  BY <1>1, InductiveInvariant, PTL DEF Spec, ZeroMeansUndone

\* A failed transaction costs its fee and nothing else.
THEOREM FailureTheorem == Spec => FailureCostsOnlyFee
<1> DEFINE A == Running /\ ~Running' /\ receipt'.reverted
                   => /\ receipt'.logs = <<>>
                      /\ \A a \in Addresses :
                            stores'[a] = [stores[a] EXCEPT
                                !.bal = IF a = Owner THEN @ - (burned' - burned) ELSE @]
<1>1. IInv /\ [Next]_vars => [A]_vars
  <2> SUFFICES ASSUME IInv, Next PROVE A \/ UNCHANGED vars
    OBVIOUS
  <2>1. ASSUME NEW e \in Nat, Running /\ Goes(e) PROVE A
    BY <2>1 DEF Goes, Running
  <2>2. QED
    BY <2>1, EveryStep, FinishEnds
<1>2. QED
  BY <1>1, InductiveInvariant, PTL DEF Spec, FailureCostsOnlyFee

\* Every step of a transaction leaves less to do, so it comes to its end.
THEOREM EndTheorem == Spec => RunsDown
<1> DEFINE A == Running => Left' < Left
<1>1. IInv /\ [Next]_vars => [A]_vars
  <2> SUFFICES ASSUME IInv, Next, Running PROVE Left' < Left
    OBVIOUS
  <2>1. Left = 2 * RemSum(frames) + Len(frames) /\ Left' = 2 * RemSum(frames') + Len(frames')
    BY DEF Left, RemSum
  <2>2. ASSUME NEW e \in Nat, Goes(e) PROVE Left' < Left
    BY <2>1, <2>2 DEF Goes
  <2>3. QED
    BY <2>1, <2>2, EveryStep, FinishEnds
<1>2. QED
  BY <1>1, InductiveInvariant, PTL DEF Spec, RunsDown

-----------------------------------------------------------------------------
(* Words: every operation of the machine yields a word.                    *)

\* The number of values of n bytes is positive.
LEMMA CapacityNat ==
    ASSUME NEW n \in Nat
    PROVE  Capacity(n) \in Nat \ {0}
<1> DEFINE k == ByteBits * n
<1>1. k \in Nat
  BY WordsAssumption
<1> HIDE DEF k
<1>2. 2 ^ k \in Nat \ {0}
  BY <1>1, PowPositive
<1>3. QED
  BY <1>2 DEF Capacity, k

\* Bytes side by side multiply their capacities.
LEMMA CapacitySum ==
    ASSUME NEW m \in Nat, NEW n \in Nat
    PROVE  Capacity(m + n) = Capacity(m) * Capacity(n)
<1> DEFINE a == ByteBits * m
           b == ByteBits * n
<1>1. a \in Nat /\ b \in Nat /\ ByteBits * (m + n) = a + b
  BY WordsAssumption
<1> HIDE DEF a, b
<1>2. 2 ^ (a + b) = 2 ^ a * 2 ^ b
  BY <1>1, PowSum
<1>3. QED
  BY <1>1, <1>2, Zenon DEF Capacity, a, b

\* More bytes hold no fewer values.
LEMMA CapacityMono ==
    ASSUME NEW m \in Nat, NEW n \in Nat, m <= n
    PROVE  Capacity(m) <= Capacity(n)
<1> DEFINE a == ByteBits * m
           b == ByteBits * n
<1>1. a \in Nat /\ b \in Nat /\ a <= b
  BY WordsAssumption
<1> HIDE DEF a, b
<1>2. 2 ^ a <= 2 ^ b
  BY <1>1, PowMono
<1>3. QED
  BY <1>2 DEF Capacity, a, b

\* One more byte holds Base times as many.
LEMMA CapacityNext ==
    ASSUME NEW n \in Nat
    PROVE  Capacity(n + 1) = Capacity(n) * Base
BY CapacitySum DEF Base

\* A word, or a byte, has at least two values; there is room for 0 and 1.
LEMMA ModulusTwo ==
    ASSUME NEW n \in Nat \ {0}
    PROVE  Capacity(n) \in Nat /\ Capacity(n) >= 2
<1> DEFINE k == ByteBits * n
<1>1. k \in Nat /\ k >= 1
  BY WordsAssumption
<1> HIDE DEF k
<1>2. 2 ^ k = 2 * 2 ^ (k - 1) /\ 2 ^ (k - 1) \in Nat \ {0} /\ 2 ^ k \in Nat
  <2> DEFINE j == k - 1
  <2>1. j \in Nat /\ k = j + 1
    BY <1>1
  <2> HIDE DEF j
  <2>2. QED
    BY <2>1, <1>1, PowNext, PowPositive, PowNat DEF j
<1>3. QED
  BY <1>2 DEF Capacity, k

\* The modulus of the words, and half of it, are positive.
LEMMA ModulusFacts ==
    /\ Modulus \in Nat /\ Modulus >= 2 /\ Base \in Nat /\ Base >= 2 /\ Base <= Modulus
    /\ 0 \in Word /\ 1 \in Word /\ Byte \subseteq Word
<1>1. Modulus \in Nat /\ Modulus >= 2 /\ Base \in Nat /\ Base >= 2
  BY ModulusTwo, WordsAssumption DEF Modulus, Base
<1>2. Base <= Modulus
  BY CapacityMono, WordsAssumption DEF Modulus, Base
<1>3. QED
  BY <1>1, <1>2 DEF Word, Byte

\* A remainder by a positive number is below it.
LEMMA ModRange ==
    ASSUME NEW a \in Int, NEW b \in Nat, b > 0
    PROVE  a % b \in 0 .. b - 1
OBVIOUS

\* Reduced modulo a number up to Modulus, an integer is a word.
LEMMA Reduced ==
    ASSUME NEW a \in Int, NEW m \in Nat, m > 0, m <= Modulus
    PROVE  a % m \in Word
<1>1. a % m \in 0 .. m - 1
  BY ModRange
<1>2. QED
  BY <1>1, ModulusFacts DEF Word

-----------------------------------------------------------------------------
(* Recursive functions on numbers.                                         *)

(* A function into D on 0 .. N is a at 0, and at i it is given by g from   *)
(* its value at p[i], which is before i.                                   *)
Recursion(N, D, a, p, g) ==
    /\ N \in Nat /\ a \in D
    /\ \A i \in 1 .. N : p[i] \in 0 .. i - 1
    /\ \A i \in 1 .. N : \A d \in D : g[<<i, d>>] \in D

\* Such a function exists.
LEMMA RecursionExists ==
    ASSUME NEW N, NEW D, NEW a, NEW p, NEW g, Recursion(N, D, a, p, g)
    PROVE  \E f \in [0 .. N -> D] : f[0] = a /\ \A i \in 1 .. N : f[i] = g[<<i, f[p[i]]>>]
<1> USE DEF Recursion
<1> DEFINE Solves(f, k) == /\ f \in [0 .. k -> D] /\ f[0] = a
                           /\ \A i \in 1 .. k : f[i] = g[<<i, f[p[i]]>>]
           S == {k \in Nat : k <= N => \E f : Solves(f, k)}
<1>1. 0 \in S
  <2> DEFINE f == [i \in 0 .. 0 |-> a]
  <2>1. Solves(f, 0)
    OBVIOUS
  <2> HIDE DEF f, Solves
  <2>2. QED
    BY <2>1
<1>2. ASSUME NEW k \in Nat, k \in S PROVE k + 1 \in S
  <2>1. SUFFICES ASSUME k + 1 <= N PROVE \E f : Solves(f, k + 1)
    OBVIOUS
  <2>2. PICK f : Solves(f, k)
    BY <1>2, <2>1
  <2> DEFINE v == g[<<k + 1, f[p[k + 1]]>>]
             h == [i \in 0 .. k + 1 |-> IF i = k + 1 THEN v ELSE f[i]]
  <2>3. p[k + 1] \in 0 .. k /\ v \in D
    <3>1. k + 1 \in 1 .. N /\ p[k + 1] \in 0 .. k
      BY <2>1
    <3>2. f[p[k + 1]] \in D
      BY <2>2, <3>1
    <3>3. QED
      BY <3>1, <3>2
  <2>4. \A i \in 0 .. k : f[i] \in D
    BY <2>2
  <2> HIDE DEF v
  <2>5. h \in [0 .. k + 1 -> D] /\ h[0] = a /\ \A i \in 0 .. k : h[i] = f[i]
    BY <2>2, <2>3, <2>4
  <2>6. h[k + 1] = v
    OBVIOUS
  <2> HIDE DEF h
  <2>7. ASSUME NEW i \in 1 .. k + 1 PROVE h[i] = g[<<i, h[p[i]]>>]
    <3>1. CASE i = k + 1
      BY <2>3, <2>5, <2>6, <3>1 DEF v
    <3>2. CASE i \in 1 .. k
      <4>1. p[i] \in 0 .. k /\ f[i] = g[<<i, f[p[i]]>>]
        BY <2>1, <2>2, <3>2
      <4>2. QED
        BY <2>5, <3>2, <4>1
    <3>3. QED
      BY <3>1, <3>2
  <2>8. QED
    BY <2>5, <2>7
<1> HIDE DEF S
<1>3. Nat \subseteq S
  BY <1>1, <1>2, NatSetInduction
<1>4. \E f : Solves(f, N)
  <2>1. N \in Nat /\ N <= N
    OBVIOUS
  <2> HIDE DEF Solves, Recursion
  <2>2. QED
    BY <1>3, <2>1 DEF S
<1>5. QED
  BY <1>4

\* SetBytes: a number that fits into as many bytes.
LEMMA FromBytesBound ==
    ASSUME NEW b \in Seq(Byte)
    PROVE  FromBytes(b) \in 0 .. Capacity(Len(b)) - 1
<1> DEFINE N == Len(b)
           F(f) == [i \in 0 .. N |-> IF i = 0 THEN 0 ELSE f[i - 1] * Base + b[i]]
           value == CHOOSE f : f = F(f)
<1>1. N \in Nat /\ \A i \in 1 .. N : b[i] \in Byte
  BY LenProperties, ElementOfSeq
<1>2. \A i \in 1 .. N : b[i] \in 0 .. Base - 1
  BY <1>1 DEF Byte
<1>3. \E f : f = F(f)
  <2> DEFINE p == [i \in 1 .. N |-> i - 1]
             g == [z \in (1 .. N) \X Nat |-> z[2] * Base + b[z[1]]]
  <2>1. \A i \in 1 .. N : p[i] \in 0 .. i - 1
    BY <1>1
  <2>2. ASSUME NEW i \in 1 .. N, NEW d \in Nat PROVE g[<<i, d>>] \in Nat
    <3>1. d * Base \in Nat
      BY ModulusFacts, MulNat
    <3>2. QED
      BY <1>2, <3>1
  <2>3. \A i \in 1 .. N, d \in Nat : g[<<i, d>>] = d * Base + b[i]
    OBVIOUS
  <2>4. \A i \in 1 .. N : p[i] = i - 1
    OBVIOUS
  <2> HIDE DEF p, g
  <2>5. PICK f \in [0 .. N -> Nat] : f[0] = 0 /\ \A i \in 1 .. N : f[i] = g[<<i, f[p[i]]>>]
    <3> HIDE DEF N
    <3>1. N \in Nat /\ 0 \in Nat
      BY <1>1
    <3>2. \A i \in 1 .. N : \A d \in Nat : g[<<i, d>>] \in Nat
      BY <2>2
    <3>3. Recursion(N, Nat, 0, p, g)
      BY <3>1, <2>1, <3>2 DEF Recursion
    <3>4. QED
      BY ONLY <3>3, RecursionExists
  <2>6. ASSUME NEW i \in 0 .. N PROVE f[i] = F(f)[i]
    <3>1. CASE i = 0
      BY <2>5, <3>1
    <3>2. CASE i # 0
      <4>1. i \in 1 .. N /\ i - 1 \in 0 .. N /\ f[i - 1] \in Nat
        BY <1>1, <2>5, <3>2
      <4>2. f[i] = f[i - 1] * Base + b[i]
        BY <2>3, <2>4, <2>5, <4>1
      <4>3. QED
        BY <3>2, <4>2
    <3>3. QED
      BY <3>1, <3>2
  <2>7. f = F(f)
    BY <2>5, <2>6
  <2>8. QED
    BY <2>7
<1>4. value = F(value)
  <2> HIDE DEF F
  <2> QED
    BY <1>3
<1>5. FromBytes(b) = value[N]
  BY DEF FromBytes
<1> HIDE DEF value
<1>6. value[0] = 0 /\ \A i \in 1 .. N : value[i] = value[i - 1] * Base + b[i]
  <2> HIDE DEF N
  <2>1. 0 \in 0 .. N /\ \A i \in 1 .. N : i \in 0 .. N /\ i # 0
    BY <1>1
  <2>2. QED
    BY <1>4, <2>1
<1> DEFINE S == {k \in Nat : k <= N => value[k] \in 0 .. Capacity(k) - 1}
<1>7. 0 \in S
  <2>1. Capacity(0) \in Nat \ {0}
    BY CapacityNat
  <2>2. QED
    BY <1>6, <2>1
<1>8. ASSUME NEW k \in Nat, k \in S PROVE k + 1 \in S
  <2>1. SUFFICES ASSUME k + 1 <= N PROVE value[k + 1] \in 0 .. Capacity(k + 1) - 1
    OBVIOUS
  <2> DEFINE v == value[k]
             c == Capacity(k)
             w == value[k + 1]
             d == b[k + 1]
  <2>2. k + 1 \in 1 .. N /\ k + 1 - 1 = k
    BY <1>1, <2>1
  <2>3. w = v * Base + d /\ d \in 0 .. Base - 1
    BY <1>2, <1>6, <2>2
  <2>4. v \in Nat /\ c \in Nat /\ v + 1 <= c /\ Capacity(k + 1) = c * Base
    <3>1. c \in Nat \ {0} /\ Capacity(k + 1) = c * Base
      BY CapacityNat, CapacityNext
    <3>2. v \in 0 .. c - 1
      BY <1>1, <1>8, <2>1
    <3> HIDE DEF v, c
    <3>3. QED
      BY <3>1, <3>2
  <2> HIDE DEF v, c, w, d
  <2>5. (v + 1) * Base <= c * Base /\ (v + 1) * Base = v * Base + Base /\ v * Base \in Nat
    BY <2>4, ModulusFacts, MulMono, MulNat
  <2>6. w \in 0 .. c * Base - 1
    <3> DEFINE x == v * Base
               y == c * Base
    <3>1. y \in Nat
      BY <2>4, ModulusFacts, MulNat
    <3>2. x \in Nat /\ x + Base <= y /\ w = x + d /\ Base \in Nat
      BY <2>3, <2>5, ModulusFacts
    <3> HIDE DEF x, y
    <3>3. w \in 0 .. y - 1
      BY <2>3, <3>1, <3>2
    <3>4. QED
      BY <3>3 DEF y
  <2>7. QED
    BY <2>4, <2>6 DEF w
<1> HIDE DEF S
<1>9. N \in S
  BY <1>1, <1>7, <1>8, NatSetInduction
<1>10. QED
  BY <1>5, <1>9 DEF S

\* Up to a word of bytes make a word.
LEMMA FromBytesWord ==
    ASSUME NEW b \in Seq(Byte), Len(b) <= WordBytes
    PROVE  FromBytes(b) \in Word
<1>1. Len(b) \in Nat
  BY LenProperties
<1> DEFINE n == Len(b)
<1> HIDE DEF n
<1>2. n \in Nat /\ n <= WordBytes /\ WordBytes \in Nat /\ FromBytes(b) \in 0 .. Capacity(n) - 1
  BY <1>1, FromBytesBound, WordsAssumption DEF n
<1>3. Capacity(n) <= Modulus /\ Capacity(n) \in Nat
  BY <1>2, CapacityMono, CapacityNat DEF Modulus
<1>4. QED
  BY <1>2, <1>3, ModulusFacts DEF Word

-----------------------------------------------------------------------------
(* Every operation computes a word.                                        *)

\* A truth value is a word.
LEMMA FlagWord == ASSUME NEW p PROVE Flag(p) \in Word
BY ModulusFacts DEF Flag

\* A word read as signed is an integer.
LEMMA SignedInt ==
    ASSUME NEW x \in Word
    PROVE  Signed(x) \in Int /\ Magnitude(x) \in Nat /\ (x # 0 => Magnitude(x) > 0)
<1>1. x \in Int /\ 0 <= x /\ x < Modulus /\ Modulus \in Nat
  BY ModulusFacts DEF Word
<1>2. Modulus \div 2 \in Int
  BY <1>1
<1> DEFINE h == Modulus \div 2
<1> HIDE DEF h
<1>3. Signed(x) = (IF x >= h THEN x - Modulus ELSE x)
  BY DEF Signed, h
<1>4. Signed(x) \in Int /\ (x # 0 => Signed(x) # 0)
  BY <1>1, <1>3
<1>5. QED
  BY <1>4 DEF Magnitude

\* Every integer reduced to a word is one.
LEMMA UnsignedWord == ASSUME NEW n \in Int PROVE Unsigned(n) \in Word
<1>1. Modulus \in Nat /\ Modulus > 0 /\ Modulus <= Modulus
  BY ModulusFacts
<1>2. QED
  BY <1>1, Reduced DEF Unsigned

\* MULMOD stays in the words.
LEMMA ProductModWord ==
    ASSUME NEW x \in Word, NEW y \in Word, NEW m \in Nat, m > 0, m <= Modulus
    PROVE  ProductMod(x, y, m) \in Word
<1> DEFINE a == ((x * (y \div Base)) % m) * Base
           b == x * (y % Base)
<1>1. x \in Nat /\ y \in Nat /\ Base \in Nat \ {0}
  BY ModulusFacts DEF Word
<1>2. y \div Base \in Nat /\ y % Base \in Nat
  BY <1>1
<1>3. a \in Int /\ b \in Int
  <2> DEFINE p == x * (y \div Base)
  <2>1. p \in Nat
    BY <1>1, <1>2, MulNat
  <2> HIDE DEF p
  <2>2. p % m \in Nat
    BY <2>1
  <2>3. QED
    BY <1>1, <1>2, <2>2 DEF p
<1> HIDE DEF a, b
<1>4. (a + b) % m \in Word
  BY <1>3, Reduced
<1>5. QED
  BY <1>4 DEF ProductMod, a, b

\* MUL stays in the words.
LEMMA MulWord == ASSUME NEW x \in Word, NEW y \in Word PROVE Mul(x, y) \in Word
BY ProductModWord, ModulusFacts DEF Mul

\* DIV and MOD stay in the words.
LEMMA DivWord ==
    ASSUME NEW x \in Word, NEW y \in Word
    PROVE  Div(x, y) \in Word /\ Mod(x, y) \in Word
<1>1. x \in Nat /\ y \in Nat /\ x < Modulus /\ y < Modulus /\ Modulus \in Nat
  BY ModulusFacts DEF Word
<1>2. CASE y = 0
  BY <1>2, ModulusFacts DEF Div, Mod
<1>3. CASE y # 0
  <2>1. x \div y \in Nat /\ x \div y <= x
    BY <1>1, <1>3, DivNat
  <2>2. x % y \in Word
    BY <1>1, <1>3, Reduced
  <2>3. QED
    BY <1>1, <1>3, <2>1, <2>2 DEF Div, Mod, Word
<1>4. QED
  BY <1>2, <1>3

\* SDIV and SMOD stay in the words.
LEMMA SdivWord ==
    ASSUME NEW x \in Word, NEW y \in Word
    PROVE  Sdiv(x, y) \in Word /\ Smod(x, y) \in Word
<1>1. CASE y = 0
  BY <1>1, ModulusFacts DEF Sdiv, Smod
<1>2. CASE y # 0
  <2> DEFINE m == Magnitude(x)
             n == Magnitude(y)
             q == m \div n
             r == m % n
  <2>1. m \in Nat /\ n \in Nat /\ n > 0
    BY <1>2, SignedInt
  <2> HIDE DEF m, n
  <2>2. q \in Int /\ r \in Int
    BY <2>1
  <2> HIDE DEF q, r
  <2>3. Unsigned(q) \in Word /\ Unsigned(-q) \in Word /\ Unsigned(r) \in Word /\ Unsigned(-r) \in Word
    BY <2>2, UnsignedWord
  <2>4. Sdiv(x, y) = Unsigned(IF (Signed(x) < 0) = (Signed(y) < 0) THEN q ELSE -q)
    BY <1>2 DEF Sdiv, q, m, n
  <2>5. Smod(x, y) = Unsigned(IF Signed(x) < 0 THEN -r ELSE r)
    BY <1>2 DEF Smod, r, m, n
  <2>6. QED
    BY <2>3, <2>4, <2>5
<1>3. QED
  BY <1>1, <1>2

\* ADD, SUB, ADDMOD and MULMOD stay in the words.
LEMMA AddmodWord ==
    ASSUME NEW x \in Word, NEW y \in Word, NEW m \in Word
    PROVE  Addmod(x, y, m) \in Word /\ Mulmod(x, y, m) \in Word
<1>1. x \in Nat /\ y \in Nat /\ m \in Nat /\ m <= Modulus /\ x + y \in Int
  BY ModulusFacts DEF Word
<1>2. CASE m = 0
  BY <1>2, ModulusFacts DEF Addmod, Mulmod
<1>3. CASE m # 0
  <2>1. (x + y) % m \in Word
    BY <1>1, <1>3, Reduced
  <2>2. ProductMod(x, y, m) \in Word
    BY <1>1, <1>3, ProductModWord
  <2>3. QED
    BY <1>3, <2>1, <2>2 DEF Addmod, Mulmod
<1>4. QED
  BY <1>2, <1>3

\* Square and multiply is well founded and stays within the words.
LEMMA ExpWord ==
    ASSUME NEW x \in Word, NEW y \in Word
    PROVE  Exp(x, y) \in Word
<1> DEFINE times  == [u \in Word |-> Mul(u, x)]
           square == [u \in Word |-> Mul(u, u)]
           one == 1 % Modulus
           St(n, d) == IF n % 2 = 0 THEN square[d] ELSE times[square[d]]
           F(f) == [n \in Word |-> IF n = 0 THEN one
                                   ELSE IF n % 2 = 0 THEN square[f[n \div 2]]
                                   ELSE times[square[f[n \div 2]]]]
           power == CHOOSE f : f = F(f)
           N == Modulus - 1
<1>1. Exp(x, y) = power[y]
  BY DEF Exp
<1>2. N \in Nat /\ Word = 0 .. N
  BY ModulusFacts DEF Word
<1>3. one \in Word
  BY ModulusFacts, Reduced
<1>4. ASSUME NEW d \in Word, NEW n PROVE St(n, d) \in Word
  <2>1. square[d] \in Word
    BY MulWord
  <2>2. times[square[d]] \in Word
    <3> DEFINE e == square[d]
    <3> HIDE DEF e, square
    <3>1. e \in Word
      BY <2>1 DEF e
    <3>2. times[e] = Mul(e, x)
      BY <3>1
    <3>3. QED
      BY <3>1, <3>2, MulWord DEF e
  <2> HIDE DEF times, square
  <2>3. QED
    BY <2>1, <2>2
<1> HIDE DEF times, square, one
<1>5. \E f : f = F(f)
  <2> DEFINE p == [i \in 1 .. N |-> i \div 2]
             g == [z \in (1 .. N) \X Word |-> St(z[1], z[2])]
  <2>1. \A i \in 1 .. N : p[i] \in 0 .. i - 1
    BY <1>2
  <2>2. \A i \in 1 .. N : \A d \in Word : g[<<i, d>>] = St(i, d)
    OBVIOUS
  <2>3. \A i \in 1 .. N : \A d \in Word : g[<<i, d>>] \in Word
    <3> HIDE DEF g, St, N
    <3> QED
      BY <2>2, <1>4
  <2>4. \A i \in 1 .. N : p[i] = i \div 2
    OBVIOUS
  <2> HIDE DEF p, g
  <2>5. PICK f \in [0 .. N -> Word] : f[0] = one /\ \A i \in 1 .. N : f[i] = g[<<i, f[p[i]]>>]
    <3> HIDE DEF N
    <3>1. Recursion(N, Word, one, p, g)
      BY <1>2, <1>3, <2>1, <2>3 DEF Recursion
    <3>2. QED
      BY ONLY <3>1, RecursionExists
  <2>6. ASSUME NEW i \in Word PROVE f[i] = F(f)[i]
    <3>1. CASE i = 0
      BY <2>5, <3>1
    <3>2. CASE i # 0
      <4>1. i \in 1 .. N /\ i \div 2 \in 0 .. N
        BY <1>2, <3>2
      <4> HIDE DEF N
      <4>2. f[i \div 2] \in Word
        BY <2>5, <4>1
      <4>3. f[i] = St(i, f[i \div 2])
        <5> HIDE DEF St
        <5> QED
          BY <2>2, <2>4, <2>5, <4>1, <4>2
      <4>4. QED
        BY <3>2, <4>3
    <3>3. QED
      BY <3>1, <3>2
  <2>7. f = F(f)
    <3>1. f \in [Word -> Word]
      BY <1>2, <2>5
    <3>2. QED
      BY <2>6, <3>1
  <2>8. QED
    BY <2>7
<1>6. power = F(power)
  <2> HIDE DEF F
  <2> QED
    BY <1>5
<1> HIDE DEF power
<1>7. power[0] = one /\ \A n \in Word : n # 0 => power[n] = St(n, power[n \div 2])
  <2>1. \A n \in Word : power[n] = F(power)[n]
    BY <1>6
  <2>2. QED
    BY <2>1, ModulusFacts
<1> HIDE DEF St
<1> DEFINE S == {k \in Nat : \A n \in 0 .. k : n \in Word => power[n] \in Word}
<1>8. 0 \in S
  BY <1>3, <1>7
<1>9. ASSUME NEW k \in Nat, k \in S PROVE k + 1 \in S
  <2>1. SUFFICES ASSUME NEW n \in 0 .. k + 1, n \in Word PROVE power[n] \in Word
    OBVIOUS
  <2>2. CASE n = 0
    BY <1>3, <1>7, <2>2
  <2>3. CASE n # 0
    <3>1. n \div 2 \in 0 .. k /\ n \div 2 \in Word
      BY <1>2, <2>1, <2>3
    <3>2. power[n \div 2] \in Word
      BY <1>9, <3>1
    <3>3. QED
      BY <1>4, <1>7, <2>1, <2>3, <3>2
  <2>4. QED
    BY <2>2, <2>3
<1> HIDE DEF S
<1>10. Nat \subseteq S
  BY <1>8, <1>9, NatSetInduction
<1>11. y \in Nat /\ y \in 0 .. y
  BY <1>2
<1>12. QED
  BY <1>1, <1>10, <1>11 DEF S

\* SIGNEXTEND stays in the words.
LEMMA SignextendWord ==
    ASSUME NEW x \in Word, NEW y \in Word
    PROVE  Signextend(x, y) \in Word
<1>1. CASE x >= WordBytes - 1
  BY <1>1 DEF Signextend
<1>2. CASE ~(x >= WordBytes - 1)
  <2> DEFINE c == Capacity(x + 1)
             low == y % c
  <2>1. x \in Nat /\ y \in Nat /\ x + 1 \in Nat /\ x + 1 <= WordBytes /\ WordBytes \in Nat
    BY <1>2, WordsAssumption, ModulusFacts DEF Word
  <2>2. c \in Nat /\ c > 0 /\ c <= Modulus
    BY <2>1, CapacityNat, CapacityMono DEF Modulus
  <2> HIDE DEF c
  <2>3. low \in Word /\ low \in Int
    BY <2>1, <2>2, Reduced DEF Word
  <2> HIDE DEF low
  <2>4. Unsigned(low - c) \in Word
    BY <2>2, <2>3, UnsignedWord
  <2>5. Signextend(x, y) = (IF low >= c \div 2 THEN Unsigned(low - c) ELSE low)
    BY <1>2 DEF Signextend, low, c
  <2>6. QED
    BY <2>3, <2>4, <2>5
<1>3. QED
  BY <1>1, <1>2

\* A set of bits is a word: the bits below n make a number below 2^n.
LEMMA OfBitsWord == ASSUME NEW B PROVE OfBits(B) \in Word
<1> DEFINE f == [i \in 0 .. WordBits - 1 |-> IF i \in B THEN 2 ^ i ELSE 0]
<1>1. WordBits \in Nat /\ Modulus = 2 ^ WordBits
  BY WordsAssumption, MulNat DEF WordBits, Modulus, Capacity
<1>2. \A i \in 0 .. WordBits - 1 : f[i] \in Nat /\ f[i] <= 2 ^ i
  <2>1. \A i \in 0 .. WordBits - 1 : 2 ^ i \in Nat
    BY <1>1, PowNat
  <2>2. QED
    BY <2>1
<1> DEFINE S == {k \in Nat : k <= WordBits => Row(f, 0, k) \in 0 .. 2 ^ k - 1}
<1>3. DOMAIN f = 0 .. WordBits - 1 /\ OfBits(B) = SumFunction(f)
  BY DEF OfBits
<1> HIDE DEF f
<1>4. 0 \in S
  BY RowEmpty, PowZero
<1>5. ASSUME NEW k \in Nat, k \in S PROVE k + 1 \in S
  <2>1. SUFFICES ASSUME k + 1 <= WordBits PROVE Row(f, 0, k + 1) \in 0 .. 2 ^ (k + 1) - 1
    OBVIOUS
  <2> DEFINE r == Row(f, 0, k)
             s == Row(f, 0, k + 1)
             p == 2 ^ k
             q == 2 ^ (k + 1)
             t == f[k]
  <2>2. r \in 0 .. p - 1 /\ k \in 0 .. WordBits - 1
    BY <1>1, <1>5, <2>1
  <2>3. t \in Nat /\ t <= p /\ p \in Nat /\ q = 2 * p
    BY <1>2, <2>2, PowNat, PowNext
  <2>4. s = r + t
    <3>1. IntRow(f, 0, k + 1)
      BY <1>1, <1>2, <2>1 DEF IntRow
    <3>2. QED
      BY <3>1, RowStep
  <2> HIDE DEF r, s, p, q, t
  <2>5. s \in 0 .. q - 1
    BY <2>2, <2>3, <2>4
  <2>6. QED
    BY <2>5 DEF s, q
<1> HIDE DEF S
<1>6. WordBits \in S
  BY <1>1, <1>4, <1>5, NatSetInduction
<1>7. Row(f, 0, WordBits) \in Word
  BY <1>1, <1>6 DEF S, Word
<1>8. [c \in 0 .. WordBits - 1 |-> f[c]] = f
  BY <1>3 DEF f
<1>9. QED
  BY <1>3, <1>7, <1>8 DEF Row

\* AND, OR and XOR stay in the words.
LEMMA BitsWord ==
    ASSUME NEW x, NEW y
    PROVE  OpAnd(x, y) \in Word /\ OpOr(x, y) \in Word /\ OpXor(x, y) \in Word
BY OfBitsWord DEF OpAnd, OpOr, OpXor

\* NOT stays in the words.
LEMMA ComplementWord == ASSUME NEW x \in Word PROVE Complement(x) \in Word
BY ModulusFacts DEF Complement, Word

\* Bytes32 gives a word of bytes.
LEMMA ToBytesData ==
    ASSUME NEW x \in Word
    PROVE  ToBytes(x) \in Seq(Byte) /\ Len(ToBytes(x)) = WordBytes
           /\ \A i \in 1 .. WordBytes : ToBytes(x)[i] \in Byte
<1>1. WordBytes \in Nat /\ x \in Nat /\ Base \in Nat \ {0}
  BY WordsAssumption, ModulusFacts DEF Word
<1>2. ASSUME NEW i \in 1 .. WordBytes PROVE (x \div Capacity(WordBytes - i)) % Base \in Byte
  <2> DEFINE c == Capacity(WordBytes - i)
             d == x \div c
  <2>1. WordBytes - i \in Nat
    BY <1>1
  <2>2. c \in Nat \ {0}
    BY <2>1, CapacityNat
  <2> HIDE DEF c
  <2>3. d \in Nat
    BY <1>1, <2>2
  <2> HIDE DEF d
  <2>4. d % Base \in 0 .. Base - 1
    BY <1>1, <2>3, ModRange
  <2>5. QED
    BY <2>4 DEF Byte, d, c
<1> DEFINE b == [i \in 1 .. WordBytes |-> (x \div Capacity(WordBytes - i)) % Base]
<1>3. b \in [1 .. WordBytes -> Byte] /\ \A i \in 1 .. WordBytes : b[i] \in Byte
  BY <1>2
<1>4. ToBytes(x) = b
  BY DEF ToBytes
<1> HIDE DEF b
<1>5. b \in Seq(Byte) /\ Len(b) = WordBytes
  BY <1>1, <1>3
<1>6. QED
  BY <1>3, <1>4, <1>5

\* BYTE stays in the words.
LEMMA ByteAtWord == ASSUME NEW x \in Word, NEW y \in Word PROVE ByteAt(x, y) \in Word
<1>1. CASE x >= WordBytes
  BY <1>1, ModulusFacts DEF ByteAt
<1>2. CASE ~(x >= WordBytes)
  <2>1. x + 1 \in 1 .. WordBytes
    BY <1>2, WordsAssumption, ModulusFacts DEF Word
  <2>2. QED
    BY <1>2, <2>1, ToBytesData, ModulusFacts DEF ByteAt
<1>3. QED
  BY <1>1, <1>2

\* SHL, SHR and SAR stay in the words.
LEMMA ShiftWord ==
    ASSUME NEW x \in Word, NEW y \in Word
    PROVE  Shl(x, y) \in Word /\ Shr(x, y) \in Word /\ Sar(x, y) \in Word
<1>1. WordBits \in Nat /\ Modulus = 2 ^ WordBits
  BY WordsAssumption, MulNat DEF WordBits, Modulus, Capacity
<1>2. x \in Nat /\ ShiftAmount(x) \in 0 .. WordBits
  BY <1>1 DEF Word, ShiftAmount
<1>3. ASSUME NEW z \in Word PROVE Shr(x, z) \in Word
  <2>1. CASE ShiftAmount(x) = WordBits
    BY <2>1, ModulusFacts DEF Shr
  <2>2. CASE ShiftAmount(x) # WordBits
    <3> DEFINE p == 2 ^ ShiftAmount(x)
    <3>1. p \in Nat \ {0} /\ z \in Nat
      BY <1>2, PowPositive DEF Word
    <3> HIDE DEF p
    <3>2. z \div p \in Nat /\ z \div p <= z
      BY <3>1, DivNat
    <3>3. z \div p \in Word
      BY <3>2, ModulusFacts DEF Word
    <3>4. QED
      BY <2>2, <3>3 DEF Shr, p
  <2>3. QED
    BY <2>1, <2>2
<1>4. Shl(x, y) \in Word
  <2>1. CASE ShiftAmount(x) = WordBits
    BY <2>1, ModulusFacts DEF Shl
  <2>2. CASE ShiftAmount(x) # WordBits
    <3> DEFINE s == ShiftAmount(x)
               p == 2 ^ s
               q == 2 ^ (WordBits - s)
               r == y % q
    <3>1. s \in Nat /\ WordBits - s \in Nat /\ (WordBits - s) + s = WordBits /\ y \in Nat
      BY <1>1, <1>2 DEF Word
    <3>2. p \in Nat \ {0} /\ q \in Nat \ {0} /\ Modulus = q * p
      <4> HIDE DEF s
      <4> DEFINE t == WordBits - s
      <4>1. t \in Nat /\ t + s = WordBits
        BY <3>1
      <4> HIDE DEF t
      <4>2. 2 ^ (t + s) = 2 ^ t * 2 ^ s /\ 2 ^ t \in Nat \ {0} /\ 2 ^ s \in Nat \ {0}
        BY <3>1, <4>1, PowSum, PowPositive
      <4>3. QED
        BY <1>1, <4>1, <4>2 DEF t
    <3> HIDE DEF p, q
    <3>3. r \in 0 .. q - 1
      BY <3>1, <3>2, ModRange
    <3> HIDE DEF r
    <3>4. r \in Nat /\ (r + 1) * p <= q * p /\ (r + 1) * p = r * p + p /\ r * p \in Nat
      BY <3>2, <3>3, MulMono, MulNat
    <3>5. r * p \in Word
      <4> DEFINE a == r * p
      <4>1. a \in Nat /\ a + p <= Modulus
        BY <3>2, <3>4
      <4> HIDE DEF a
      <4>2. a \in Word
        BY <3>2, <4>1, ModulusFacts DEF Word
      <4>3. QED
        BY <4>2 DEF a
    <3>6. Shl(x, y) = r * p
      BY <2>2 DEF Shl, r, p, q
    <3>7. QED
      BY <3>5, <3>6
  <2>3. QED
    BY <2>1, <2>2
<1>5. Sar(x, y) \in Word
  BY <1>3, ComplementWord DEF Sar
<1>6. QED
  BY <1>3, <1>4, <1>5

\* ByteLen counts up to a word of bytes.
LEMMA ByteLenNat == ASSUME NEW x \in Word PROVE ByteLen(x) \in 0 .. WordBytes
<1> DEFINE T == {n \in Nat : Capacity(n) > x}
<1>1. WordBytes \in T
  BY WordsAssumption, ModulusFacts DEF Modulus, Word
<1>2. T \subseteq Nat /\ T # {}
  BY <1>1
<1> HIDE DEF T
<1>3. PICK n \in T : \A m \in T : n <= m
  BY <1>2, LeastNat
<1>4. n \in Nat /\ Capacity(n) > x /\ n <= WordBytes /\ WordBytes \in Nat
  BY <1>1, <1>3, WordsAssumption DEF T
<1>5. ASSUME n > 0 PROVE Capacity(n - 1) <= x
  <2>1. n - 1 \in Nat /\ ~(n <= n - 1)
    BY <1>4, <1>5
  <2>2. n - 1 \notin T
    BY <1>3, <2>1
  <2>3. ~(Capacity(n - 1) > x) /\ Capacity(n - 1) \in Int /\ x \in Int
    BY <2>1, <2>2, CapacityNat, ModulusFacts DEF T, Word
  <2>4. QED
    BY <2>3
<1>6. \E k \in 0 .. WordBytes : Capacity(k) > x /\ (k > 0 => Capacity(k - 1) <= x)
  BY <1>4, <1>5
<1>7. QED
  BY <1>6 DEF ByteLen

-----------------------------------------------------------------------------
(* The interpreter.                                                        *)

\* The constants, one by one.
LEMMA Limits ==
    /\ MaxStack \in Nat \ {0} /\ MemLimit \in Nat \ {0} /\ U64 \in Nat \ {0}
    /\ QuadDivisor \in Nat \ {0} /\ AddrBytes \in Nat \ {0}
    /\ MemLimit % WordBytes = 0 /\ MemLimit < U64 /\ U64 <= Modulus /\ Base = 256
<1>1. {MaxStack, MemLimit, U64, QuadDivisor, AddrBytes} \subseteq Nat \ {0}
  BY InterpreterAssumption
<1>2. MemLimit % WordBytes = 0 /\ MemLimit < U64 /\ U64 <= Modulus /\ Base = 256
  BY InterpreterAssumption
<1>3. QED
  BY <1>1, <1>2

-----------------------------------------------------------------------------
(* The jump table.                                                         *)

Names == DOMAIN OpCode
CopyOps == {"CALLDATACOPY", "CODECOPY", "RETURNDATACOPY", "EXTCODECOPY"}
Others == {"STOP", "ADDMOD", "MULMOD", "KECCAK256", "POP", "MLOAD", "MSTORE", "MSTORE8", "SSTORE",
           "JUMP", "JUMPI", "JUMPDEST", "RETURN", "REVERT", "INVALID"}

\* Every opcode of the table has a place among the executors.
LEMMA NamesSplit ==
    ASSUME NEW o \in Names
    PROVE  o \in Pushes \cup Unary \cup Binary \cup CopyOps \cup Others \cup Staking \cup Calls \cup Creates
<1> DEFINE X == Staking
<1>1. {"FREEZE", "UNFREEZE", "FREEZEEXPIRETIME", "VOTEWITNESS", "WITHDRAWREWARD",
       "FREEZEBALANCEV2", "UNFREEZEBALANCEV2", "CANCELALLUNFREEZEV2",
       "WITHDRAWEXPIREUNFREEZE", "DELEGATERESOURCE", "UNDELEGATERESOURCE"} = Staking
  BY DEF Staking, Gates
<1>2. QED
  BY <1>1, SMTT(60) DEF Names, OpCode, Pushes, Unary, Binary, CopyOps, Others, Calls, Creates

\* No opcode is called like a family.
LEMMA NoFamily == ASSUME NEW o \in Names PROVE o \notin {"PUSH", "DUP", "SWAP", "LOG", "none"} /\ o \in DOMAIN Table
BY SMTT(60) DEF Names, OpCode, Table

\* A byte is decoded to an opcode, to a member of a family, or to nothing.
LEMMA DecodedCases ==
    ASSUME NEW b \in 0 .. 255
    PROVE  \/ Decoded[b][1] \in Names /\ Decoded[b][2] = 0
           \/ Decoded[b][1] = "PUSH" /\ Decoded[b][2] \in 1 .. WordBytes
           \/ Decoded[b][1] \in {"DUP", "SWAP"} /\ Decoded[b][2] \in 1 .. 16
           \/ Decoded[b][1] = "LOG" /\ Decoded[b][2] \in 0 .. 4
           \/ Decoded[b][1] = "none" /\ Decoded[b][2] = 0
<1> DEFINE d == Decoded[b]
<1>1. CASE \E o \in DOMAIN OpCode : OpCode[o] = b
  <2> DEFINE o == CHOOSE o \in DOMAIN OpCode : OpCode[o] = b
  <2>1. d = <<o, 0>>
    BY <1>1 DEF Decoded
  <2>2. o \in Names
    BY <1>1 DEF Names
  <2> HIDE DEF o, d
  <2>3. QED
    BY <2>1, <2>2 DEF d
<1>2. CASE /\ ~(\E o \in DOMAIN OpCode : OpCode[o] = b)
           /\ \E f \in DOMAIN Families : InFamily(b, f)
  <2> DEFINE f == CHOOSE f \in DOMAIN Families : InFamily(b, f)
  <2>1. d = <<f, b - Families[f][1] + Families[f][2]>>
    BY <1>2 DEF Decoded
  <2>2. f \in DOMAIN Families /\ InFamily(b, f)
    BY <1>2
  <2> HIDE DEF f, d
  <2>3. f \in {"PUSH", "DUP", "SWAP", "LOG"}
    BY <2>2 DEF Families
  <2>4. WordBytes \in Nat
    BY WordsAssumption
  <2>5. /\ f = "PUSH" => b - Families[f][1] + Families[f][2] \in 1 .. WordBytes
        /\ f \in {"DUP", "SWAP"} => b - Families[f][1] + Families[f][2] \in 1 .. 16
        /\ f = "LOG" => b - Families[f][1] + Families[f][2] \in 0 .. 4
    BY <2>2, <2>3, <2>4 DEF Families, InFamily
  <2>6. QED
    BY <2>1, <2>3, <2>5 DEF d
<1>3. CASE /\ ~(\E o \in DOMAIN OpCode : OpCode[o] = b)
           /\ ~(\E f \in DOMAIN Families : InFamily(b, f))
  <2>1. d = <<"none", 0>>
    BY <1>3 DEF Decoded
  <2>2. QED
    BY <2>1
<1>4. QED
  BY <1>1, <1>2, <1>3

\* The rows of the table.
LEMMA TableRows ==
    /\ \A o \in Pushes : Table[o][2] = 0 /\ Table[o][3] = 1
    /\ \A o \in Unary : Table[o][2] = 1 /\ Table[o][3] = 1
    /\ \A o \in Binary : Table[o][2] = 2 /\ Table[o][3] = 1
<1>1. \A o \in Pushes : Table[o][2] = 0 /\ Table[o][3] = 1
  BY SMTT(60) DEF Table, Pushes
<1>2. \A o \in Unary : Table[o][2] = 1 /\ Table[o][3] = 1
  BY SMTT(60) DEF Table, Unary
<1>3. \A o \in Binary : Table[o][2] = 2 /\ Table[o][3] = 1
  BY SMTT(60) DEF Table, Binary
<1>4. QED
  BY <1>1, <1>2, <1>3

\* The rows of the opcodes that are not in a group.
LEMMA TableOthers ==
    /\ \A o \in {"CALLDATACOPY", "CODECOPY", "RETURNDATACOPY"} : Table[o] = <<Dynamic, 3, 0>>
    /\ Table["EXTCODECOPY"] = <<Dynamic, 4, 0>>
    /\ \A o \in {"STOP", "INVALID"} : Table[o] = <<0, 0, 0>>
    /\ \A o \in {"ADDMOD", "MULMOD"} : Table[o] = <<8, 3, 1>>
    /\ Table["KECCAK256"] = <<Dynamic, 2, 1>>
    /\ Table["POP"] = <<2, 1, 0>>
    /\ Table["MLOAD"] = <<Dynamic, 1, 1>>
    /\ \A o \in {"MSTORE", "MSTORE8", "SSTORE", "RETURN", "REVERT"} : Table[o] = <<Dynamic, 2, 0>>
    /\ Table["JUMP"] = <<8, 1, 0>>
    /\ Table["JUMPI"] = <<10, 2, 0>>
    /\ Table["JUMPDEST"] = <<1, 0, 0>>
    /\ Table["CREATE"] = <<Dynamic, 3, 1>>
    /\ Table["CREATE2"] = <<Dynamic, 4, 1>>
    /\ \A o \in {"CALL", "CALLCODE"} : Table[o] = <<Dynamic, 7, 1>>
    /\ \A o \in {"DELEGATECALL", "STATICCALL"} : Table[o] = <<Dynamic, 6, 1>>
BY SMTT(60) DEF Table

\* What every row of the table holds.
LEMMA TableTypes ==
    \A o \in DOMAIN Table : /\ Table[o][1] \in Nat \/ Table[o][1] = Dynamic
                            /\ Table[o][2] \in 0 .. 7 /\ Table[o][3] \in 0 .. 1
BY SMTT(60) DEF Table, Dynamic

-----------------------------------------------------------------------------
(* Memory.                                                                 *)

Whole(m) == m \in Seq(Byte) /\ Len(m) % WordBytes = 0
MemWords(m) == Len(m) \div WordBytes

(* The memory is m instead of mem, and no greater than an access that ends *)
(* at e makes it.                                                          *)
Covered(mem, m, e) ==
    Whole(m) /\ (MemWords(m) <= MemWords(mem) \/ MemWords(m) <= WordsForBytes(e))

\* Multiples of the word.
LEMMA WholeWords ==
    ASSUME NEW k \in Nat
    PROVE  k * WordBytes \in Nat /\ (k * WordBytes) % WordBytes = 0 /\ (k * WordBytes) \div WordBytes = k
<1>1. WordBytes \in Nat \ {0}
  BY WordsAssumption
<1> DEFINE p == k * WordBytes
           q == p \div WordBytes
           r == p % WordBytes
<1>2. p \in Nat
  BY <1>1, MulNat
<1>3. p = q * WordBytes + r /\ r \in 0 .. WordBytes - 1 /\ q \in Int
  <2> HIDE DEF p
  <2> QED
    BY <1>1, <1>2, DivMod, DivBounds
<1>4. k <= q
  <2>1. k * WordBytes <= p
    BY <1>2
  <2> HIDE DEF p
  <2>2. QED
    BY <1>1, <1>2, <2>1, DivGreatest
<1>5. q * WordBytes <= k * WordBytes
  <2> HIDE DEF q, r
  <2>1. q * WordBytes \in Int
    BY <1>1, <1>3
  <2> DEFINE z == q * WordBytes
  <2> HIDE DEF z
  <2>2. p \in Int /\ z \in Int /\ p = z + r /\ r >= 0
    BY <1>1, <1>2, <1>3, <2>1 DEF z
  <2>3. z <= p
    <3> HIDE DEF p
    <3> QED
      BY <1>3, <2>2
  <2>4. QED
    BY <2>3 DEF z
<1>6. q <= k
  <2> HIDE DEF q
  <2>1. WordBytes * q <= WordBytes * k
    BY <1>1, <1>3, <1>5
  <2>2. QED
    BY <1>1, <1>3, <2>1, CancelLeq
<1>7. q = k
  <2> HIDE DEF q
  <2> QED
    BY <1>3, <1>4, <1>6
<1>8. r = 0
  <2> HIDE DEF r, q
  <2>1. p = q * WordBytes
    BY <1>7
  <2> HIDE DEF p
  <2> DEFINE z == q * WordBytes
  <2> HIDE DEF z
  <2>2. p = z + r /\ p = z /\ p \in Int /\ r \in Int
    BY <1>1, <1>2, <1>3, <2>1 DEF z
  <2>3. QED
    BY <2>2
<1>9. QED
  BY <1>2, <1>7, <1>8

\* The bytes of a memory in whole words.
LEMMA WholeLen ==
    ASSUME NEW m, Whole(m)
    PROVE  Len(m) \in Nat /\ MemWords(m) \in Nat /\ Len(m) = MemWords(m) * WordBytes
<1> DEFINE n == Len(m)
<1>1. n \in Nat /\ n % WordBytes = 0 /\ WordBytes \in Nat \ {0}
  BY LenProperties, WordsAssumption DEF Whole
<1> HIDE DEF n
<1>2. n \div WordBytes \in Nat /\ n = (n \div WordBytes) * WordBytes + (n % WordBytes)
  BY <1>1, DivMod, DivNat
<1> DEFINE z == (n \div WordBytes) * WordBytes
<1>3. z \in Int
  BY <1>1, <1>2
<1> HIDE DEF z
<1>4. n = z
  BY <1>1, <1>2, <1>3 DEF z
<1>5. QED
  BY <1>1, <1>2, <1>4 DEF MemWords, n, z

\* wordsForBytes rounds up, and a size in whole words is not rounded.
LEMMA WordsCover ==
    ASSUME NEW n \in Nat
    PROVE  WordsForBytes(n) \in Nat /\ n <= WordsForBytes(n) * WordBytes
<1> DEFINE a == n + WordBytes - 1
           q == a \div WordBytes
<1>1. WordBytes \in Nat \ {0} /\ a \in Nat
  BY WordsAssumption
<1>2. q \in Nat /\ a < q * WordBytes + WordBytes
  <2> HIDE DEF a
  <2> QED
    BY <1>1, DivBounds, DivNat
<1> HIDE DEF q
<1>3. q * WordBytes \in Nat
  BY <1>1, <1>2, MulNat
<1>4. n <= q * WordBytes
  <2> DEFINE z == q * WordBytes
  <2>1. z \in Nat /\ a < z + WordBytes
    BY <1>2, <1>3
  <2> HIDE DEF z
  <2>2. n <= z
    BY <1>1, <2>1
  <2>3. QED
    BY <2>2 DEF z
<1>5. QED
  BY <1>2, <1>4 DEF WordsForBytes, q

\* ... and is monotonic.
LEMMA WordsMono ==
    ASSUME NEW m \in Nat, NEW n \in Nat, m <= n
    PROVE  WordsForBytes(m) <= WordsForBytes(n)
<1> DEFINE a == m + WordBytes - 1
           b == n + WordBytes - 1
           q == a \div WordBytes
<1>1. WordBytes \in Nat \ {0} /\ a \in Nat /\ b \in Nat /\ a <= b
  BY WordsAssumption
<1> HIDE DEF a, b
<1>2. q \in Nat /\ q * WordBytes <= a
  BY <1>1, DivBounds, DivNat
<1> HIDE DEF q
<1> DEFINE z == q * WordBytes
<1>3. z \in Int /\ z <= a
  BY <1>1, <1>2
<1> HIDE DEF z
<1>4. z <= b
  BY <1>1, <1>3
<1>5. q <= b \div WordBytes
  BY <1>1, <1>2, <1>4, DivGreatest DEF z
<1>6. QED
  BY <1>5 DEF WordsForBytes, q, a, b

\* Zeros are bytes.
LEMMA ZerosData == ASSUME NEW n \in Nat PROVE Zeros(n) \in Seq(Byte) /\ Len(Zeros(n)) = n
<1>1. 0 \in Byte
  BY ModulusFacts DEF Byte
<1>2. QED
  BY <1>1 DEF Zeros

\* resize leaves whole words, enough of them and no more.
LEMMA ResizeWhole ==
    ASSUME NEW mem, Whole(mem), NEW size \in Nat
    PROVE  /\ Whole(Resize(mem, size)) /\ size <= Len(Resize(mem, size))
           /\ MemWords(Resize(mem, size)) \in {MemWords(mem), WordsForBytes(size)}
<1> DEFINE k == WordsForBytes(size)
           need == k * WordBytes
           n == Len(mem)
<1>1. n \in Nat /\ mem \in Seq(Byte)
  BY WholeLen DEF Whole
<1>2. k \in Nat /\ size <= need
  BY WordsCover
<1> HIDE DEF k
<1>3. need \in Nat /\ need % WordBytes = 0 /\ need \div WordBytes = k
  BY <1>2, WholeWords
<1>4. Resize(mem, size) = IF n >= need THEN mem ELSE mem \o Zeros(need - n)
  BY DEF Resize, k
<1> HIDE DEF need
<1>5. CASE n >= need
  <2>1. size <= n
    BY <1>1, <1>2, <1>3, <1>5
  <2>2. QED
    BY <1>4, <1>5, <2>1
<1>6. CASE ~(n >= need)
  <2> DEFINE z == Zeros(need - n)
             t == mem \o z
  <2>1. need - n \in Nat
    BY <1>1, <1>3, <1>6
  <2>2. z \in Seq(Byte) /\ Len(z) = need - n
    BY <2>1, ZerosData
  <2> HIDE DEF z
  <2>3. t \in Seq(Byte) /\ Len(t) = n + (need - n)
    BY <1>1, <2>2, ConcatProperties
  <2> HIDE DEF t
  <2>4. Len(t) = need
    BY <1>1, <1>3, <2>3
  <2>5. Resize(mem, size) = t
    BY <1>4, <1>6 DEF t, z
  <2>6. QED
    BY <1>2, <1>3, <2>3, <2>4, <2>5 DEF Whole, MemWords, k
<1>7. QED
  BY <1>5, <1>6

\* An access grows the memory to its end, if it is of any size.
LEMMA ExpandCovered ==
    ASSUME NEW mem, Whole(mem), NEW off \in Nat, NEW size \in Nat
    PROVE  /\ Whole(Expand(mem, off, size))
           /\ size # 0 => off + size <= Len(Expand(mem, off, size))
           /\ \A e \in Nat : (size # 0 => off + size <= e) => Covered(mem, Expand(mem, off, size), e)
<1>1. CASE size = 0
  <2>1. Expand(mem, off, size) = mem /\ MemWords(mem) <= MemWords(mem)
    BY <1>1, WholeLen DEF Expand
  <2>2. QED
    BY <1>1, <2>1 DEF Covered
<1>2. CASE size # 0
  <2> DEFINE end == off + size
             m == Resize(mem, end)
  <2>1. Expand(mem, off, size) = m /\ end \in Nat
    BY <1>2 DEF Expand
  <2> HIDE DEF end
  <2>2. Whole(m) /\ end <= Len(m) /\ MemWords(m) \in {MemWords(mem), WordsForBytes(end)}
    BY <2>1, ResizeWhole
  <2> HIDE DEF m
  <2>3. ASSUME NEW e \in Nat, end <= e PROVE Covered(mem, m, e)
    <3>1. WordsForBytes(end) <= WordsForBytes(e)
      BY <2>1, <2>3, WordsMono
    <3>2. MemWords(mem) <= MemWords(mem)
      BY WholeLen
    <3>3. QED
      BY <2>2, <3>1, <3>2 DEF Covered
  <2>4. QED
    BY <1>2, <2>1, <2>2, <2>3 DEF end
<1>3. QED
  BY <1>1, <1>2

\* get returns as many bytes as asked for.
LEMMA MemGetData ==
    ASSUME NEW mem, Whole(mem), NEW off \in Nat, NEW size \in Nat
    PROVE  MemGet(mem, off, size) \in Seq(Byte) /\ Len(MemGet(mem, off, size)) = size
<1> DEFINE m == Expand(mem, off, size)
<1>1. m \in Seq(Byte) /\ (size # 0 => off + size <= Len(m))
  BY ExpandCovered DEF Whole
<1> HIDE DEF m
<1>2. \A i \in off + 1 .. off + size : m[i] \in Byte
  BY <1>1, ElementOfSeq, LenProperties
<1>3. MemGet(mem, off, size) = SubSeq(m, off + 1, off + size)
  BY DEF MemGet, m
<1> DEFINE a == off + 1
           b == off + size
<1>4. a \in Int /\ b \in Int /\ \A i \in a .. b : m[i] \in Byte
  BY <1>2
<1>5. (IF a <= b THEN b - a + 1 ELSE 0) = size
  OBVIOUS
<1> HIDE DEF a, b
<1>6. SubSeq(m, a, b) \in Seq(Byte) /\ Len(SubSeq(m, a, b)) = IF a <= b THEN b - a + 1 ELSE 0
  BY <1>4, SubSeqProperties
<1>7. QED
  BY <1>3, <1>5, <1>6 DEF a, b

\* set grows the memory no further than what it writes.
LEMMA MemSetCovered ==
    ASSUME NEW mem, Whole(mem), NEW off \in Nat, NEW bytes \in Seq(Byte),
           NEW e \in Nat, Len(bytes) # 0 => off + Len(bytes) <= e
    PROVE  Covered(mem, MemSet(mem, off, bytes), e)
<1> DEFINE n == Len(bytes)
           g == Expand(mem, off, n)
           m == MemSet(mem, off, bytes)
<1>1. n \in Nat /\ \A i \in 1 .. n : bytes[i] \in Byte
  BY LenProperties, ElementOfSeq
<1>2. Whole(g) /\ Covered(mem, g, e)
  <2> HIDE DEF n
  <2>1. n # 0 => off + n <= e
    BY DEF n
  <2>2. QED
    BY <1>1, <2>1, ExpandCovered
<1>3. m = [i \in DOMAIN g |-> IF i \in off + 1 .. off + n THEN bytes[i - off] ELSE g[i]]
  BY DEF MemSet
<1> HIDE DEF g, m
<1>4. g \in Seq(Byte) /\ Len(g) \in Nat /\ DOMAIN g = 1 .. Len(g) /\ \A i \in 1 .. Len(g) : g[i] \in Byte
  BY <1>2, LenProperties, ElementOfSeq DEF Whole
<1>5. ASSUME NEW i \in 1 .. Len(g), i \in off + 1 .. off + n PROVE i - off \in 1 .. n
  BY <1>1, <1>4, <1>5
<1>6. m \in [1 .. Len(g) -> Byte]
  <2> HIDE DEF n
  <2> QED
    BY <1>1, <1>3, <1>4, <1>5
<1>7. m \in Seq(Byte) /\ Len(m) = Len(g)
  BY <1>4, <1>6
<1>8. QED
  BY <1>2, <1>7 DEF Covered, Whole, MemWords, m

\* copyDataAt returns as many bytes as asked for.
LEMMA CopyDataAtData ==
    ASSUME NEW src \in Seq(Byte), NEW off \in Nat, NEW length \in Nat
    PROVE  CopyDataAt(src, off, length) \in Seq(Byte) /\ Len(CopyDataAt(src, off, length)) = length
<1> DEFINE c == CopyDataAt(src, off, length)
<1>1. 0 \in Byte /\ U64 \in Nat \ {0} /\ Len(src) \in Nat /\ \A i \in 1 .. Len(src) : src[i] \in Byte
  <2>1. 0 \in Byte /\ U64 \in Nat \ {0}
    BY ModulusFacts, Limits DEF Byte
  <2>2. QED
    BY <2>1, LenProperties, ElementOfSeq
<1>2. ASSUME NEW i \in 1 .. length PROVE c[i] \in Byte
  <2> DEFINE k == off + i - 1
             j == k % U64
  <2>1. k \in Nat
    OBVIOUS
  <2> HIDE DEF k
  <2>2. j \in Nat
    BY <1>1, <2>1
  <2> HIDE DEF j
  <2>3. c[i] = IF j >= off /\ j < Len(src) THEN src[j + 1] ELSE 0
    BY DEF CopyDataAt, j, k
  <2>4. j < Len(src) => j + 1 \in 1 .. Len(src)
    BY <1>1, <2>2
  <2>5. QED
    BY <1>1, <2>3, <2>4
<1>3. c = [i \in 1 .. length |-> c[i]]
  BY DEF CopyDataAt
<1> HIDE DEF c
<1>4. c \in [1 .. length -> Byte]
  BY <1>2, <1>3
<1>5. c \in Seq(Byte) /\ Len(c) = length
  BY <1>4
<1>6. QED
  BY <1>5 DEF c

\* Covering twice is covering.
LEMMA CoveredTrans ==
    ASSUME NEW a, NEW b, NEW c, NEW e \in Nat, Whole(a), Covered(a, b, e), Covered(b, c, e)
    PROVE  Covered(a, c, e)
<1>1. MemWords(a) \in Nat /\ MemWords(b) \in Nat /\ MemWords(c) \in Nat /\ WordsForBytes(e) \in Nat
  BY WholeLen, WordsCover DEF Covered
<1>2. QED
  BY <1>1 DEF Covered

-----------------------------------------------------------------------------
(* Energy.                                                                 *)

\* Memory costs more, the more words it has.
LEMMA MemCostMono ==
    ASSUME NEW v \in Nat, NEW w \in Nat, v <= w
    PROVE  MemCostWords(v) \in Nat /\ MemCostWords(v) <= MemCostWords(w)
<1> DEFINE a == v * v
           b == w * w
           q == a \div QuadDivisor
<1>1. QuadDivisor \in Nat \ {0}
  BY Limits
<1>2. a \in Nat /\ b \in Nat /\ a <= b
  <2>1. v * v <= w * v /\ v * w <= w * w /\ w * v = v * w
    BY MulMono
  <2>2. v * v \in Nat /\ w * w \in Nat /\ v * w \in Nat
    BY MulNat
  <2>3. QED
    BY <2>1, <2>2
<1> HIDE DEF a, b
<1>3. q \in Nat /\ q * QuadDivisor <= a
  BY <1>1, <1>2, DivBounds, DivNat
<1> HIDE DEF q
<1>4. q <= b \div QuadDivisor /\ b \div QuadDivisor \in Nat
  <2> DEFINE z == q * QuadDivisor
  <2>1. z \in Int /\ z <= a
    BY <1>1, <1>3
  <2> HIDE DEF z
  <2>2. z <= b
    BY <1>2, <2>1
  <2>3. QED
    BY <1>1, <1>2, <1>3, <2>2, DivGreatest, DivNat DEF z
<1>5. MemCostWords(v) = 3 * v + q /\ MemCostWords(w) = 3 * w + (b \div QuadDivisor)
  BY DEF MemCostWords, q, a, b
<1> DEFINE r == b \div QuadDivisor
<1> HIDE DEF r
<1>6. q \in Nat /\ r \in Nat /\ q <= r /\ MemCostWords(v) = 3 * v + q /\ MemCostWords(w) = 3 * w + r
  BY <1>3, <1>4, <1>5 DEF r
<1>7. QED
  BY <1>6

\* The limit is in whole words: what is rounded up below it stays below it.
LEMMA LimitWords ==
    ASSUME NEW e \in Nat, e <= MemLimit
    PROVE  WordsForBytes(e) * WordBytes <= MemLimit
<1> DEFINE k == MemLimit \div WordBytes
           a == e + WordBytes - 1
           q == a \div WordBytes
<1>1. WordBytes \in Nat \ {0} /\ MemLimit \in Nat /\ MemLimit % WordBytes = 0
  BY WordsAssumption, Limits
<1>2. k \in Nat /\ MemLimit = k * WordBytes
  <2>1. k \in Nat /\ MemLimit = k * WordBytes + (MemLimit % WordBytes)
    BY <1>1, DivMod, DivNat
  <2> HIDE DEF k
  <2> DEFINE z == k * WordBytes
  <2>2. z \in Nat
    BY <1>1, <2>1, MulNat
  <2> HIDE DEF z
  <2>3. MemLimit = z
    BY <1>1, <2>1, <2>2 DEF z
  <2>4. QED
    BY <2>1, <2>3 DEF z
<1> HIDE DEF k
<1>3. a \in Nat /\ a < MemLimit + WordBytes
  BY <1>1
<1> HIDE DEF a
<1>4. q \in Nat /\ q * WordBytes <= a
  BY <1>1, <1>3, DivBounds, DivNat
<1> HIDE DEF q
<1>5. q * WordBytes < (k + 1) * WordBytes
  <2> DEFINE x == q * WordBytes
             y == (k + 1) * WordBytes
             z == k * WordBytes
  <2>1. x \in Int /\ x <= a /\ z = MemLimit /\ y = z + WordBytes
    BY <1>1, <1>2, <1>4
  <2> HIDE DEF x, y, z
  <2>2. x < y
    BY <1>1, <1>3, <2>1
  <2>3. QED
    BY <2>2 DEF x, y
<1>6. q < k + 1
  <2> DEFINE l == k + 1
  <2>1. l \in Int /\ q * WordBytes < l * WordBytes
    BY <1>2, <1>5
  <2> HIDE DEF l
  <2>2. q < l
    BY <1>1, <1>4, <2>1, CancelLess
  <2>3. QED
    BY <2>2 DEF l
<1>7. q * WordBytes <= k * WordBytes
  BY <1>1, <1>2, <1>4, <1>6, MulMono
<1>8. QED
  BY <1>2, <1>7 DEF WordsForBytes, q, a

\* What a cost function charges pays for every memory it covers.
LEMMA ExpandPays ==
    ASSUME NEW mem, Whole(mem), Len(mem) <= MemLimit, NEW e \in Int, MemExpandCost(mem, e) >= 0
    PROVE  /\ e \in Nat /\ MemExpandCost(mem, e) \in Nat
           /\ \A m : Covered(mem, m, e) =>
                 /\ Len(m) <= MemLimit
                 /\ MemCostWords(MemWords(m)) <= MemCostWords(MemWords(mem)) + MemExpandCost(mem, e)
<1> DEFINE g == WordsForBytes(e)
           o == MemWords(mem)
           c == MemExpandCost(mem, e)
<1>1. e \in Nat /\ e <= MemLimit
  BY Limits DEF MemExpandCost, Overflow
<1>2. g \in Nat /\ o \in Nat /\ g * WordBytes <= MemLimit /\ Len(mem) = o * WordBytes
  BY <1>1, WordsCover, WholeLen, LimitWords
<1>3. c = IF g <= o THEN 0 ELSE MemCostWords(g) - MemCostWords(o)
  BY <1>1, Limits DEF MemExpandCost, MemWords
<1> HIDE DEF g, o, c
<1>4. MemCostWords(g) \in Nat /\ MemCostWords(o) \in Nat
  BY <1>2, MemCostMono
<1>5. c \in Nat /\ (o < g => MemCostWords(g) = MemCostWords(o) + c)
  <2>1. CASE g <= o
    BY <1>2, <1>3, <2>1
  <2>2. CASE ~(g <= o)
    <3>1. MemCostWords(o) <= MemCostWords(g)
      BY <1>2, <2>2, MemCostMono
    <3>2. QED
      BY <1>2, <1>3, <1>4, <2>2, <3>1
  <2>3. QED
    BY <2>1, <2>2
<1>6. ASSUME NEW m, Covered(mem, m, e)
      PROVE  Len(m) <= MemLimit /\ MemCostWords(MemWords(m)) <= MemCostWords(o) + c
  <2> DEFINE w == MemWords(m)
  <2>1. w \in Nat /\ Len(m) = w * WordBytes /\ (w <= o \/ w <= g)
    BY <1>6, WholeLen DEF Covered, o, g
  <2> HIDE DEF w
  <2>2. CASE w <= o
    <3>1. w * WordBytes <= o * WordBytes
      BY <1>2, <2>1, <2>2, WordsAssumption, MulMono
    <3>2. o * WordBytes <= MemLimit /\ w * WordBytes \in Int /\ o * WordBytes \in Int /\ MemLimit \in Int
      BY <1>2, <2>1, WordsAssumption, Limits
    <3>3. Len(m) <= MemLimit
      <4> DEFINE x == w * WordBytes
                 y == o * WordBytes
      <4> HIDE DEF x, y
      <4> QED
        BY <2>1, <3>1, <3>2 DEF x, y
    <3>4. MemCostWords(w) <= MemCostWords(o) /\ MemCostWords(w) \in Nat
      BY <1>2, <2>1, <2>2, MemCostMono
    <3>5. QED
      BY <1>4, <1>5, <3>3, <3>4 DEF w
  <2>3. CASE ~(w <= o)
    <3>1. w <= g /\ o < g
      BY <1>2, <2>1, <2>3
    <3>2. w * WordBytes <= g * WordBytes
      BY <1>2, <2>1, <3>1, WordsAssumption, MulMono
    <3>3. g * WordBytes <= MemLimit /\ w * WordBytes \in Int /\ g * WordBytes \in Int /\ MemLimit \in Int
      BY <1>2, <2>1, WordsAssumption, Limits
    <3>4. Len(m) <= MemLimit
      <4> DEFINE x == w * WordBytes
                 y == g * WordBytes
      <4> HIDE DEF x, y
      <4> QED
        BY <2>1, <3>2, <3>3 DEF x, y
    <3>5. MemCostWords(w) <= MemCostWords(g) /\ MemCostWords(w) \in Nat
      BY <1>2, <2>1, <3>1, MemCostMono
    <3>6. QED
      BY <1>4, <1>5, <3>1, <3>4, <3>5 DEF w
  <2>4. QED
    BY <2>2, <2>3
<1>7. QED
  BY <1>1, <1>5, <1>6 DEF c, o

\* The greatest of a finite set of numbers.
LEMMA MaxFinite ==
    ASSUME NEW S, IsFiniteSet(S), S # {}, S \subseteq Int
    PROVE  Max(S) \in S /\ \A x \in S : x <= Max(S)
<1> DEFINE f == [x \in S |-> x]
<1>1. \A x \in S : f[x] \in Int /\ f[x] = x
  OBVIOUS
<1> HIDE DEF f
<1>2. \E x \in S : \A y \in S : f[y] <= f[x]
  BY <1>1, GreatestValue
<1>3. \E x \in S : \A y \in S : x >= y
  BY <1>1, <1>2
<1>4. QED
  BY <1>3 DEF Max

\* A word of the stack.
LEMMA PeekWord ==
    ASSUME NEW s \in Seq(Word), NEW i \in Nat, i < Len(s)
    PROVE  Peek(s, i) \in Word /\ Peek(s, i) \in Nat
<1>1. Len(s) - i \in 1 .. Len(s)
  BY LenProperties
<1>2. s[Len(s) - i] \in Word
  BY <1>1, ElementOfSeq
<1>3. QED
  BY <1>2, ModulusFacts DEF Peek, Word

(* As many operands as an opcode takes from the stack at the least.        *)
Taken(name) == IF name = "LOG" THEN 2 ELSE IF name \in Names THEN Table[name][2] ELSE 0

(* A finite set of regions, given by numbers.                              *)
Regions(R) == IsFiniteSet(R) /\ \A r \in R : r[1] \in Nat /\ r[2] \in Nat

\* No region, one and two are finite sets of regions.
LEMMA RegionPair ==
    ASSUME NEW a \in Nat, NEW b \in Nat, NEW c \in Nat, NEW d \in Nat
    PROVE  Regions({}) /\ Regions({<<a, b>>}) /\ Regions({<<a, b>>, <<c, d>>})
<1>1. IsFiniteSet({}) /\ IsFiniteSet({<<a, b>>}) /\ IsFiniteSet({<<a, b>>, <<c, d>>})
  <2>1. IsFiniteSet({}) /\ IsFiniteSet({<<a, b>>})
    BY FS_EmptySet, FS_Singleton
  <2>2. {<<a, b>>, <<c, d>>} = {<<a, b>>} \cup {<<c, d>>}
    OBVIOUS
  <2>3. QED
    BY <2>1, <2>2, FS_AddElement
<1>2. QED
  BY <1>1 DEF Regions

\* The operands of the opcodes that use memory.
LEMMA TakenOf ==
    /\ Taken("MLOAD") = 1 /\ Taken("MSTORE") = 2 /\ Taken("MSTORE8") = 2
    /\ Taken("KECCAK256") = 2 /\ Taken("RETURN") = 2 /\ Taken("REVERT") = 2 /\ Taken("LOG") = 2
    /\ Taken("CALLDATACOPY") = 3 /\ Taken("CODECOPY") = 3 /\ Taken("RETURNDATACOPY") = 3
    /\ Taken("EXTCODECOPY") = 4 /\ Taken("CREATE") = 3 /\ Taken("CREATE2") = 4
    /\ Taken("CALL") = 7 /\ Taken("CALLCODE") = 7
    /\ Taken("DELEGATECALL") = 6 /\ Taken("STATICCALL") = 6
<1>1. {"MLOAD", "MSTORE", "MSTORE8", "KECCAK256", "RETURN", "REVERT", "CALLDATACOPY", "CODECOPY",
       "RETURNDATACOPY", "EXTCODECOPY", "CREATE", "CREATE2", "CALL", "CALLCODE", "DELEGATECALL",
       "STATICCALL"} \subseteq Names
  BY SMTT(60) DEF Names, OpCode
<1>2. QED
  BY <1>1, TableOthers DEF Taken

\* The regions an opcode pays for are within its operands.
LEMMA RegionsNat ==
    ASSUME NEW name, NEW s \in Seq(Word), Len(s) >= Taken(name)
    PROVE  Regions(MemoryRegions(name, s))
<1>1. WordBytes \in Nat /\ 1 \in Nat /\ 0 \in Nat /\ Len(s) \in Nat
  BY WordsAssumption, LenProperties
<1>2. CASE name \in {"MLOAD", "MSTORE"}
  <2>1. Peek(s, 0) \in Nat
    BY <1>1, <1>2, TakenOf, PeekWord
  <2>2. MemoryRegions(name, s) = {<<Peek(s, 0), WordBytes>>}
    BY <1>2 DEF MemoryRegions
  <2>3. QED
    BY <1>1, <2>1, <2>2, RegionPair
<1>3. CASE name = "MSTORE8"
  <2>1. Peek(s, 0) \in Nat
    BY <1>1, <1>3, TakenOf, PeekWord
  <2>2. MemoryRegions(name, s) = {<<Peek(s, 0), 1>>}
    BY <1>3 DEF MemoryRegions
  <2>3. QED
    BY <1>1, <2>1, <2>2, RegionPair
<1>4. CASE name \in {"KECCAK256", "RETURN", "REVERT", "LOG"}
  <2>1. Peek(s, 0) \in Nat /\ Peek(s, 1) \in Nat
    BY <1>1, <1>4, TakenOf, PeekWord
  <2>2. MemoryRegions(name, s) = {<<Peek(s, 0), Peek(s, 1)>>}
    BY <1>4 DEF MemoryRegions
  <2>3. QED
    BY <1>1, <2>1, <2>2, RegionPair
<1>5. CASE name \in {"CALLDATACOPY", "CODECOPY", "RETURNDATACOPY"}
  <2>1. Peek(s, 0) \in Nat /\ Peek(s, 2) \in Nat
    BY <1>1, <1>5, TakenOf, PeekWord
  <2>2. MemoryRegions(name, s) = {<<Peek(s, 0), Peek(s, 2)>>}
    BY <1>5 DEF MemoryRegions
  <2>3. QED
    BY <1>1, <2>1, <2>2, RegionPair
<1>6. CASE name = "EXTCODECOPY"
  <2>1. Peek(s, 1) \in Nat /\ Peek(s, 3) \in Nat
    BY <1>1, <1>6, TakenOf, PeekWord
  <2>2. MemoryRegions(name, s) = {<<Peek(s, 1), Peek(s, 3)>>}
    BY <1>6 DEF MemoryRegions
  <2>3. QED
    BY <1>1, <2>1, <2>2, RegionPair
<1>7. CASE name \in {"CREATE", "CREATE2"}
  <2>1. Peek(s, 1) \in Nat /\ Peek(s, 2) \in Nat
    BY <1>1, <1>7, TakenOf, PeekWord
  <2>2. MemoryRegions(name, s) = {<<Peek(s, 1), Peek(s, 2)>>}
    BY <1>7 DEF MemoryRegions
  <2>3. QED
    BY <1>1, <2>1, <2>2, RegionPair
<1>8. CASE name \in {"CALL", "CALLCODE"}
  <2>1. Peek(s, 3) \in Nat /\ Peek(s, 4) \in Nat /\ Peek(s, 5) \in Nat /\ Peek(s, 6) \in Nat
    BY <1>1, <1>8, TakenOf, PeekWord
  <2>2. MemoryRegions(name, s) = {<<Peek(s, 3), Peek(s, 4)>>, <<Peek(s, 5), Peek(s, 6)>>}
    BY <1>8 DEF MemoryRegions, CallBuffers
  <2> DEFINE a == Peek(s, 3)
             b == Peek(s, 4)
             c == Peek(s, 5)
             d == Peek(s, 6)
  <2> HIDE DEF a, b, c, d
  <2>3. Regions({<<a, b>>, <<c, d>>})
    BY <2>1, RegionPair DEF a, b, c, d
  <2>4. QED
    BY <2>2, <2>3 DEF a, b, c, d
<1>9. CASE name \in {"DELEGATECALL", "STATICCALL"}
  <2>1. Peek(s, 2) \in Nat /\ Peek(s, 3) \in Nat /\ Peek(s, 4) \in Nat /\ Peek(s, 5) \in Nat
    BY <1>1, <1>9, TakenOf, PeekWord
  <2>2. MemoryRegions(name, s) = {<<Peek(s, 2), Peek(s, 3)>>, <<Peek(s, 4), Peek(s, 5)>>}
    BY <1>9 DEF MemoryRegions, CallBuffers
  <2> DEFINE a == Peek(s, 2)
             b == Peek(s, 3)
             c == Peek(s, 4)
             d == Peek(s, 5)
  <2> HIDE DEF a, b, c, d
  <2>3. Regions({<<a, b>>, <<c, d>>})
    BY <2>1, RegionPair DEF a, b, c, d
  <2>4. QED
    BY <2>2, <2>3 DEF a, b, c, d
<1> DEFINE Paying == {"MLOAD", "MSTORE", "MSTORE8", "KECCAK256", "RETURN", "REVERT", "LOG",
                      "CALLDATACOPY", "CODECOPY", "RETURNDATACOPY", "EXTCODECOPY", "CREATE", "CREATE2",
                      "CALL", "CALLCODE", "DELEGATECALL", "STATICCALL"}
<1>10. CASE name \notin Paying
  <2>1. MemoryRegions(name, s) = {}
    BY <1>10 DEF MemoryRegions
  <2>2. QED
    BY <1>1, <2>1, RegionPair
<1>11. QED
  BY <1>2, <1>3, <1>4, <1>5, <1>6, <1>7, <1>8, <1>9, <1>10

(* e is behind every region.                                               *)
Behind(e, R) == e \in Nat /\ \A r \in R : r[2] # 0 => r[1] + r[2] <= e

(* The memory may be m instead of mem at this cost.                        *)
PaysFor(mem, m, cost) ==
    /\ Whole(m) /\ Len(m) <= MemLimit
    /\ MemCostWords(MemWords(m)) <= MemCostWords(MemWords(mem)) + cost

\* A memory cost pays for every growth up to the end of its regions.
LEMMA MemoryPays ==
    ASSUME NEW name, NEW s, NEW mem, Regions(MemoryRegions(name, s)), Whole(mem), Len(mem) <= MemLimit,
           ~(MemoryCost(name, s, mem) < 0)
    PROVE  /\ MemoryCost(name, s, mem) \in Nat
           /\ \E e : /\ Behind(e, MemoryRegions(name, s))
                     /\ \A m : Covered(mem, m, e) => PaysFor(mem, m, MemoryCost(name, s, mem))
<1> DEFINE R == MemoryRegions(name, s)
           ends == {MemAccessSize(r[1], r[2]) : r \in R}
           S == ends \cup {0}
           e == Max(S)
<1>1. IsFiniteSet(R) /\ \A r \in R : r[1] \in Nat /\ r[2] \in Nat
  BY DEF Regions
<1> HIDE DEF R
<1>2. \A r \in R : /\ MemAccessSize(r[1], r[2]) \in Int
                   /\ MemAccessSize(r[1], r[2]) # Overflow /\ r[2] # 0 => MemAccessSize(r[1], r[2]) = r[1] + r[2]
  BY <1>1 DEF MemAccessSize, Overflow
<1>3. IsFiniteSet(ends)
  <2> DEFINE f == [r \in R |-> MemAccessSize(r[1], r[2])]
  <2>1. ends = {f[r] : r \in R}
    OBVIOUS
  <2>2. f \in Surjection(R, ends)
    BY <2>1 DEF Surjection
  <2> HIDE DEF f, ends
  <2>3. QED
    BY <1>1, <2>2, FS_Surjection
<1>4. IsFiniteSet(S) /\ S # {} /\ S \subseteq Int
  <2>1. ends \subseteq Int
    BY <1>2
  <2> HIDE DEF ends
  <2>2. QED
    BY <1>3, <2>1, FS_AddElement
<1>5. e \in Int /\ \A x \in S : x <= e
  <2> HIDE DEF S
  <2> QED
    BY <1>4, MaxFinite
<1>6. MemoryCost(name, s, mem) = IF Overflow \in ends THEN Overflow ELSE MemExpandCost(mem, e)
  BY DEF MemoryCost, R
<1> HIDE DEF e
<1>7. Overflow \notin ends
  BY <1>6 DEF Overflow
<1>8. MemoryCost(name, s, mem) = MemExpandCost(mem, e) /\ MemExpandCost(mem, e) >= 0
  <2> HIDE DEF ends
  <2>1. MemExpandCost(mem, e) \in Int
    <3> DEFINE a == MemCostWords(WordsForBytes(e))
               b == MemCostWords(MemWords(mem))
    <3>1. b \in Nat
      BY WholeLen, MemCostMono
    <3>2. e >= 0 => a \in Nat
      <4>1. SUFFICES ASSUME e >= 0 PROVE a \in Nat
        OBVIOUS
      <4>2. WordsForBytes(e) \in Nat
        BY <1>5, <4>1, WordsCover
      <4>3. QED
        BY <4>2, MemCostMono
    <3>3. MemExpandCost(mem, e) \in {Overflow, 0} \/ (e >= 0 /\ MemExpandCost(mem, e) = a - b)
      BY <1>5, Limits DEF MemExpandCost, MemWords
    <3> HIDE DEF a, b
    <3>4. QED
      BY <3>1, <3>2, <3>3 DEF Overflow
  <2>2. QED
    BY <1>6, <1>7, <2>1
<1>9. /\ e \in Nat /\ MemExpandCost(mem, e) \in Nat
      /\ \A m : Covered(mem, m, e) =>
            /\ Len(m) <= MemLimit
            /\ MemCostWords(MemWords(m)) <= MemCostWords(MemWords(mem)) + MemExpandCost(mem, e)
  BY <1>5, <1>8, ExpandPays
<1>10. Behind(e, R)
  <2>1. ASSUME NEW r \in R, r[2] # 0 PROVE r[1] + r[2] <= e
    <3>1. MemAccessSize(r[1], r[2]) \in ends /\ MemAccessSize(r[1], r[2]) # Overflow
      BY <1>7
    <3>2. MemAccessSize(r[1], r[2]) = r[1] + r[2]
      <4> HIDE DEF ends
      <4> QED
        BY <1>2, <2>1, <3>1
    <3>3. QED
      BY <1>5, <3>1, <3>2
  <2>2. QED
    BY <1>9, <2>1 DEF Behind
<1>11. \A m : Covered(mem, m, e) => PaysFor(mem, m, MemoryCost(name, s, mem))
  BY <1>8, <1>9 DEF PaysFor, Covered
<1>12. QED
  BY <1>8, <1>9, <1>10, <1>11 DEF R

-----------------------------------------------------------------------------
(* Instructions and jump targets.                                          *)

(* Where the instruction behind the one at pc starts.                      *)
NextPc(code, pc) == pc + 1 + PushBytes(code[pc + 1])

(* mark[pc], collected over the instructions from pc on.                   *)
Collect(code, mark, f) ==
    [pc \in Nat |-> IF pc >= Len(code) THEN {} ELSE mark[pc] \cup f[NextPc(code, pc)]]

\* An instruction has a length.
LEMMA NextInstruction ==
    ASSUME NEW code \in Seq(Byte), NEW pc \in Nat, pc < Len(code)
    PROVE  /\ code[pc + 1] \in 0 .. 255 /\ PushBytes(code[pc + 1]) \in Nat
           /\ NextPc(code, pc) \in Nat /\ NextPc(code, pc) > pc
<1>1. pc + 1 \in 1 .. Len(code)
  BY LenProperties
<1>2. code[pc + 1] \in Byte
  BY <1>1, ElementOfSeq
<1>3. code[pc + 1] \in 0 .. 255
  BY <1>2, Limits DEF Byte
<1> DEFINE b == code[pc + 1]
<1> HIDE DEF b
<1>4. b \in 0 .. 255
  BY <1>3 DEF b
<1>5. PushBytes(b) \in Nat
  <2>1. Decoded[b][1] = "PUSH" => Decoded[b][2] \in 1 .. WordBytes
    <3>1. "PUSH" \notin Names
      BY NoFamily
    <3> DEFINE d == Decoded[b]
    <3> HIDE DEF d
    <3>2. \/ d[1] \in Names /\ d[2] = 0
          \/ d[1] = "PUSH" /\ d[2] \in 1 .. WordBytes
          \/ d[1] \in {"DUP", "SWAP"} /\ d[2] \in 1 .. 16
          \/ d[1] = "LOG" /\ d[2] \in 0 .. 4
          \/ d[1] = "none" /\ d[2] = 0
      BY <1>4, DecodedCases DEF d
    <3>3. d[1] = "PUSH" => d[2] \in 1 .. WordBytes
      BY <3>1, <3>2
    <3>4. QED
      BY <3>3 DEF d
  <2>2. QED
    BY <2>1, WordsAssumption DEF PushBytes
<1>6. QED
  BY <1>4, <1>5 DEF NextPc, b

\* The recursion from the end of the code has a solution.
LEMMA CollectExists ==
    ASSUME NEW code \in Seq(Byte), NEW mark \in [Nat -> SUBSET Nat]
    PROVE  \E f : f = Collect(code, mark, f)
<1> DEFINE L == Len(code)
           next(pc) == NextPc(code, pc)
           p == [k \in 1 .. L |-> IF next(L - k) >= L THEN 0 ELSE L - next(L - k)]
           g == [z \in (1 .. L) \X (SUBSET Nat) |-> mark[L - z[1]] \cup z[2]]
<1>1. L \in Nat
  BY LenProperties
<1>2. \A k \in 1 .. L : L - k \in Nat /\ L - k < L
  BY <1>1
<1>3. \A k \in 1 .. L : next(L - k) \in Nat /\ next(L - k) > L - k
  <2>1. SUFFICES ASSUME NEW k \in 1 .. L PROVE next(L - k) \in Nat /\ next(L - k) > L - k
    OBVIOUS
  <2> DEFINE c == L - k
  <2>2. c \in Nat /\ c < L
    BY <1>2
  <2> HIDE DEF c
  <2>3. next(c) \in Nat /\ next(c) > c
    BY <2>2, NextInstruction
  <2>4. QED
    BY <2>3 DEF c
<1> HIDE DEF next
<1>4. \A k \in 1 .. L : p[k] \in 0 .. k - 1
  <2> HIDE DEF L
  <2> QED
    BY <1>1, <1>3
<1>5. \A k \in 1 .. L : \A d \in SUBSET Nat : g[<<k, d>>] = mark[L - k] \cup d
  OBVIOUS
<1>6. \A k \in 1 .. L : \A d \in SUBSET Nat : g[<<k, d>>] \in SUBSET Nat
  <2> HIDE DEF g, L
  <2>1. \A k \in 1 .. L : mark[L - k] \in SUBSET Nat
    BY <1>2
  <2>2. QED
    BY <1>5, <2>1
<1>7. \A k \in 1 .. L : p[k] = IF next(L - k) >= L THEN 0 ELSE L - next(L - k)
  OBVIOUS
<1> HIDE DEF p, g, L
<1>8. Recursion(L, SUBSET Nat, {}, p, g)
  BY <1>1, <1>4, <1>6 DEF Recursion
<1>9. PICK h \in [0 .. L -> SUBSET Nat] : h[0] = {} /\ \A k \in 1 .. L : h[k] = g[<<k, h[p[k]]>>]
  BY ONLY <1>8, RecursionExists
<1> DEFINE f == [pc \in Nat |-> IF pc >= L THEN {} ELSE h[L - pc]]
<1>10. \A pc \in Nat : f[pc] = IF pc >= L THEN {} ELSE h[L - pc]
  OBVIOUS
<1>11. DOMAIN f = Nat /\ f = [pc \in Nat |-> f[pc]]
  OBVIOUS
<1> HIDE DEF f
<1>12. ASSUME NEW pc \in Nat, pc < L PROVE f[pc] = mark[pc] \cup f[next(pc)]
  <2> DEFINE k == L - pc
  <2>1. k \in 1 .. L /\ L - k = pc
    BY <1>1, <1>12
  <2> HIDE DEF k
  <2>2. next(pc) \in Nat /\ next(pc) > pc
    BY <1>3, <2>1
  <2>3. f[pc] = h[k]
    BY <1>1, <1>10, <1>12 DEF k
  <2>4. p[k] \in 0 .. L /\ h[p[k]] \in SUBSET Nat
    <3>1. p[k] \in 0 .. L
      BY <1>1, <1>4, <2>1
    <3>2. QED
      BY <1>9, <3>1
  <2>5. h[k] = mark[pc] \cup h[p[k]]
    BY <1>5, <1>9, <2>1, <2>4
  <2>6. h[p[k]] = f[next(pc)]
    <3>1. CASE next(pc) >= L
      BY <1>7, <1>9, <1>10, <2>1, <2>2, <3>1
    <3>2. CASE ~(next(pc) >= L)
      <4>1. p[k] = L - next(pc)
        BY <1>7, <2>1, <3>2
      <4>2. QED
        BY <1>10, <2>2, <3>2, <4>1
    <3>3. QED
      BY <3>1, <3>2
  <2>7. QED
    BY <2>3, <2>5, <2>6
<1>13. \A pc \in Nat : f[pc] = IF pc >= L THEN {} ELSE mark[pc] \cup f[next(pc)]
  <2>1. \A pc \in Nat : ~(pc >= L) => pc < L
    BY <1>1
  <2>2. QED
    BY <1>10, <1>12, <2>1
<1>14. f = Collect(code, mark, f)
  BY <1>11, <1>13 DEF Collect, L, next
<1>15. QED
  BY <1>14

\* Collecting: the first instruction, closed under the next one, and monotonic in
\* what is marked.
LEMMA CollectFacts ==
    ASSUME NEW code \in Seq(Byte), NEW mark, NEW f, f = Collect(code, mark, f),
           NEW g, g = Collect(code, [pc \in Nat |-> {pc}], g),
           \A pc \in Nat : mark[pc] \subseteq {pc}
    PROVE  /\ f[0] \subseteq g[0]
           /\ 0 < Len(code) => 0 \in g[0]
           /\ \A q \in g[0] : /\ q \in Nat /\ q < Len(code)
                              /\ NextPc(code, q) < Len(code) => NextPc(code, q) \in g[0]
<1> DEFINE L == Len(code)
           next(pc) == NextPc(code, pc)
           Fine(pc) == /\ f[pc] \subseteq g[pc]
                       /\ pc < L => pc \in g[pc]
                       /\ \A q \in g[pc] : q \in Nat /\ q < L /\ (next(q) < L => next(q) \in g[pc])
           S == {k \in Nat : \A pc \in Nat : L - pc <= k => Fine(pc)}
<1>1. L \in Nat
  BY LenProperties
<1>2. \A pc \in Nat : f[pc] = IF pc >= L THEN {} ELSE mark[pc] \cup f[next(pc)]
  BY DEF Collect
<1>3. \A pc \in Nat : g[pc] = IF pc >= L THEN {} ELSE {pc} \cup g[next(pc)]
  BY DEF Collect
<1>4. \A pc \in Nat : pc < L => next(pc) \in Nat /\ next(pc) > pc
  BY NextInstruction
<1> HIDE DEF L, next
<1>5. ASSUME NEW pc \in Nat, pc >= L PROVE Fine(pc)
  BY <1>1, <1>2, <1>3, <1>5
<1>6. 0 \in S
  <2>1. \A pc \in Nat : L - pc <= 0 => pc >= L
    BY <1>1
  <2> HIDE DEF Fine
  <2>2. QED
    BY <1>5, <2>1
<1>7. ASSUME NEW k \in Nat, k \in S PROVE k + 1 \in S
  <2>1. SUFFICES ASSUME NEW pc \in Nat, L - pc <= k + 1 PROVE Fine(pc)
    OBVIOUS
  <2>2. CASE pc >= L
    BY <1>5, <2>2
  <2>3. CASE ~(pc >= L)
    <3>1. pc < L /\ next(pc) \in Nat /\ next(pc) > pc
      BY <1>1, <1>4, <2>3
    <3>2. L - next(pc) <= k
      BY <1>1, <2>1, <3>1
    <3>3. Fine(next(pc))
      <4> HIDE DEF Fine
      <4> QED
        BY <1>7, <3>1, <3>2
    <3>4. f[pc] = mark[pc] \cup f[next(pc)] /\ g[pc] = {pc} \cup g[next(pc)] /\ mark[pc] \subseteq {pc}
      BY <1>2, <1>3, <2>3
    <3>5. f[pc] \subseteq g[pc] /\ pc \in g[pc]
      BY <3>3, <3>4
    <3>6. ASSUME NEW q \in g[pc] PROVE q \in Nat /\ q < L /\ (next(q) < L => next(q) \in g[pc])
      <4>1. CASE q = pc
        BY <3>1, <3>3, <3>4, <4>1
      <4>2. CASE q \in g[next(pc)]
        BY <3>3, <3>4, <4>2
      <4>3. QED
        BY <3>4, <3>6, <4>1, <4>2
    <3>7. QED
      BY <3>5, <3>6
  <2>4. QED
    BY <2>2, <2>3
<1> HIDE DEF S
<1>8. L \in S
  BY <1>1, <1>6, <1>7, NatSetInduction
<1>9. Fine(0)
  <2>1. L - 0 <= L /\ 0 \in Nat
    BY <1>1
  <2> HIDE DEF Fine
  <2>2. QED
    BY <1>8, <2>1 DEF S
<1>10. QED
  BY <1>9 DEF L, next

(* The instructions of a code, as Instructions collects them.              *)
Starts(code) == CHOOSE f : f = Collect(code, [pc \in Nat |-> {pc}], f)

\* Jump targets are instructions, and so is what follows an instruction.
LEMMA FlowFacts ==
    ASSUME NEW code \in Seq(Byte)
    PROVE  /\ \A d \in AnalyzeJumpDests(code) : d \in Starts(code)[0]
           /\ 0 < Len(code) => 0 \in Starts(code)[0]
           /\ \A q \in Starts(code)[0] :
                 /\ q \in Nat /\ q < Len(code)
                 /\ NextPc(code, q) < Len(code) => NextPc(code, q) \in Starts(code)[0]
<1> DEFINE all == [pc \in Nat |-> {pc}]
           dest == [pc \in Nat |-> IF code[pc + 1] = OpCode.JUMPDEST THEN {pc} ELSE {}]
           g == Starts(code)
           f == CHOOSE h : h = Collect(code, dest, h)
           from == CHOOSE h : h = [pc \in Nat |->
                       IF pc >= Len(code) THEN {}
                       ELSE (IF code[pc + 1] = OpCode.JUMPDEST THEN {pc} ELSE {})
                                \cup h[pc + 1 + PushBytes(code[pc + 1])]]
<1>1. all \in [Nat -> SUBSET Nat] /\ dest \in [Nat -> SUBSET Nat]
  OBVIOUS
<1>2. \A pc \in Nat : dest[pc] \subseteq {pc}
  OBVIOUS
<1>3. \A h : Collect(code, dest, h) = [pc \in Nat |->
                       IF pc >= Len(code) THEN {}
                       ELSE (IF code[pc + 1] = OpCode.JUMPDEST THEN {pc} ELSE {})
                                \cup h[pc + 1 + PushBytes(code[pc + 1])]]
  BY DEF Collect, NextPc
<1>4. f = from
  <2> HIDE DEF dest
  <2> QED
    BY <1>3
<1>5. AnalyzeJumpDests(code) = from[0]
  BY DEF AnalyzeJumpDests
<1> HIDE DEF dest, from
<1>6. f = Collect(code, dest, f)
  <2>1. \E h : h = Collect(code, dest, h)
    BY <1>1, CollectExists
  <2>2. QED
    BY <2>1
<1>7. g = Collect(code, all, g)
  <2>1. \E h : h = Collect(code, all, h)
    <3> HIDE DEF all
    <3> QED
      BY <1>1, CollectExists
  <2>2. QED
    BY <2>1 DEF Starts
<1> HIDE DEF f, g
<1>8. /\ f[0] \subseteq g[0]
      /\ 0 < Len(code) => 0 \in g[0]
      /\ \A q \in g[0] : /\ q \in Nat /\ q < Len(code)
                         /\ NextPc(code, q) < Len(code) => NextPc(code, q) \in g[0]
  BY <1>2, <1>6, <1>7, CollectFacts
<1>9. QED
  BY <1>4, <1>5, <1>8 DEF g

\* Instructions are the starts of the code.
LEMMA InstructionsAre == Instructions = Starts(contract.Code)[0]
<1> DEFINE code == contract.Code
           from == CHOOSE h : h = [pc \in Nat |->
                       IF pc >= Len(code) THEN {} ELSE {pc} \cup h[pc + 1 + PushBytes(code[pc + 1])]]
<1>1. Instructions = from[0]
  BY DEF Instructions
<1>2. \A h : Collect(code, [pc \in Nat |-> {pc}], h) = [pc \in Nat |->
                       IF pc >= Len(code) THEN {} ELSE {pc} \cup h[pc + 1 + PushBytes(code[pc + 1])]]
  BY DEF Collect, NextPc
<1>3. Starts(code) = from
  BY <1>2 DEF Starts
<1>4. QED
  BY <1>1, <1>3

-----------------------------------------------------------------------------
(* Executors.                                                              *)

Errors == {"none", "ErrInvalidOpcode", "ErrStackOverflow", "ErrBadJumpDest", "ErrGasUintOverflow",
           "ErrReturnDataOutOfBounds", "ErrStaticStateChange", "ErrStakingOpDeferred"}

Scope == [pc : Nat, stack : Seq(Word), mem : Seq(Byte), stop : BOOLEAN, reverted : BOOLEAN,
          ret : Seq(Byte), returnData : Seq(Byte), err : Errors]

(* A scope between two instructions.                                       *)
Ready(s) ==
    /\ s \in Scope /\ IsData(s.returnData)
    /\ Whole(s.mem) /\ Len(s.mem) <= MemLimit
    /\ Len(s.stack) <= MaxStack

(* t is what an executor may leave of s if memory is paid for up to e.     *)
Ran(s, t, e) ==
    /\ t \in Scope /\ IsData(t.returnData)
    /\ Covered(s.mem, t.mem, e)
    /\ Len(t.stack) <= MaxStack

\* Data are sequences of bytes with a length that is a word.
LEMMA DataLen ==
    ASSUME NEW d, IsData(d)
    PROVE  d \in Seq(Byte) /\ Len(d) \in Nat /\ Len(d) < U64 /\ Len(d) \in Word
<1>1. d \in Seq(Byte) /\ Len(d) \in Nat /\ Len(d) < U64
  BY LenProperties DEF IsData
<1>2. QED
  BY <1>1, Limits, ModulusFacts DEF Word

\* No bytes are data.
LEMMA EmptyData == IsData(<<>>)
BY Limits, EmptySeq DEF IsData

\* An executor may leave its scope as it is.
LEMMA ReadyRan ==
    ASSUME NEW s, Ready(s), NEW e \in Nat
    PROVE  Ran(s, s, e) /\ Len(s.stack) \in Nat /\ s.stack \in Seq(Word)
<1>1. s.stack \in Seq(Word) /\ Len(s.stack) \in Nat
  BY LenProperties DEF Ready, Scope
<1>2. MemWords(s.mem) <= MemWords(s.mem)
  BY WholeLen DEF Ready
<1>3. QED
  BY <1>1, <1>2 DEF Ready, Ran, Covered

\* An error put into a scope changes nothing else of it.
LEMMA ErrRan ==
    ASSUME NEW s, NEW t, NEW e \in Nat, Ran(s, t, e), NEW x \in Errors
    PROVE  Ran(s, Err(t, x), e) /\ Err(t, x).pc = t.pc /\ Err(t, x).err = x
<1>1. t \in Scope
  BY DEF Ran
<1>2. Err(t, x) \in Scope /\ Err(t, x).pc = t.pc /\ Err(t, x).err = x /\ Err(t, x).mem = t.mem
      /\ Err(t, x).stack = t.stack /\ Err(t, x).returnData = t.returnData
  BY <1>1 DEF Err, Scope
<1>3. QED
  BY <1>2 DEF Ran

\* A shorter stack, and one with a word more.
LEMMA Shorter ==
    ASSUME NEW st \in Seq(Word), NEW n \in Nat, n <= Len(st)
    PROVE  /\ SubSeq(st, 1, Len(st) - n) \in Seq(Word)
           /\ Len(SubSeq(st, 1, Len(st) - n)) = Len(st) - n
<1> DEFINE m == Len(st) - n
<1>1. m \in Nat /\ m <= Len(st) /\ Len(st) \in Nat
  BY LenProperties
<1>2. \A i \in 1 .. m : st[i] \in Word
  BY <1>1, ElementOfSeq
<1> HIDE DEF m
<1>3. SubSeq(st, 1, m) \in Seq(Word) /\ Len(SubSeq(st, 1, m)) = IF 1 <= m THEN m - 1 + 1 ELSE 0
  BY <1>1, <1>2, SubSeqProperties
<1>4. QED
  BY <1>1, <1>3 DEF m

\* Every update of the stack alone.
LEMMA StackRan ==
    ASSUME NEW s, Ready(s), NEW e \in Nat, NEW st \in Seq(Word), Len(st) <= MaxStack
    PROVE  /\ Ran(s, [s EXCEPT !.stack = st], e)
           /\ [s EXCEPT !.stack = st].pc = s.pc /\ [s EXCEPT !.stack = st].err = s.err
           /\ [s EXCEPT !.stack = st].mem = s.mem
<1>1. s \in Scope /\ Ran(s, s, e)
  BY ReadyRan DEF Ready
<1> DEFINE t == [s EXCEPT !.stack = st]
<1>2. t \in Scope /\ t.pc = s.pc /\ t.err = s.err /\ t.mem = s.mem /\ t.stack = st /\ t.returnData = s.returnData
  BY <1>1 DEF Scope
<1> HIDE DEF t
<1>3. Ran(s, t, e)
  BY <1>1, <1>2 DEF Ran
<1>4. QED
  BY <1>2, <1>3 DEF t

\* Pop leaves a scope an executor may leave.
LEMMA PopRan ==
    ASSUME NEW s, Ready(s), NEW e \in Nat, NEW n \in Nat, n <= Len(s.stack)
    PROVE  Ran(s, Pop(s, n), e) /\ Pop(s, n).pc = s.pc /\ Pop(s, n).err = s.err /\ Pop(s, n).mem = s.mem
           /\ Len(Pop(s, n).stack) = Len(s.stack) - n
<1> DEFINE st == SubSeq(s.stack, 1, Len(s.stack) - n)
<1>1. s.stack \in Seq(Word) /\ Len(s.stack) \in Nat /\ Len(s.stack) <= MaxStack /\ MaxStack \in Nat /\ s \in Scope
  BY ReadyRan, Limits DEF Ready
<1>2. st \in Seq(Word) /\ Len(st) = Len(s.stack) - n
  BY <1>1, Shorter
<1>3. Pop(s, n) = [s EXCEPT !.stack = st] /\ Pop(s, n).stack = st
  BY <1>1 DEF Pop, Scope
<1> HIDE DEF st
<1>4. Len(st) <= MaxStack
  BY <1>1, <1>2
<1>5. QED
  BY <1>2, <1>3, <1>4, StackRan

\* Replace leaves a scope an executor may leave.
LEMMA ReplaceRan ==
    ASSUME NEW s, Ready(s), NEW e \in Nat, NEW n \in Nat \ {0}, n <= Len(s.stack), NEW x \in Word
    PROVE  Ran(s, Replace(s, n, x), e) /\ Replace(s, n, x).pc = s.pc /\ Replace(s, n, x).err = s.err
           /\ Replace(s, n, x).mem = s.mem
<1> DEFINE st == SubSeq(s.stack, 1, Len(s.stack) - n)
           sx == Append(st, x)
<1>1. s.stack \in Seq(Word) /\ Len(s.stack) \in Nat /\ Len(s.stack) <= MaxStack /\ MaxStack \in Nat /\ s \in Scope
  BY ReadyRan, Limits DEF Ready
<1>2. st \in Seq(Word) /\ Len(st) = Len(s.stack) - n
  BY <1>1, Shorter
<1>3. Replace(s, n, x) = [s EXCEPT !.stack = sx]
  BY <1>1 DEF Replace, Scope
<1> HIDE DEF st
<1>4. sx \in Seq(Word) /\ Len(sx) = Len(st) + 1
  BY <1>2, AppendProperties
<1> HIDE DEF sx
<1>5. Len(sx) <= MaxStack
  BY <1>1, <1>2, <1>4
<1>6. QED
  BY <1>3, <1>4, <1>5, StackRan

\* Push leaves a scope an executor may leave, or fails.
LEMMA PushRan ==
    ASSUME NEW s, NEW t, NEW e \in Nat, Ran(s, t, e), NEW x \in Word
    PROVE  Ran(s, Push(t, x), e) /\ Push(t, x).pc = t.pc
           /\ Push(t, x).err \in {t.err, "ErrStackOverflow"}
           /\ (Len(t.stack) < MaxStack => Push(t, x).err = t.err)
<1>1. t \in Scope /\ t.stack \in Seq(Word) /\ Len(t.stack) \in Nat /\ MaxStack \in Nat
  BY LenProperties, Limits DEF Ran, Scope
<1>2. CASE Len(t.stack) >= MaxStack
  <2>1. Push(t, x) = Err(t, "ErrStackOverflow") /\ "ErrStackOverflow" \in Errors
    BY <1>2 DEF Push, Errors
  <2>2. QED
    BY <1>1, <1>2, <2>1, ErrRan
<1>3. CASE ~(Len(t.stack) >= MaxStack)
  <2> DEFINE sx == Append(t.stack, x)
             u == [t EXCEPT !.stack = sx]
  <2>1. sx \in Seq(Word) /\ Len(sx) = Len(t.stack) + 1
    BY <1>1, AppendProperties
  <2>2. Push(t, x) = u
    BY <1>3 DEF Push
  <2> HIDE DEF sx
  <2>3. u \in Scope /\ u.pc = t.pc /\ u.err = t.err /\ u.mem = t.mem /\ u.stack = sx /\ u.returnData = t.returnData
    BY <1>1, <2>1 DEF Scope
  <2> HIDE DEF u
  <2>4. Len(sx) <= MaxStack
    BY <1>1, <1>3, <2>1
  <2>5. QED
    BY <2>2, <2>3, <2>4 DEF Ran
<1>4. QED
  BY <1>2, <1>3

\* A new memory that is paid for.
LEMMA MemRan ==
    ASSUME NEW s, NEW t, NEW e \in Nat, Ran(s, t, e), NEW m, Covered(s.mem, m, e)
    PROVE  Ran(s, [t EXCEPT !.mem = m], e) /\ [t EXCEPT !.mem = m].pc = t.pc /\ [t EXCEPT !.mem = m].err = t.err
<1> DEFINE u == [t EXCEPT !.mem = m]
<1>1. t \in Scope /\ m \in Seq(Byte)
  BY DEF Ran, Covered, Whole
<1>2. u \in Scope /\ u.pc = t.pc /\ u.err = t.err /\ u.mem = m /\ u.stack = t.stack /\ u.returnData = t.returnData
  BY <1>1 DEF Scope
<1> HIDE DEF u
<1>3. Ran(s, u, e)
  BY <1>2 DEF Ran
<1>4. QED
  BY <1>2, <1>3 DEF u

(* A frame that is executing: its contract and meter.                      *)
EnergyMetered ==
    /\ contract \in Jobs
    /\ meter \in [limit : Nat, used : Nat] /\ meter.used <= meter.limit /\ meter.limit < U64

\* The code and the input of a frame are data.
LEMMA ContractData ==
    ASSUME contract \in Jobs
    PROVE  IsData(contract.Code) /\ IsData(contract.Input) /\ contract.limit \in 0 .. U64 - 1
<1>1. \A j \in Jobs : j.limit \in 0 .. U64 - 1 /\ IsData(j.Code) /\ IsData(j.Input)
  BY InterpreterAssumption
<1>2. QED
  BY <1>1

\* What the state answers.
LEMMA AnswerTypes ==
    ASSUME NEW name, NEW answer \in Asked(name)
    PROVE  answer.word \in Word /\ IsData(answer.data)
<1>1. Answers \subseteq Word /\ (\A r \in Replies : IsData(r)) /\ 0 \in Word /\ IsData(<<>>)
  BY InterpreterAssumption, ModulusFacts, EmptyData
<1>2. answer.word \in Answers \cup {0} /\ answer.data \in Replies \cup {<<>>}
  BY DEF Asked
<1>3. QED
  BY <1>1, <1>2

\* The opcodes that push read words.
LEMMA PushedWordType ==
    ASSUME EnergyMetered, NEW name \in Pushes, NEW s, Ready(s), s.pc < Len(contract.Code),
           NEW answer \in Asked(name)
    PROVE  PushedWord(name, s, answer) \in Word
<1>1. Len(contract.Code) \in Word /\ Len(contract.Input) \in Word /\ Len(s.returnData) \in Word
  BY ContractData, DataLen DEF EnergyMetered, Ready
<1>2. s.pc \in Word
  <2>1. s.pc \in Nat
    BY DEF Ready, Scope
  <2>2. QED
    BY <1>1, <2>1, ModulusFacts DEF Word
<1>3. Len(s.mem) \in Word
  <2>1. Len(s.mem) \in Nat /\ Len(s.mem) <= MemLimit
    BY WholeLen DEF Ready
  <2>2. QED
    BY <2>1, Limits, ModulusFacts DEF Word
<1>4. meter.limit - meter.used \in Word
  <2>1. meter.limit \in Nat /\ meter.used \in Nat /\ meter.used <= meter.limit /\ meter.limit < U64
    BY DEF EnergyMetered
  <2>2. QED
    BY <2>1, Limits, ModulusFacts DEF Word
<1>5. answer.word \in Word /\ 0 \in Word
  BY AnswerTypes, ModulusFacts
<1>6. CASE name \in {"ADDRESS", "ORIGIN", "CALLER", "COINBASE"}
  <2>1. PushedWord(name, s, answer) = AddrWord(Context[name])
    BY <1>6 DEF PushedWord
  <2>2. AddrWord(Context[name]) \in Word
    BY <1>6, ContextAssumption
  <2>3. QED
    BY <2>1, <2>2
<1>7. CASE name \in {"CALLVALUE", "TIMESTAMP", "NUMBER", "CHAINID"}
  <2>1. PushedWord(name, s, answer) = Context[name]
    BY <1>7 DEF PushedWord
  <2>2. Context[name] \in Word
    BY <1>7, ContextAssumption
  <2>3. QED
    BY <2>1, <2>2
<1>8. CASE name \notin {"ADDRESS", "ORIGIN", "CALLER", "COINBASE", "CALLVALUE", "TIMESTAMP", "NUMBER", "CHAINID"}
  BY <1>1, <1>2, <1>3, <1>4, <1>5, <1>8 DEF PushedWord
<1>9. QED
  BY <1>6, <1>7, <1>8

\* The opcodes with one operand compute words.
LEMMA UnaryWordType ==
    ASSUME EnergyMetered, NEW name \in Unary, NEW x \in Word, NEW answer \in Asked(name)
    PROVE  UnaryWord(name, x, answer) \in Word
<1>1. answer.word \in Word /\ 0 \in Word /\ Len(answer.data) \in Word
  BY AnswerTypes, ModulusFacts, DataLen
<1>2. Iszero(x) \in Word /\ Complement(x) \in Word /\ Flag(Len(answer.data) > 0) \in Word
  BY FlagWord, ComplementWord DEF Iszero
<1>3. FromBytes(CopyDataAt(contract.Input, x, WordBytes)) \in Word
  <2> DEFINE c == CopyDataAt(contract.Input, x, WordBytes)
  <2>1. contract.Input \in Seq(Byte) /\ x \in Nat /\ WordBytes \in Nat
    BY ContractData, DataLen, WordsAssumption, ModulusFacts DEF EnergyMetered, Word
  <2>2. c \in Seq(Byte) /\ Len(c) = WordBytes
    BY <2>1, CopyDataAtData
  <2> HIDE DEF c
  <2>3. Len(c) <= WordBytes
    BY <2>1, <2>2
  <2>4. FromBytes(c) \in Word
    BY <2>2, <2>3, FromBytesWord
  <2>5. QED
    BY <2>4 DEF c
<1>4. QED
  BY <1>1, <1>2, <1>3 DEF UnaryWord, Unary

\* The opcodes with two operands compute words.
LEMMA BinaryWordType ==
    ASSUME NEW name \in Binary, NEW x \in Word, NEW y \in Word
    PROVE  BinaryWord(name, x, y) \in Word
<1>1. Add(x, y) \in Word /\ Sub(x, y) \in Word
  <2>1. x + y \in Int /\ x - y \in Int
    BY ModulusFacts DEF Word
  <2>2. Unsigned(x + y) \in Word /\ Unsigned(x - y) \in Word
    BY <2>1, UnsignedWord
  <2>3. QED
    BY <2>2 DEF Add, Sub, Unsigned
<1>2. Mul(x, y) \in Word /\ Div(x, y) \in Word /\ Mod(x, y) \in Word
  BY MulWord, DivWord
<1>3. Sdiv(x, y) \in Word /\ Smod(x, y) \in Word /\ Exp(x, y) \in Word /\ Signextend(x, y) \in Word
  BY SdivWord, ExpWord, SignextendWord
<1>4. Lt(x, y) \in Word /\ Gt(x, y) \in Word /\ Slt(x, y) \in Word /\ Sgt(x, y) \in Word /\ Eq(x, y) \in Word
  BY FlagWord DEF Lt, Gt, Slt, Sgt, Eq
<1>5. OpAnd(x, y) \in Word /\ OpOr(x, y) \in Word /\ OpXor(x, y) \in Word
  BY BitsWord
<1>6. ByteAt(x, y) \in Word /\ Shl(x, y) \in Word /\ Shr(x, y) \in Word /\ Sar(x, y) \in Word /\ 0 \in Word
  BY ByteAtWord, ShiftWord, ModulusFacts
<1>7. QED
  BY <1>1, <1>2, <1>3, <1>4, <1>5, <1>6 DEF BinaryWord, Binary

(* The words an opcode takes from the stack, by the table.                 *)
Pops(name, n) == IF name = "PUSH" THEN 0 ELSE IF name = "DUP" THEN n
                 ELSE IF name = "SWAP" THEN n + 1 ELSE IF name = "LOG" THEN 2 + n
                 ELSE Table[name][2]

(* Where execution is after the executor of an opcode: on its instruction  *)
(* still if it failed or does nothing to pc, on the last byte of the data  *)
(* of a PUSH, or where a jump went.                                        *)
Leads(name, n, s, t, e) ==
    /\ Ran(s, t, e)
    /\ t.err # "none" => t.pc = s.pc
    /\ t.err = "none" =>
          IF name \in Jumps THEN t.pc \in AnalyzeJumpDests(contract.Code) \cup {s.pc + 1}
          ELSE t.pc = s.pc + (IF name = "PUSH" THEN n ELSE 0)

(* What is known of an opcode that is executed on s.                       *)
Executes(name, n, s, answer, e) ==
    /\ EnergyMetered /\ Ready(s) /\ s.err = "none" /\ s.pc < Len(contract.Code)
    /\ name \in Names \cup {"PUSH", "DUP", "SWAP", "LOG"}
    /\ name = "PUSH" => n \in 1 .. WordBytes /\ Len(s.stack) < MaxStack
    /\ name \in {"DUP", "SWAP"} => n \in 1 .. 16
    /\ name = "LOG" => n \in 0 .. 4
    /\ Pops(name, n) <= Len(s.stack)
    /\ answer \in Asked(name)
    /\ e \in Nat /\ Behind(e, MemoryRegions(name, s.stack))

\* An executor that leaves pc alone.
LEMMA StaysPut ==
    ASSUME NEW name, NEW n, NEW s, NEW t, NEW e, Ready(s), Ran(s, t, e), t.pc = s.pc,
           name \notin Jumps, name # "PUSH"
    PROVE  Leads(name, n, s, t, e)
<1>1. s.pc \in Nat
  BY DEF Ready, Scope
<1>2. s.pc = s.pc + 0
  BY <1>1
<1>3. QED
  BY <1>2 DEF Leads

\* Executing an opcode that pushes a word.
LEMMA PushesGo ==
    ASSUME NEW name \in Pushes, NEW n, NEW s, NEW answer, NEW e, Executes(name, n, s, answer, e)
    PROVE  Leads(name, n, s, Exec(name, n, s, answer), e)
<1>1. PushedWord(name, s, answer) \in Word
  BY PushedWordType DEF Executes
<1>2. Exec(name, n, s, answer) = Push(s, PushedWord(name, s, answer))
  BY DEF Exec, Pushes, Unary, Binary, Staking, Gates
<1>3. name \notin Jumps /\ name # "PUSH"
  BY DEF Pushes, Jumps
<1>4. Ready(s) /\ e \in Nat /\ Ran(s, s, e)
  BY ReadyRan DEF Executes
<1> DEFINE x == PushedWord(name, s, answer)
<1> HIDE DEF x
<1>5. Ran(s, Push(s, x), e) /\ Push(s, x).pc = s.pc
  BY <1>1, <1>4, PushRan DEF x
<1>6. QED
  BY <1>2, <1>3, <1>4, <1>5, StaysPut DEF x

\* Executing an opcode with one operand.
LEMMA UnaryGo ==
    ASSUME NEW name \in Unary, NEW n, NEW s, NEW answer, NEW e, Executes(name, n, s, answer, e)
    PROVE  Leads(name, n, s, Exec(name, n, s, answer), e)
<1>1. Ready(s) /\ e \in Nat /\ s.stack \in Seq(Word) /\ Len(s.stack) \in Nat
  BY ReadyRan DEF Executes
<1>2. name \notin Jumps /\ name \notin {"PUSH", "DUP", "SWAP", "LOG"}
  BY DEF Unary, Jumps
<1>3. Len(s.stack) >= 1
  BY <1>1, <1>2, TableRows DEF Executes, Pops
<1>4. Peek(s.stack, 0) \in Word
  BY <1>1, <1>3, PeekWord
<1> DEFINE x == UnaryWord(name, Peek(s.stack, 0), answer)
<1>5. x \in Word
  BY <1>4, UnaryWordType DEF Executes
<1>6. Exec(name, n, s, answer) = Replace(s, 1, x)
  BY DEF Exec, Pushes, Unary, Binary, Staking, Gates
<1> HIDE DEF x
<1>7. Ran(s, Replace(s, 1, x), e) /\ Replace(s, 1, x).pc = s.pc
  BY <1>1, <1>3, <1>5, ReplaceRan
<1>8. QED
  BY <1>1, <1>2, <1>6, <1>7, StaysPut

\* Executing an opcode with two operands.
LEMMA BinaryGo ==
    ASSUME NEW name \in Binary, NEW n, NEW s, NEW answer, NEW e, Executes(name, n, s, answer, e)
    PROVE  Leads(name, n, s, Exec(name, n, s, answer), e)
<1>1. Ready(s) /\ e \in Nat /\ s.stack \in Seq(Word) /\ Len(s.stack) \in Nat
  BY ReadyRan DEF Executes
<1>2. name \notin Jumps /\ name \notin {"PUSH", "DUP", "SWAP", "LOG"}
  BY DEF Binary, Jumps
<1>3. Len(s.stack) >= 2
  BY <1>1, <1>2, TableRows DEF Executes, Pops
<1>4. Peek(s.stack, 0) \in Word /\ Peek(s.stack, 1) \in Word
  BY <1>1, <1>3, PeekWord
<1> DEFINE x == BinaryWord(name, Peek(s.stack, 0), Peek(s.stack, 1))
<1>5. x \in Word
  BY <1>4, BinaryWordType
<1>6. Exec(name, n, s, answer) = Replace(s, 2, x)
  BY DEF Exec, Pushes, Unary, Binary, Staking, Gates
<1> HIDE DEF x
<1>7. Ran(s, Replace(s, 2, x), e) /\ Replace(s, 2, x).pc = s.pc
  BY <1>1, <1>3, <1>5, ReplaceRan
<1>8. QED
  BY <1>1, <1>2, <1>6, <1>7, StaysPut

\* Executing a staking opcode: an error.
LEMMA StakingGo ==
    ASSUME NEW name \in Staking \cup {"INVALID"}, NEW n, NEW s, NEW answer, NEW e,
           Executes(name, n, s, answer, e)
    PROVE  Leads(name, n, s, Exec(name, n, s, answer), e)
<1>1. Ready(s) /\ e \in Nat /\ Ran(s, s, e)
  BY ReadyRan DEF Executes
<1>2. name \notin Jumps /\ name # "PUSH"
  BY DEF Staking, Gates, Jumps
<1>3. {"ErrStakingOpDeferred", "ErrInvalidOpcode"} \subseteq Errors
  BY DEF Errors
<1>4. PICK x \in Errors : Exec(name, n, s, answer) = Err(s, x)
  BY <1>3 DEF Exec, Pushes, Unary, Binary, Staking, Gates
<1>5. Ran(s, Err(s, x), e) /\ Err(s, x).pc = s.pc
  BY <1>1, ErrRan
<1>6. QED
  BY <1>1, <1>2, <1>4, <1>5, StaysPut

\* The opcodes with rows of their own take what the table says.
LEMMA PopsOf ==
    ASSUME NEW n
    PROVE  /\ Pops("STOP", n) = 0 /\ Pops("JUMPDEST", n) = 0 /\ Pops("POP", n) = 1
           /\ Pops("ADDMOD", n) = 3 /\ Pops("MULMOD", n) = 3 /\ Pops("KECCAK256", n) = 2
           /\ Pops("MLOAD", n) = 1 /\ Pops("MSTORE", n) = 2 /\ Pops("MSTORE8", n) = 2
           /\ Pops("SSTORE", n) = 2 /\ Pops("RETURN", n) = 2 /\ Pops("REVERT", n) = 2
           /\ Pops("JUMP", n) = 1 /\ Pops("JUMPI", n) = 2
           /\ Pops("CALLDATACOPY", n) = 3 /\ Pops("CODECOPY", n) = 3
           /\ Pops("RETURNDATACOPY", n) = 3 /\ Pops("EXTCODECOPY", n) = 4
BY TableOthers DEF Pops

\* The facts every executor starts from.
LEMMA StartFacts ==
    ASSUME NEW name, NEW n, NEW s, NEW answer, NEW e, Executes(name, n, s, answer, e)
    PROVE  /\ Ready(s) /\ e \in Nat /\ s \in Scope /\ s.stack \in Seq(Word) /\ Len(s.stack) \in Nat
           /\ Ran(s, s, e) /\ Whole(s.mem) /\ Pops(name, n) <= Len(s.stack)
           /\ \A i \in Nat : i < Len(s.stack) => Peek(s.stack, i) \in Word /\ Peek(s.stack, i) \in Nat
           /\ Behind(e, MemoryRegions(name, s.stack))
BY ReadyRan, PeekWord DEF Executes, Ready

\* Executing an opcode that leaves memory and pc alone.
LEMMA SimpleGo ==
    ASSUME NEW name \in {"STOP", "JUMPDEST", "POP", "ADDMOD", "MULMOD", "SSTORE"},
           NEW n, NEW s, NEW answer, NEW e, Executes(name, n, s, answer, e)
    PROVE  Leads(name, n, s, Exec(name, n, s, answer), e)
<1>1. /\ Ready(s) /\ e \in Nat /\ s \in Scope /\ s.stack \in Seq(Word) /\ Len(s.stack) \in Nat
      /\ Ran(s, s, e) /\ Whole(s.mem) /\ Pops(name, n) <= Len(s.stack)
      /\ \A i \in Nat : i < Len(s.stack) => Peek(s.stack, i) \in Word /\ Peek(s.stack, i) \in Nat
  BY StartFacts
<1>2. name \notin Jumps /\ name # "PUSH"
  BY DEF Jumps
<1>3. CASE name = "STOP"
  <2> DEFINE t == [s EXCEPT !.stop = TRUE]
  <2>1. Exec(name, n, s, answer) = t
    BY <1>3 DEF Exec, Pushes, Unary, Binary, Staking, Gates
  <2>2. t \in Scope /\ t.pc = s.pc /\ t.mem = s.mem /\ t.stack = s.stack /\ t.returnData = s.returnData
    BY <1>1 DEF Scope
  <2> HIDE DEF t
  <2>3. Ran(s, t, e)
    BY <1>1, <2>2 DEF Ran
  <2>4. QED
    BY <1>1, <1>2, <2>1, <2>2, <2>3, StaysPut
<1>4. CASE name = "JUMPDEST"
  <2>1. Exec(name, n, s, answer) = s
    BY <1>4 DEF Exec, Pushes, Unary, Binary, Staking, Gates
  <2>2. QED
    BY <1>1, <1>2, <2>1, StaysPut
<1>5. CASE name = "POP"
  <2>1. Exec(name, n, s, answer) = Pop(s, 1) /\ 1 <= Len(s.stack)
    BY <1>1, <1>5, PopsOf DEF Exec, Pushes, Unary, Binary, Staking, Gates
  <2>2. Ran(s, Pop(s, 1), e) /\ Pop(s, 1).pc = s.pc
    BY <1>1, <2>1, PopRan
  <2>3. QED
    BY <1>1, <1>2, <2>1, <2>2, StaysPut
<1>6. CASE name \in {"ADDMOD", "MULMOD"}
  <2>1. 3 <= Len(s.stack)
    BY <1>1, <1>6, PopsOf
  <2>2. Peek(s.stack, 0) \in Word /\ Peek(s.stack, 1) \in Word /\ Peek(s.stack, 2) \in Word
    BY <1>1, <2>1
  <2>3. PICK x \in Word : Exec(name, n, s, answer) = Replace(s, 3, x)
    BY <1>6, <2>2, AddmodWord DEF Exec, Pushes, Unary, Binary, Staking, Gates
  <2>4. Ran(s, Replace(s, 3, x), e) /\ Replace(s, 3, x).pc = s.pc
    BY <1>1, <2>1, ReplaceRan
  <2>5. QED
    BY <1>1, <1>2, <2>3, <2>4, StaysPut
<1>7. CASE name = "SSTORE"
  <2>1. Exec(name, n, s, answer) \in {Err(s, "ErrStaticStateChange"), Pop(s, 2)} /\ 2 <= Len(s.stack)
    BY <1>1, <1>7, PopsOf DEF Exec, Pushes, Unary, Binary, Staking, Gates
  <2>2. Ran(s, Pop(s, 2), e) /\ Pop(s, 2).pc = s.pc
    BY <1>1, <2>1, PopRan
  <2>3. Ran(s, Err(s, "ErrStaticStateChange"), e) /\ Err(s, "ErrStaticStateChange").pc = s.pc
    BY <1>1, ErrRan DEF Errors
  <2>4. QED
    BY <1>1, <1>2, <2>1, <2>2, <2>3, StaysPut
<1>8. QED
  BY <1>3, <1>4, <1>5, <1>6, <1>7

(* A copy within what is paid for.                                         *)
Copying(s, e, n, off, src, from, length) ==
    /\ Ready(s) /\ e \in Nat /\ n \in Nat /\ n <= Len(s.stack) /\ off \in Nat /\ src \in Seq(Byte)
    /\ from \in Nat /\ length \in Nat /\ (length # 0 => off + length <= e)

\* The copying opcodes write what they pay for.
LEMMA CopyToRan ==
    ASSUME NEW s, NEW e, NEW n, NEW off, NEW src, NEW from, NEW length,
           Copying(s, e, n, off, src, from, length)
    PROVE  Ran(s, CopyTo(s, n, off, src, from, length), e) /\ CopyTo(s, n, off, src, from, length).pc = s.pc
           /\ CopyTo(s, n, off, src, from, length).err = s.err
<1> USE DEF Copying
<1> DEFINE c == CopyDataAt(src, from, length)
           m == MemSet(s.mem, off, c)
           p == Pop(s, n)
<1>1. c \in Seq(Byte) /\ Len(c) = length
  BY CopyDataAtData
<1>2. Ran(s, p, e) /\ p.pc = s.pc /\ p.err = s.err /\ p.mem = s.mem /\ Whole(s.mem)
  BY PopRan DEF Ready
<1>3. CopyTo(s, n, off, src, from, length) = [p EXCEPT !.mem = MemSet(p.mem, off, c)]
  BY DEF CopyTo
<1> HIDE DEF c, p
<1>4. Covered(s.mem, m, e)
  BY <1>1, <1>2, MemSetCovered
<1>5. CopyTo(s, n, off, src, from, length) = [p EXCEPT !.mem = m]
  BY <1>2, <1>3
<1> HIDE DEF m, Copying
<1>6. e \in Nat
  BY DEF Copying
<1>7. Ran(s, [p EXCEPT !.mem = m], e) /\ [p EXCEPT !.mem = m].pc = p.pc /\ [p EXCEPT !.mem = m].err = p.err
  BY <1>2, <1>4, <1>6, MemRan
<1>8. QED
  BY <1>2, <1>5, <1>7, Zenon

\* A clamped word is a number.
LEMMA ClampNat == ASSUME NEW x \in Nat PROVE ClampU64(x) \in Nat
BY Limits DEF ClampU64

\* Executing an opcode that copies into the memory.
LEMMA CopiesGo ==
    ASSUME NEW name \in CopyOps, NEW n, NEW s, NEW answer, NEW e, Executes(name, n, s, answer, e)
    PROVE  Leads(name, n, s, Exec(name, n, s, answer), e)
<1>1. /\ Ready(s) /\ e \in Nat /\ s \in Scope /\ s.stack \in Seq(Word) /\ Len(s.stack) \in Nat
      /\ Ran(s, s, e) /\ Whole(s.mem) /\ Pops(name, n) <= Len(s.stack)
      /\ \A i \in Nat : i < Len(s.stack) => Peek(s.stack, i) \in Word /\ Peek(s.stack, i) \in Nat
      /\ Behind(e, MemoryRegions(name, s.stack))
  BY StartFacts
<1>2. name \notin Jumps /\ name # "PUSH"
  BY DEF Jumps, CopyOps
<1>3. contract.Input \in Seq(Byte) /\ contract.Code \in Seq(Byte) /\ answer.data \in Seq(Byte) /\ s.returnData \in Seq(Byte)
  BY ContractData, DataLen, AnswerTypes DEF Executes, EnergyMetered, Ready
<1> DEFINE X(i) == Peek(s.stack, i)
<1>4. CASE name \in {"CALLDATACOPY", "CODECOPY", "RETURNDATACOPY"}
  <2>1. 3 <= Len(s.stack)
    BY <1>1, <1>4, PopsOf
  <2>2. X(0) \in Nat /\ X(1) \in Nat /\ X(2) \in Nat
    BY <1>1, <2>1
  <2>3. MemoryRegions(name, s.stack) = {<<X(0), X(2)>>}
    BY <1>4 DEF MemoryRegions
  <2>4. X(2) # 0 => X(0) + X(2) <= e
    BY <1>1, <2>3 DEF Behind
  <2> DEFINE a == X(0)
             b == X(1)
             c == X(2)
  <2> HIDE DEF a, b, c
  <2>5. a \in Nat /\ b \in Nat /\ c \in Nat /\ (c # 0 => a + c <= e) /\ ClampU64(b) \in Nat
    BY <2>2, <2>4, ClampNat DEF a, b, c
  <2>6. CASE name = "CALLDATACOPY"
    <3>1. Exec(name, n, s, answer) = CopyTo(s, 3, a, contract.Input, ClampU64(b), c)
      BY <2>6 DEF Exec, Pushes, Unary, Binary, Staking, Gates, a, b, c
    <3>2. Ran(s, Exec(name, n, s, answer), e) /\ Exec(name, n, s, answer).pc = s.pc
      <4>1. Copying(s, e, 3, a, contract.Input, ClampU64(b), c)
        BY <1>1, <1>3, <2>1, <2>5 DEF Copying
      <4>2. QED
        BY <3>1, <4>1, CopyToRan
    <3>3. QED
      BY <1>1, <1>2, <3>2, StaysPut
  <2>7. CASE name = "CODECOPY"
    <3>1. Exec(name, n, s, answer) = CopyTo(s, 3, a, contract.Code, ClampU64(b), c)
      BY <2>7 DEF Exec, Pushes, Unary, Binary, Staking, Gates, a, b, c
    <3>2. Ran(s, Exec(name, n, s, answer), e) /\ Exec(name, n, s, answer).pc = s.pc
      <4>1. Copying(s, e, 3, a, contract.Code, ClampU64(b), c)
        BY <1>1, <1>3, <2>1, <2>5 DEF Copying
      <4>2. QED
        BY <3>1, <4>1, CopyToRan
    <3>3. QED
      BY <1>1, <1>2, <3>2, StaysPut
  <2>8. CASE name = "RETURNDATACOPY"
    <3>1. Exec(name, n, s, answer) = Returndatacopy(s, a, b, c)
      BY <2>8 DEF Exec, Pushes, Unary, Binary, Staking, Gates, a, b, c
    <3>2. Returndatacopy(s, a, b, c) \in {Err(s, "ErrGasUintOverflow"), Err(s, "ErrReturnDataOutOfBounds"),
                                          CopyTo(s, 3, a, s.returnData, b, c)}
      BY DEF Returndatacopy
    <3>3. Ran(s, CopyTo(s, 3, a, s.returnData, b, c), e) /\ CopyTo(s, 3, a, s.returnData, b, c).pc = s.pc
      <4>1. Copying(s, e, 3, a, s.returnData, b, c)
        BY <1>1, <1>3, <2>1, <2>5 DEF Copying
      <4>2. QED
        BY <4>1, CopyToRan
    <3>4. /\ Ran(s, Err(s, "ErrGasUintOverflow"), e) /\ Err(s, "ErrGasUintOverflow").pc = s.pc
          /\ Ran(s, Err(s, "ErrReturnDataOutOfBounds"), e) /\ Err(s, "ErrReturnDataOutOfBounds").pc = s.pc
      BY <1>1, ErrRan DEF Errors
    <3>5. Ran(s, Exec(name, n, s, answer), e) /\ Exec(name, n, s, answer).pc = s.pc
      BY <3>1, <3>2, <3>3, <3>4
    <3>6. QED
      BY <1>1, <1>2, <3>5, StaysPut
  <2>9. QED
    BY <1>4, <2>6, <2>7, <2>8
<1>5. CASE name = "EXTCODECOPY"
  <2>1. 4 <= Len(s.stack)
    BY <1>1, <1>5, PopsOf
  <2>2. X(1) \in Nat /\ X(2) \in Nat /\ X(3) \in Nat
    BY <1>1, <2>1
  <2>3. MemoryRegions(name, s.stack) = {<<X(1), X(3)>>}
    BY <1>5 DEF MemoryRegions
  <2>4. X(3) # 0 => X(1) + X(3) <= e
    BY <1>1, <2>3 DEF Behind
  <2> DEFINE a == X(1)
             b == X(2)
             c == X(3)
  <2> HIDE DEF a, b, c
  <2>5. a \in Nat /\ b \in Nat /\ c \in Nat /\ (c # 0 => a + c <= e) /\ ClampU64(b) \in Nat
    BY <2>2, <2>4, ClampNat DEF a, b, c
  <2>6. Exec(name, n, s, answer) = CopyTo(s, 4, a, answer.data, ClampU64(b), c)
    BY <1>5 DEF Exec, Pushes, Unary, Binary, Staking, Gates, a, b, c
  <2>7. Ran(s, Exec(name, n, s, answer), e) /\ Exec(name, n, s, answer).pc = s.pc
    <3>1. Copying(s, e, 4, a, answer.data, ClampU64(b), c)
      BY <1>1, <1>3, <2>1, <2>5 DEF Copying
    <3>2. QED
      BY <2>6, <3>1, CopyToRan
  <2>8. QED
    BY <1>1, <1>2, <2>7, StaysPut
<1>6. QED
  BY <1>4, <1>5 DEF CopyOps

\* The first two operands as a region.
LEMMA RegionGo ==
    ASSUME NEW name \in {"KECCAK256", "LOG", "RETURN", "REVERT"}, NEW n, NEW s, NEW answer, NEW e,
           Executes(name, n, s, answer, e)
    PROVE  Leads(name, n, s, Exec(name, n, s, answer), e)
<1>1. /\ Ready(s) /\ e \in Nat /\ s \in Scope /\ s.stack \in Seq(Word) /\ Len(s.stack) \in Nat
      /\ Ran(s, s, e) /\ Whole(s.mem) /\ Pops(name, n) <= Len(s.stack)
      /\ \A i \in Nat : i < Len(s.stack) => Peek(s.stack, i) \in Word /\ Peek(s.stack, i) \in Nat
      /\ Behind(e, MemoryRegions(name, s.stack))
  BY StartFacts
<1>2. name \notin Jumps /\ name # "PUSH"
  BY DEF Jumps
<1> DEFINE a == Peek(s.stack, 0)
           b == Peek(s.stack, 1)
           m == Expand(s.mem, a, b)
<1>3. 2 <= Len(s.stack) /\ (name = "LOG" => n \in Nat /\ 2 + n <= Len(s.stack))
  <2>1. CASE name = "LOG"
    <3>1. n \in 0 .. 4 /\ Pops(name, n) = 2 + n
      BY <2>1 DEF Executes, Pops
    <3>2. QED
      BY <1>1, <3>1
  <2>2. CASE name # "LOG"
    BY <1>1, <2>2, PopsOf
  <2>3. QED
    BY <2>1, <2>2
<1>4. a \in Nat /\ b \in Nat
  BY <1>1, <1>3
<1>5. MemoryRegions(name, s.stack) = {<<a, b>>}
  BY DEF MemoryRegions
<1>6. b # 0 => a + b <= e
  BY <1>1, <1>5 DEF Behind
<1> HIDE DEF a, b
<1>7. Covered(s.mem, m, e)
  BY <1>1, <1>4, <1>6, ExpandCovered
<1>8. CASE name = "KECCAK256"
  <2> DEFINE r == Replace(s, 2, answer.word)
  <2>1. answer.word \in Word
    BY AnswerTypes DEF Executes
  <2>2. Ran(s, r, e) /\ r.pc = s.pc /\ r.mem = s.mem
    BY <1>1, <1>3, <2>1, ReplaceRan
  <2>3. Exec(name, n, s, answer) = [r EXCEPT !.mem = Expand(r.mem, a, b)]
    BY <1>8 DEF Exec, Pushes, Unary, Binary, Staking, Gates, a, b
  <2> HIDE DEF r
  <2>4. Exec(name, n, s, answer) = [r EXCEPT !.mem = m]
    BY <2>2, <2>3
  <2> HIDE DEF m
  <2>5. Ran(s, [r EXCEPT !.mem = m], e) /\ [r EXCEPT !.mem = m].pc = r.pc
    BY <1>1, <1>7, <2>2, MemRan
  <2>6. QED
    BY <1>1, <1>2, <2>2, <2>4, <2>5, StaysPut
<1>9. CASE name = "LOG"
  <2> DEFINE r == Pop(s, 2 + n)
  <2>1. 2 + n \in Nat /\ 2 + n <= Len(s.stack)
    BY <1>3, <1>9
  <2>2. Ran(s, r, e) /\ r.pc = s.pc /\ r.mem = s.mem
    BY <1>1, <2>1, PopRan
  <2>3. Exec(name, n, s, answer) \in {Err(s, "ErrStaticStateChange"), [r EXCEPT !.mem = Expand(r.mem, a, b)]}
    BY <1>9 DEF Exec, Pushes, Unary, Binary, Staking, Gates, a, b
  <2> HIDE DEF r
  <2>4. Exec(name, n, s, answer) \in {Err(s, "ErrStaticStateChange"), [r EXCEPT !.mem = m]}
    BY <2>2, <2>3
  <2> HIDE DEF m
  <2>5. Ran(s, [r EXCEPT !.mem = m], e) /\ [r EXCEPT !.mem = m].pc = r.pc
    BY <1>1, <1>7, <2>2, MemRan
  <2>6. Ran(s, Err(s, "ErrStaticStateChange"), e) /\ Err(s, "ErrStaticStateChange").pc = s.pc
    BY <1>1, ErrRan DEF Errors
  <2>7. QED
    BY <1>1, <1>2, <2>2, <2>4, <2>5, <2>6, StaysPut
<1>10. CASE name \in {"RETURN", "REVERT"}
  <2> DEFINE r == Pop(s, 2)
             g == MemGet(s.mem, a, b)
             v == (name = "REVERT")
             t == [r EXCEPT !.mem = m, !.ret = g, !.reverted = v, !.stop = TRUE]
  <2>1. Ran(s, r, e) /\ r.pc = s.pc /\ r.mem = s.mem
    BY <1>1, <1>3, PopRan
  <2>2. g \in Seq(Byte) /\ m \in Seq(Byte)
    BY <1>1, <1>4, <1>7, MemGetData DEF Covered, Whole
  <2>3. Exec(name, n, s, answer) = Halt(s, v)
    BY <1>10 DEF Exec, Pushes, Unary, Binary, Staking, Gates
  <2>4. Halt(s, v) = [r EXCEPT !.mem = Expand(r.mem, a, b), !.ret = g, !.reverted = v, !.stop = TRUE]
    BY DEF Halt, a, b
  <2> HIDE DEF r, g, m
  <2>5. r \in Scope
    BY <2>1 DEF Ran
  <2>6. Halt(s, v) = t
    BY <2>1, <2>4 DEF m
  <2>7. t \in Scope /\ t.pc = r.pc /\ t.mem = m /\ t.stack = r.stack /\ t.returnData = r.returnData
    BY <2>2, <2>5 DEF Scope
  <2> HIDE DEF t
  <2>8. Ran(s, t, e)
    BY <1>7, <2>1, <2>7 DEF Ran
  <2>9. QED
    BY <1>1, <1>2, <2>1, <2>3, <2>6, <2>7, <2>8, StaysPut
<1>11. QED
  BY <1>8, <1>9, <1>10

\* Executing MLOAD, MSTORE and MSTORE8.
LEMMA WordAccessGo ==
    ASSUME NEW name \in {"MLOAD", "MSTORE", "MSTORE8"}, NEW n, NEW s, NEW answer, NEW e,
           Executes(name, n, s, answer, e)
    PROVE  Leads(name, n, s, Exec(name, n, s, answer), e)
<1>1. /\ Ready(s) /\ e \in Nat /\ s \in Scope /\ s.stack \in Seq(Word) /\ Len(s.stack) \in Nat
      /\ Ran(s, s, e) /\ Whole(s.mem) /\ Pops(name, n) <= Len(s.stack)
      /\ \A i \in Nat : i < Len(s.stack) => Peek(s.stack, i) \in Word /\ Peek(s.stack, i) \in Nat
      /\ Behind(e, MemoryRegions(name, s.stack))
  BY StartFacts
<1>2. name \notin Jumps /\ name # "PUSH" /\ WordBytes \in Nat \ {0}
  BY WordsAssumption DEF Jumps
<1> DEFINE a == Peek(s.stack, 0)
           b == Peek(s.stack, 1)
<1>3. 1 <= Len(s.stack) /\ (name # "MLOAD" => 2 <= Len(s.stack))
  BY <1>1, PopsOf
<1>4. a \in Nat /\ (name # "MLOAD" => b \in Word)
  BY <1>1, <1>3
<1>5. MemoryRegions(name, s.stack) = {<<a, IF name = "MSTORE8" THEN 1 ELSE WordBytes>>}
  BY DEF MemoryRegions
<1>6. a + (IF name = "MSTORE8" THEN 1 ELSE WordBytes) <= e
  BY <1>1, <1>2, <1>5 DEF Behind
<1> HIDE DEF a, b
<1>7. CASE name = "MLOAD"
  <2> DEFINE m == Expand(s.mem, a, WordBytes)
             g == MemGet(s.mem, a, WordBytes)
             x == FromBytes(g)
             r == Replace(s, 1, x)
  <2>1. Covered(s.mem, m, e)
    BY <1>1, <1>2, <1>4, <1>6, <1>7, ExpandCovered
  <2>2. g \in Seq(Byte) /\ Len(g) = WordBytes
    BY <1>1, <1>2, <1>4, MemGetData
  <2>3. Exec(name, n, s, answer) = [r EXCEPT !.mem = Expand(r.mem, a, WordBytes)]
    BY <1>7 DEF Exec, Pushes, Unary, Binary, Staking, Gates, a
  <2> HIDE DEF g
  <2>4. x \in Word
    BY <1>2, <2>2, FromBytesWord
  <2> HIDE DEF x
  <2>5. Ran(s, r, e) /\ r.pc = s.pc /\ r.mem = s.mem
    BY <1>1, <1>3, <2>4, ReplaceRan
  <2> HIDE DEF r
  <2>6. Exec(name, n, s, answer) = [r EXCEPT !.mem = m]
    BY <2>3, <2>5
  <2> HIDE DEF m
  <2>7. Ran(s, [r EXCEPT !.mem = m], e) /\ [r EXCEPT !.mem = m].pc = r.pc
    BY <1>1, <2>1, <2>5, MemRan
  <2>8. QED
    BY <1>1, <1>2, <2>5, <2>6, <2>7, StaysPut
<1>8. CASE name # "MLOAD"
  <2> DEFINE c == IF name = "MSTORE8" THEN <<b % Base>> ELSE ToBytes(b)
             m == MemSet(s.mem, a, c)
             r == Pop(s, 2)
  <2>1. c \in Seq(Byte) /\ Len(c) = IF name = "MSTORE8" THEN 1 ELSE WordBytes
    <3>1. b \in Word
      BY <1>4, <1>8
    <3>2. b % Base \in Byte
      <4>1. b \in Int /\ Base \in Nat /\ Base > 0
        BY <3>1, ModulusFacts DEF Word
      <4>2. QED
        BY <4>1, ModRange DEF Byte
    <3>3. <<b % Base>> \in Seq(Byte) /\ Len(<<b % Base>>) = 1
      <4> DEFINE y == b % Base
      <4> HIDE DEF y
      <4>1. <<y>> \in Seq(Byte) /\ Len(<<y>>) = 1
        BY <3>2 DEF y
      <4>2. QED
        BY <4>1 DEF y
    <3>4. QED
      BY <3>1, <3>3, ToBytesData
  <2>2. Exec(name, n, s, answer) = [r EXCEPT !.mem = MemSet(r.mem, a, c)]
    BY <1>8 DEF Exec, Pushes, Unary, Binary, Staking, Gates, a, b
  <2> HIDE DEF c
  <2>3. Covered(s.mem, m, e)
    BY <1>1, <1>4, <1>6, <2>1, MemSetCovered
  <2>4. Ran(s, r, e) /\ r.pc = s.pc /\ r.mem = s.mem
    BY <1>1, <1>3, <1>8, PopRan
  <2> HIDE DEF r
  <2>5. Exec(name, n, s, answer) = [r EXCEPT !.mem = m]
    BY <2>2, <2>4
  <2> HIDE DEF m
  <2>6. Ran(s, [r EXCEPT !.mem = m], e) /\ [r EXCEPT !.mem = m].pc = r.pc
    BY <1>1, <2>3, <2>4, MemRan
  <2>7. QED
    BY <1>1, <1>2, <2>4, <2>5, <2>6, StaysPut
<1>9. QED
  BY <1>7, <1>8

\* jumpTo goes to a target of the code or fails where it is.
LEMMA JumpToRan ==
    ASSUME NEW s, NEW t, NEW e \in Nat, Ran(s, t, e), t.pc = s.pc, NEW d \in Nat
    PROVE  /\ Ran(s, JumpTo(t, d), e)
           /\ \/ JumpTo(t, d).err # "none" /\ JumpTo(t, d).pc = s.pc
              \/ JumpTo(t, d).pc \in AnalyzeJumpDests(contract.Code)
<1>1. t \in Scope
  BY DEF Ran
<1>2. CASE d < U64 /\ d \in AnalyzeJumpDests(contract.Code)
  <2> DEFINE u == [t EXCEPT !.pc = d]
  <2>1. JumpTo(t, d) = u
    BY <1>2 DEF JumpTo
  <2>2. u \in Scope /\ u.pc = d /\ u.mem = t.mem /\ u.stack = t.stack /\ u.returnData = t.returnData
    BY <1>1 DEF Scope
  <2> HIDE DEF u
  <2>3. QED
    BY <1>2, <2>1, <2>2 DEF Ran
<1>3. CASE ~(d < U64 /\ d \in AnalyzeJumpDests(contract.Code))
  <2>1. JumpTo(t, d) = Err(t, "ErrBadJumpDest") /\ "ErrBadJumpDest" \in Errors /\ "ErrBadJumpDest" # "none"
    BY <1>3 DEF JumpTo, Errors
  <2>2. QED
    BY <2>1, ErrRan
<1>4. QED
  BY <1>2, <1>3

\* Executing JUMP and JUMPI.
LEMMA JumpsGo ==
    ASSUME NEW name \in Jumps, NEW n, NEW s, NEW answer, NEW e, Executes(name, n, s, answer, e)
    PROVE  Leads(name, n, s, Exec(name, n, s, answer), e)
<1>1. /\ Ready(s) /\ e \in Nat /\ s \in Scope /\ s.stack \in Seq(Word) /\ Len(s.stack) \in Nat
      /\ Ran(s, s, e) /\ Pops(name, n) <= Len(s.stack) /\ s.pc \in Nat /\ s.err = "none"
      /\ \A i \in Nat : i < Len(s.stack) => Peek(s.stack, i) \in Word /\ Peek(s.stack, i) \in Nat
  BY StartFacts DEF Executes, Scope
<1> DEFINE d == Peek(s.stack, 0)
           k == IF name = "JUMP" THEN 1 ELSE 2
           r == Pop(s, k)
           v == r.pc + 1
           u == [r EXCEPT !.pc = v]
<1>2. name \in {"JUMP", "JUMPI"} /\ k \in Nat /\ k <= Len(s.stack) /\ 1 <= Len(s.stack)
  BY <1>1, PopsOf DEF Jumps
<1>3. d \in Nat
  BY <1>1, <1>2
<1>4. Exec(name, n, s, answer) \in {JumpTo(r, d), u}
  BY <1>2 DEF Exec, Pushes, Unary, Binary, Staking, Gates
<1> HIDE DEF d, k
<1>5. Ran(s, r, e) /\ r.pc = s.pc /\ r.err = s.err
  BY <1>1, <1>2, PopRan
<1> HIDE DEF r
<1>6. r \in Scope
  BY <1>5 DEF Ran
<1>7. v \in Nat /\ v = s.pc + 1
  BY <1>1, <1>5
<1> HIDE DEF v
<1>7a. u \in Scope /\ u.pc = v /\ u.err = r.err /\ u.mem = r.mem /\ u.stack = r.stack /\ u.returnData = r.returnData
  BY <1>6, <1>7 DEF Scope
<1> HIDE DEF u
<1>8. Leads(name, n, s, u, e)
  BY <1>1, <1>5, <1>7, <1>7a DEF Ran, Leads
<1>9. Leads(name, n, s, JumpTo(r, d), e)
  <2> DEFINE j == JumpTo(r, d)
  <2>1. Ran(s, j, e) /\ ((j.err # "none" /\ j.pc = s.pc) \/ j.pc \in AnalyzeJumpDests(contract.Code))
    BY <1>1, <1>3, <1>5, JumpToRan
  <2>2. j.err # "none" => j.pc = s.pc
    BY <1>1, <1>5 DEF JumpTo, Err
  <2> HIDE DEF j
  <2>3. Leads(name, n, s, j, e)
    BY <2>1, <2>2 DEF Leads
  <2>4. QED
    BY <2>3 DEF j
<1>10. QED
  BY <1>4, <1>8, <1>9

\* Executing DUP and SWAP.
LEMMA DupSwapGo ==
    ASSUME NEW name \in {"DUP", "SWAP"}, NEW n, NEW s, NEW answer, NEW e, Executes(name, n, s, answer, e)
    PROVE  Leads(name, n, s, Exec(name, n, s, answer), e)
<1>1. /\ Ready(s) /\ e \in Nat /\ s \in Scope /\ s.stack \in Seq(Word) /\ Len(s.stack) \in Nat
      /\ Ran(s, s, e) /\ Pops(name, n) <= Len(s.stack)
      /\ \A i \in Nat : i < Len(s.stack) => Peek(s.stack, i) \in Word /\ Peek(s.stack, i) \in Nat
  BY StartFacts
<1>2. n \in 1 .. 16 /\ name \notin Jumps /\ name # "PUSH"
  BY DEF Executes, Jumps
<1>3. CASE name = "DUP"
  <2> DEFINE x == Peek(s.stack, n - 1)
  <2>1. n <= Len(s.stack)
    BY <1>1, <1>3 DEF Pops
  <2>2. x \in Word
    BY <1>1, <1>2, <2>1
  <2>3. Exec(name, n, s, answer) = Push(s, x)
    BY <1>3 DEF Exec, Pushes, Unary, Binary, Staking, Gates
  <2> HIDE DEF x
  <2>4. Ran(s, Push(s, x), e) /\ Push(s, x).pc = s.pc
    BY <1>1, <2>2, PushRan
  <2>5. QED
    BY <1>1, <1>2, <2>3, <2>4, StaysPut
<1>4. CASE name = "SWAP"
  <2> DEFINE st == s.stack
             top == Len(st)
             p == [st EXCEPT ![top] = st[top - n]]
             q == [p EXCEPT ![top - n] = st[top]]
  <2>1. n + 1 <= top /\ top \in Nat
    BY <1>1, <1>4 DEF Pops
  <2>2. top \in 1 .. top /\ top - n \in 1 .. top
    BY <1>2, <2>1
  <2>3. st[top] \in Word /\ st[top - n] \in Word
    BY <1>1, <2>2, ElementOfSeq
  <2>4. Exec(name, n, s, answer) = Swap(s, n)
    BY <1>4 DEF Exec, Pushes, Unary, Binary, Staking, Gates
  <2>5. Swap(s, n) = [s EXCEPT !.stack = q]
    BY <1>1 DEF Swap, Scope
  <2>6. p \in Seq(Word) /\ Len(p) = top
    BY <1>1, <2>2, <2>3, ExceptSeq
  <2> HIDE DEF p
  <2>7. q \in Seq(Word) /\ Len(q) = top
    BY <2>2, <2>3, <2>6, ExceptSeq
  <2>8. Len(q) <= MaxStack
    BY <1>1, <2>7 DEF Ready
  <2> HIDE DEF q
  <2>9. Ran(s, [s EXCEPT !.stack = q], e) /\ [s EXCEPT !.stack = q].pc = s.pc
    BY <1>1, <2>7, <2>8, StackRan
  <2>10. QED
    BY <1>1, <1>2, <2>4, <2>5, <2>9, StaysPut
<1>5. QED
  BY <1>3, <1>4

\* Executing PUSH.
LEMMA PushGo ==
    ASSUME NEW n, NEW s, NEW answer, NEW e, Executes("PUSH", n, s, answer, e)
    PROVE  Leads("PUSH", n, s, Exec("PUSH", n, s, answer), e)
<1>1. /\ Ready(s) /\ e \in Nat /\ s \in Scope /\ s.pc \in Nat /\ s.err = "none" /\ Ran(s, s, e)
  BY StartFacts DEF Executes, Scope
<1>2. n \in 1 .. WordBytes /\ n \in Nat /\ n <= WordBytes /\ WordBytes \in Nat /\ Len(s.stack) < MaxStack
  BY WordsAssumption DEF Executes
<1> DEFINE code == contract.Code
           c == [i \in 1 .. n |-> IF s.pc + i < Len(code) THEN code[s.pc + i + 1] ELSE 0]
           x == FromBytes(c)
           v == s.pc + n
           t == [s EXCEPT !.pc = v]
<1>3. code \in Seq(Byte) /\ Len(code) \in Nat /\ 0 \in Byte /\ \A i \in 1 .. Len(code) : code[i] \in Byte
  <2>1. code \in Seq(Byte) /\ Len(code) \in Nat
    BY ContractData, DataLen DEF Executes, EnergyMetered
  <2>2. 0 \in Byte
    BY ModulusFacts DEF Byte
  <2>3. QED
    BY <2>1, <2>2, ElementOfSeq
<1>4. c \in Seq(Byte) /\ Len(c) = n
  <2>1. \A i \in 1 .. n : s.pc + i < Len(code) => s.pc + i + 1 \in 1 .. Len(code)
    BY <1>1, <1>2, <1>3
  <2>2. c \in [1 .. n -> Byte]
    BY <1>3, <2>1
  <2> HIDE DEF c
  <2>3. QED
    BY <1>2, <2>2
<1>5. PushData(s.pc, n) = x
  BY DEF PushData
<1> HIDE DEF c
<1>6. x \in Word
  BY <1>2, <1>4, FromBytesWord
<1>7. Exec("PUSH", n, s, answer) = Push(t, x)
  BY <1>5 DEF Exec, Pushes, Unary, Binary, Staking, Gates
<1> HIDE DEF x
<1>7a. v \in Nat
  BY <1>1, <1>2
<1> HIDE DEF v
<1>8. t \in Scope /\ t.pc = v /\ t.err = s.err /\ t.mem = s.mem /\ t.stack = s.stack /\ t.returnData = s.returnData
  BY <1>1, <1>7a DEF Scope
<1> HIDE DEF t
<1>9. Ran(s, t, e)
  BY <1>1, <1>8 DEF Ran
<1>10. Ran(s, Push(t, x), e) /\ Push(t, x).pc = s.pc + n /\ Push(t, x).err = "none"
  BY <1>1, <1>2, <1>6, <1>8, <1>9, PushRan DEF v
<1>11. "PUSH" \notin Jumps
  BY DEF Jumps
<1>12. QED
  BY <1>7, <1>10, <1>11 DEF Leads

\* Every executor.
LEMMA ExecGoes ==
    ASSUME NEW name, NEW n, NEW s, NEW answer, NEW e, Executes(name, n, s, answer, e),
           name \notin Calls \cup Creates
    PROVE  Leads(name, n, s, Exec(name, n, s, answer), e)
<1>1. name \in Names \cup {"PUSH", "DUP", "SWAP", "LOG"}
  BY DEF Executes
<1>2. \/ name \in Pushes \/ name \in Unary \/ name \in Binary \/ name \in CopyOps \/ name \in Others
      \/ name \in Staking \/ name \in {"PUSH", "DUP", "SWAP", "LOG"}
  BY <1>1, NamesSplit
<1>3. CASE name \in Pushes
  BY <1>3, PushesGo
<1>4. CASE name \in Unary
  BY <1>4, UnaryGo
<1>5. CASE name \in Binary
  BY <1>5, BinaryGo
<1>6. CASE name \in CopyOps
  BY <1>6, CopiesGo
<1>7. CASE name \in Staking
  BY <1>7, StakingGo
<1>8. CASE name \in {"PUSH", "DUP", "SWAP", "LOG"}
  BY <1>8, PushGo, DupSwapGo, RegionGo
<1>9. CASE name \in Others
  <2>1. \/ name \in {"STOP", "JUMPDEST", "POP", "ADDMOD", "MULMOD", "SSTORE"}
        \/ name \in {"KECCAK256", "LOG", "RETURN", "REVERT"} \/ name \in {"MLOAD", "MSTORE", "MSTORE8"}
        \/ name \in Jumps \/ name \in Staking \cup {"INVALID"}
    BY <1>9 DEF Others, Jumps
  <2>2. QED
    BY <2>1, SimpleGo, RegionGo, WordAccessGo, JumpsGo, StakingGo
<1>10. QED
  BY <1>2, <1>3, <1>4, <1>5, <1>6, <1>7, <1>8, <1>9

-----------------------------------------------------------------------------
(* Calls and creations, seen from the calling frame.                       *)

\* A child returns data.
LEMMA ChildData == ASSUME NEW child \in Children PROVE IsData(child.data)
<1>1. \A r \in Replies : IsData(r)
  BY InterpreterAssumption
<1>2. child.data \in Replies
  BY DEF Children
<1>3. QED
  BY <1>1, <1>2

\* writeReturn writes no more than the buffer takes.
LEMMA WriteReturnCovered ==
    ASSUME NEW mem, Whole(mem), NEW off \in Nat, NEW data \in Seq(Byte), NEW size \in Nat, NEW e \in Nat,
           size # 0 => off + size <= e
    PROVE  Covered(mem, WriteReturn(mem, off, data, size), e)
<1>1. Len(data) \in Nat
  BY LenProperties
<1>2. CASE Len(data) = 0 \/ size = 0
  <2>1. WriteReturn(mem, off, data, size) = mem /\ MemWords(mem) <= MemWords(mem)
    BY <1>2, WholeLen DEF WriteReturn
  <2>2. QED
    BY <2>1 DEF Covered
<1>3. CASE ~(Len(data) = 0 \/ size = 0)
  <2> DEFINE k == Min({Len(data), size})
             b == SubSeq(data, 1, k)
  <2>1. k \in Nat /\ k <= Len(data) /\ k <= size
    BY <1>1, Min2
  <2>2. WriteReturn(mem, off, data, size) = MemSet(mem, off, b)
    BY <1>3 DEF WriteReturn
  <2> HIDE DEF k
  <2>3. \A i \in 1 .. k : data[i] \in Byte
    BY <1>1, <2>1, ElementOfSeq
  <2>4. b \in Seq(Byte) /\ Len(b) = IF 1 <= k THEN k - 1 + 1 ELSE 0
    BY <2>1, <2>3, SubSeqProperties
  <2> HIDE DEF b
  <2>5. Len(b) # 0 => off + Len(b) <= e
    BY <1>3, <2>1, <2>4
  <2>6. QED
    BY <2>2, <2>4, <2>5, MemSetCovered
<1>4. QED
  BY <1>2, <1>3

\* The buffers of a call, under the names the executor uses.
LEMMA CallRegions ==
    ASSUME NEW name \in Calls, NEW st
    PROVE  MemoryRegions(name, st) = {<<CallOperand(name, st, 3), CallOperand(name, st, 4)>>,
                                      <<CallOperand(name, st, 5), CallOperand(name, st, 6)>>}
<1>1. CASE name \in {"CALL", "CALLCODE"}
  BY <1>1 DEF MemoryRegions, CallBuffers, CallOperand
<1>2. CASE name \in {"DELEGATECALL", "STATICCALL"}
  BY <1>2 DEF MemoryRegions, CallBuffers, CallOperand
<1>3. QED
  BY <1>1, <1>2 DEF Calls

\* A call that has come back.
LEMMA ReturnedGo ==
    ASSUME NEW name \in Calls, NEW n, NEW s, NEW answer, NEW e, Executes(name, n, s, answer, e),
           TableRow[2] = Pops(name, n), NEW child \in Children
    PROVE  Leads(name, n, s, Returned(name, s, child), e)
<1>1. /\ Ready(s) /\ e \in Nat /\ s \in Scope /\ s.stack \in Seq(Word) /\ Len(s.stack) \in Nat
      /\ Ran(s, s, e) /\ Whole(s.mem) /\ Pops(name, n) <= Len(s.stack)
      /\ \A i \in Nat : i < Len(s.stack) => Peek(s.stack, i) \in Word /\ Peek(s.stack, i) \in Nat
      /\ Behind(e, MemoryRegions(name, s.stack))
  BY StartFacts
<1>2. name \notin Jumps /\ name # "PUSH"
  BY DEF Calls, Jumps
<1> DEFINE X(i) == CallOperand(name, s.stack, i)
           k == Pops(name, n)
<1>3. k \in Nat /\ k <= Len(s.stack)
  <2>1. k = 7 \/ k = 6
    BY TableOthers DEF Calls, Pops
  <2>2. QED
    BY <1>1, <2>1
<1>4. X(3) \in Nat /\ X(4) \in Nat /\ X(5) \in Nat /\ X(6) \in Nat
  <2>1. CASE name \in {"CALL", "CALLCODE"}
    <3>1. 7 <= Len(s.stack)
      BY <1>1, <2>1, TableOthers DEF Pops
    <3>2. QED
      BY <1>1, <2>1, <3>1 DEF CallOperand
  <2>2. CASE name \in {"DELEGATECALL", "STATICCALL"}
    <3>1. 6 <= Len(s.stack)
      BY <1>1, <2>2, TableOthers DEF Pops
    <3>2. QED
      BY <1>1, <2>2, <3>1 DEF CallOperand
  <2>3. QED
    BY <2>1, <2>2 DEF Calls
<1>5. (X(4) # 0 => X(3) + X(4) <= e) /\ (X(6) # 0 => X(5) + X(6) <= e)
  <2>1. MemoryRegions(name, s.stack) = {<<X(3), X(4)>>, <<X(5), X(6)>>}
    BY CallRegions
  <2> HIDE DEF X
  <2>2. QED
    BY <1>1, <2>1 DEF Behind
<1> DEFINE args == Expand(s.mem, X(3), X(4))
           m == WriteReturn(args, X(5), child.data, X(6))
           r == Pop(s, k)
           back == [r EXCEPT !.returnData = child.data, !.mem = m]
           x == Flag(child.end = "ok")
<1>6. Returned(name, s, child) = Push(back, x)
  BY DEF Returned
<1> HIDE DEF X, k
<1>7. Covered(s.mem, args, e) /\ Whole(args)
  BY <1>1, <1>4, <1>5, ExpandCovered
<1> HIDE DEF args
<1>8. IsData(child.data) /\ child.data \in Seq(Byte)
  BY ChildData, DataLen
<1>9. Covered(args, m, e)
  BY <1>1, <1>4, <1>5, <1>7, <1>8, WriteReturnCovered
<1>10. Covered(s.mem, m, e) /\ m \in Seq(Byte)
  BY <1>1, <1>7, <1>9, CoveredTrans DEF Covered, Whole
<1> HIDE DEF m
<1>11. Ran(s, r, e) /\ r.pc = s.pc
  BY <1>1, <1>3, PopRan
<1> HIDE DEF r
<1>12. r \in Scope
  BY <1>11 DEF Ran
<1>13. back \in Scope /\ back.pc = r.pc /\ back.mem = m /\ back.stack = r.stack /\ back.returnData = child.data
  BY <1>8, <1>10, <1>12 DEF Scope
<1> HIDE DEF back
<1>14. Ran(s, back, e)
  BY <1>8, <1>10, <1>11, <1>13 DEF Ran
<1>15. x \in Word
  BY FlagWord
<1> HIDE DEF x
<1>16. Ran(s, Push(back, x), e) /\ Push(back, x).pc = back.pc
  BY <1>1, <1>14, <1>15, PushRan
<1>17. QED
  BY <1>1, <1>2, <1>6, <1>11, <1>13, <1>16, StaysPut

\* A creation that has come back.
LEMMA CreatedGo ==
    ASSUME NEW name \in Creates, NEW n, NEW s, NEW answer, NEW e, Executes(name, n, s, answer, e),
           TableRow[2] = Pops(name, n), NEW child \in Children, NEW paid
    PROVE  Leads(name, n, s, Created(s, child, paid, Context.CREATED), e)
<1>1. /\ Ready(s) /\ e \in Nat /\ s \in Scope /\ s.stack \in Seq(Word) /\ Len(s.stack) \in Nat
      /\ Ran(s, s, e) /\ Whole(s.mem) /\ Pops(name, n) <= Len(s.stack)
      /\ \A i \in Nat : i < Len(s.stack) => Peek(s.stack, i) \in Word /\ Peek(s.stack, i) \in Nat
      /\ Behind(e, MemoryRegions(name, s.stack))
  BY StartFacts
<1>2. name \notin Jumps /\ name # "PUSH"
  BY DEF Creates, Jumps
<1> DEFINE k == Pops(name, n)
           a == Peek(s.stack, 1)
           b == Peek(s.stack, 2)
<1>3. k \in Nat /\ k <= Len(s.stack) /\ 3 <= Len(s.stack)
  <2>1. k = 3 \/ k = 4
    BY TableOthers DEF Creates, Pops
  <2>2. QED
    BY <1>1, <2>1
<1>4. a \in Nat /\ b \in Nat
  BY <1>1, <1>3
<1>5. MemoryRegions(name, s.stack) = {<<a, b>>}
  BY DEF MemoryRegions, Creates
<1>6. b # 0 => a + b <= e
  BY <1>1, <1>5 DEF Behind
<1> DEFINE r == Pop(s, k)
           m == Expand(s.mem, a, b)
           d == IF child.end = "reverted" THEN child.data ELSE <<>>
           ran == [r EXCEPT !.mem = m, !.returnData = d]
           x == IF child.end = "ok" /\ paid THEN AddrWord(Context.CREATED) ELSE 0
<1>7. Ran(s, r, e) /\ r.pc = s.pc /\ r.mem = s.mem
  BY <1>1, <1>3, PopRan
<1>8. Created(s, child, paid, Context.CREATED) = Push([r EXCEPT !.mem = Expand(r.mem, a, b), !.returnData = d], x)
  BY DEF Created
<1> HIDE DEF a, b, k, r, x, d
<1>9. Created(s, child, paid, Context.CREATED) = Push(ran, x)
  BY <1>7, <1>8
<1>10. Covered(s.mem, m, e) /\ m \in Seq(Byte)
  BY <1>1, <1>4, <1>6, ExpandCovered DEF Covered, Whole
<1> HIDE DEF m
<1>11. IsData(d) /\ d \in Seq(Byte) /\ r \in Scope
  BY <1>7, ChildData, EmptyData DEF d, Ran, IsData
<1>12. ran \in Scope /\ ran.pc = r.pc /\ ran.mem = m /\ ran.stack = r.stack /\ ran.returnData = d
  BY <1>10, <1>11 DEF Scope
<1> HIDE DEF ran
<1>13. Ran(s, ran, e)
  BY <1>7, <1>10, <1>11, <1>12 DEF Ran
<1>14. x \in Word
  <2>1. AddrWord(Context["CREATED"]) \in Word
    BY ContextAssumption
  <2>2. QED
    BY <2>1, ModulusFacts DEF x
<1>15. Ran(s, Push(ran, x), e) /\ Push(ran, x).pc = ran.pc
  BY <1>1, <1>13, <1>14, PushRan
<1>16. QED
  BY <1>1, <1>2, <1>7, <1>9, <1>12, <1>15, StaysPut

-----------------------------------------------------------------------------
(* The checks before an opcode is executed.                                *)

\* An opcode takes no fewer words than its memory regions need.
LEMMA TakenPops ==
    ASSUME NEW name \in Names \cup {"PUSH", "DUP", "SWAP", "LOG"}, NEW n,
           name \in {"DUP", "SWAP"} => n \in 1 .. 16, name = "LOG" => n \in 0 .. 4
    PROVE  Pops(name, n) \in Nat /\ Taken(name) <= Pops(name, n)
<1>1. CASE name \in Names
  <2>1. name \notin {"PUSH", "DUP", "SWAP", "LOG"} /\ name \in DOMAIN Table
    BY <1>1, NoFamily
  <2>2. Pops(name, n) = Table[name][2] /\ Taken(name) = Table[name][2] /\ Table[name][2] \in 0 .. 7
    BY <1>1, <2>1, TableTypes DEF Pops, Taken
  <2>3. QED
    BY <2>2
<1>2. CASE name \in {"PUSH", "DUP", "SWAP", "LOG"}
  <2>1. name \notin Names
    BY <1>2, NoFamily
  <2>2. QED
    BY <1>2, <2>1 DEF Pops, Taken
<1>3. QED
  BY <1>1, <1>2

\* The operands' part of a cost is a number.
LEMMA OperandCostNat ==
    ASSUME NEW name, NEW n, NEW s \in Seq(Word), Len(s) >= Taken(name), NEW present,
           name = "LOG" => n \in 0 .. 4
    PROVE  OperandCost(name, n, s, present) \in Nat
<1> DEFINE c == OperandCost(name, n, s, present)
<1>1. Len(s) \in Nat /\ \A i \in Nat : i < Len(s) => Peek(s, i) \in Word /\ Peek(s, i) \in Nat
  BY LenProperties, PeekWord
<1>2. \A i \in Nat : i < Len(s) => WordsForBytes(Peek(s, i)) \in Nat
  BY <1>1, WordsCover
<1>3. CASE name \in {"MLOAD", "MSTORE", "MSTORE8", "DELEGATECALL", "STATICCALL", "CALL", "CALLCODE", "CREATE", "SSTORE"}
  BY <1>3 DEF OperandCost
<1>4. CASE name = "KECCAK256"
  <2> DEFINE w == WordsForBytes(Peek(s, 1))
  <2>1. w \in Nat
    BY <1>1, <1>2, <1>4, TakenOf
  <2>2. c = 30 + 6 * w
    BY <1>4 DEF OperandCost
  <2> HIDE DEF w, c
  <2>3. c \in Nat
    BY <2>1, <2>2
  <2>4. QED
    BY <2>3 DEF c
<1>5. CASE name \in {"CALLDATACOPY", "CODECOPY", "RETURNDATACOPY"}
  <2> DEFINE w == WordsForBytes(Peek(s, 2))
  <2>1. w \in Nat
    BY <1>1, <1>2, <1>5, TakenOf
  <2>2. c = 3 * w
    BY <1>5 DEF OperandCost
  <2> HIDE DEF w, c
  <2>3. c \in Nat
    BY <2>1, <2>2
  <2>4. QED
    BY <2>3 DEF c
<1>6. CASE name = "EXTCODECOPY"
  <2> DEFINE w == WordsForBytes(Peek(s, 3))
  <2>1. w \in Nat
    BY <1>1, <1>2, <1>6, TakenOf
  <2>2. c = 20 + 3 * w
    BY <1>6 DEF OperandCost
  <2> HIDE DEF w, c
  <2>3. c \in Nat
    BY <2>1, <2>2
  <2>4. QED
    BY <2>3 DEF c
<1>7. CASE name = "EXP"
  <2> DEFINE w == ByteLen(Peek(s, 1))
  <2>1. Taken(name) = 2
    <3>1. "EXP" \in Names /\ "EXP" \in Binary
      BY SMTT(60) DEF Names, OpCode, Binary
    <3>2. QED
      BY <1>7, <3>1, TableRows DEF Taken
  <2>2. w \in Nat
    BY <1>1, <2>1, ByteLenNat, WordsAssumption
  <2>3. c = 10 + 10 * w
    BY <1>7 DEF OperandCost
  <2> HIDE DEF w, c
  <2>4. c \in Nat
    BY <2>2, <2>3
  <2>5. QED
    BY <2>4 DEF c
<1>8. CASE name = "CREATE2"
  <2> DEFINE w == WordsForBytes(Peek(s, 2))
  <2>1. w \in Nat
    BY <1>1, <1>2, <1>8, TakenOf
  <2>2. c = 32000 + 6 * w
    BY <1>8 DEF OperandCost
  <2> HIDE DEF w, c
  <2>3. c \in Nat
    BY <2>1, <2>2
  <2>4. QED
    BY <2>3 DEF c
<1>9. CASE name = "LOG"
  <2> DEFINE w == Peek(s, 1)
  <2>1. w \in Nat /\ n \in Nat
    BY <1>1, <1>9, TakenOf
  <2>2. c = 375 + 375 * n + 8 * w
    BY <1>9 DEF OperandCost
  <2> HIDE DEF w, c
  <2>3. c \in Nat
    BY <2>1, <2>2
  <2>4. QED
    BY <2>3 DEF c
<1>10. CASE name \notin {"MLOAD", "MSTORE", "MSTORE8", "DELEGATECALL", "STATICCALL", "CALL", "CALLCODE", "CREATE",
                         "SSTORE", "KECCAK256", "CALLDATACOPY", "CODECOPY", "RETURNDATACOPY", "EXTCODECOPY", "EXP",
                         "CREATE2", "LOG"}
  <2>1. c = 0
    BY <1>10 DEF OperandCost
  <2>2. QED
    BY <2>1
<1>11. QED
  BY <1>3, <1>4, <1>5, <1>6, <1>7, <1>8, <1>9, <1>10

\* No memory is paid for by an opcode without a dynamic cost, and none is used.
LEMMA NoRegions ==
    ASSUME NEW name, NEW s, name \in Names => Table[name][1] # Dynamic, name # "LOG"
    PROVE  MemoryRegions(name, s) = {}
<1>1. {"MLOAD", "MSTORE", "MSTORE8", "KECCAK256", "RETURN", "REVERT", "CALLDATACOPY", "CODECOPY",
       "RETURNDATACOPY", "EXTCODECOPY", "CREATE", "CREATE2", "CALL", "CALLCODE", "DELEGATECALL",
       "STATICCALL"} \subseteq Names
  BY SMTT(60) DEF Names, OpCode
<1>2. name \notin {"MLOAD", "MSTORE", "MSTORE8", "KECCAK256", "RETURN", "REVERT", "CALLDATACOPY", "CODECOPY",
       "RETURNDATACOPY", "EXTCODECOPY", "CREATE", "CREATE2", "CALL", "CALLCODE", "DELEGATECALL", "STATICCALL"}
  BY <1>1, TableOthers
<1>3. QED
  BY <1>2 DEF MemoryRegions

\* Growth that ends at 0 costs nothing.
LEMMA NothingPays ==
    ASSUME NEW mem, Whole(mem), Len(mem) <= MemLimit, NEW m, Covered(mem, m, 0)
    PROVE  PaysFor(mem, m, 0)
<1>1. WordsForBytes(0) = 0
  <2> DEFINE k == WordBytes - 1
  <2>1. k \in Nat /\ WordBytes \in Nat \ {0} /\ k < WordBytes /\ WordsForBytes(0) = k \div WordBytes
    BY WordsAssumption DEF WordsForBytes
  <2> HIDE DEF k
  <2>2. k \div WordBytes = 0
    BY <2>1
  <2>3. QED
    BY <2>1, <2>2
<1>2. MemWords(mem) \in Nat
  BY WholeLen
<1>3. MemExpandCost(mem, 0) = 0
  BY <1>1, <1>2, Limits DEF MemExpandCost, MemWords
<1>4. 0 >= 0 /\ 0 \in Int
  OBVIOUS
<1>5. Len(m) <= MemLimit /\ MemCostWords(MemWords(m)) <= MemCostWords(MemWords(mem)) + 0
  BY <1>3, <1>4, ExpandPays
<1>6. QED
  BY <1>5 DEF PaysFor, Covered

(* What the table says of a byte that is an opcode.                        *)
InTable(b, name, n) ==
    /\ name \in Names \cup {"PUSH", "DUP", "SWAP", "LOG"}
    /\ name = "PUSH" => n \in 1 .. WordBytes /\ Entry(b)[2] = 0 /\ Entry(b)[3] = 1
    /\ name \in {"DUP", "SWAP"} => n \in 1 .. 16
    /\ name = "LOG" => n \in 0 .. 4
    /\ Entry(b)[1] \in Nat \/ Entry(b)[1] = Dynamic
    /\ Entry(b)[2] = Pops(name, n)
    /\ Entry(b)[3] \in Nat
    /\ Entry(b)[1] # Dynamic => name # "LOG" /\ (name \in Names => Table[name][1] # Dynamic)

\* Every byte with a name has an entry.
LEMMA EntryOf ==
    ASSUME NEW b \in 0 .. 255, Decoded[b][1] # "none"
    PROVE  InTable(b, Decoded[b][1], Decoded[b][2])
<1> DEFINE name == Decoded[b][1]
           n == Decoded[b][2]
<1> SUFFICES InTable(b, name, n)
  OBVIOUS
<1>1. \/ name \in Names
      \/ name = "PUSH" /\ n \in 1 .. WordBytes
      \/ name \in {"DUP", "SWAP"} /\ n \in 1 .. 16
      \/ name = "LOG" /\ n \in 0 .. 4
  <2>1. Decoded[b][1] # "none" /\ name = Decoded[b][1] /\ n = Decoded[b][2]
    OBVIOUS
  <2>2. \/ Decoded[b][1] \in Names /\ Decoded[b][2] = 0
        \/ Decoded[b][1] = "PUSH" /\ Decoded[b][2] \in 1 .. WordBytes
        \/ Decoded[b][1] \in {"DUP", "SWAP"} /\ Decoded[b][2] \in 1 .. 16
        \/ Decoded[b][1] = "LOG" /\ Decoded[b][2] \in 0 .. 4
        \/ Decoded[b][1] = "none" /\ Decoded[b][2] = 0
    BY DecodedCases, Zenon
  <2>3. QED
    BY <2>1, <2>2, Zenon
<1>2. CASE name \in Names
  <2>1. name \notin {"PUSH", "DUP", "SWAP", "LOG"} /\ name \in DOMAIN Table
    BY <1>2, NoFamily
  <2>2. Entry(b) = Table[name]
    BY <2>1 DEF Entry
  <2>3. QED
    BY <1>2, <2>1, <2>2, TableTypes DEF Pops, InTable
<1>3. CASE name = "PUSH" /\ n \in 1 .. WordBytes
  <2>1. Entry(b) = <<3, 0, 1>> /\ name \notin Names
    BY <1>3, NoFamily DEF Entry
  <2>2. QED
    BY <1>3, <2>1 DEF Pops, Dynamic, InTable
<1>4. CASE name \in {"DUP", "SWAP"} /\ n \in 1 .. 16
  <2>1. Entry(b) = <<3, IF name = "DUP" THEN n ELSE n + 1, n + 1>> /\ name \notin Names
    BY <1>4, NoFamily DEF Entry
  <2>2. QED
    BY <1>4, <2>1 DEF Pops, Dynamic, InTable
<1>5. CASE name = "LOG" /\ n \in 0 .. 4
  <2>1. Entry(b) = <<Dynamic, 2 + n, 0>> /\ name \notin Names
    BY <1>5, NoFamily DEF Entry, LogEntry
  <2>2. QED
    BY <1>5, <2>1 DEF Pops, InTable
<1>6. QED
  BY <1>1, <1>2, <1>3, <1>4, <1>5

\* No cost function or executor looks deeper than the table makes sure of.
LEMMA PeekWithin ==
    ASSUME contract \in Jobs, sc.pc \in Nat, sc.pc < Len(contract.Code), Op[1] # "none"
    PROVE  PeekDepth \in Nat /\ PeekDepth <= TableRow[2]
<1> DEFINE b == contract.Code[sc.pc + 1]
           name == Decoded[b][1]
           n == Decoded[b][2]
<1>0. b \in 0 .. 255
  <2>1. contract.Code \in Seq(Byte)
    BY ContractData, DataLen
  <2>2. QED
    BY <2>1, NextInstruction
<1>1. Op[1] = name /\ Op[2] = n /\ TableRow = Entry(b)
  BY DEF Op, TableRow
<1>2. name = Decoded[b][1] /\ n = Decoded[b][2] /\ name # "none"
  BY <1>1
<1> HIDE DEF name, n, b
<1>3. /\ Entry(b)[2] = Pops(name, n) /\ name \in Names \cup {"PUSH", "DUP", "SWAP", "LOG"}
      /\ (name \in {"DUP", "SWAP"} => n \in 1 .. 16) /\ (name = "LOG" => n \in 0 .. 4)
      /\ Pops(name, n) \in Nat
  <2>1. InTable(b, name, n)
    BY <1>0, <1>2, EntryOf
  <2>2. Pops(name, n) \in Nat
    BY <2>1, TakenPops DEF InTable
  <2>3. QED
    BY <2>1, <2>2 DEF InTable
<1>4. CASE name \in Unary
  <2>1. PeekDepth = 1
    BY <1>1, <1>4 DEF PeekDepth, Unary, Binary
  <2>2. name \notin {"PUSH", "DUP", "SWAP", "LOG"}
    BY <1>4 DEF Unary
  <2>3. QED
    BY <1>1, <1>3, <1>4, <2>1, <2>2, TableRows DEF Pops
<1>5. CASE name \in Binary
  <2>1. PeekDepth = 2
    BY <1>1, <1>5 DEF PeekDepth, Unary, Binary
  <2>2. name \notin {"PUSH", "DUP", "SWAP", "LOG"}
    BY <1>5 DEF Binary
  <2>3. QED
    BY <1>1, <1>3, <1>5, <2>1, <2>2, TableRows DEF Pops
<1>6. CASE name = "LOG"
  <2>1. PeekDepth = 2 /\ Pops(name, n) = 2 + n
    BY <1>1, <1>6 DEF PeekDepth, Unary, Binary, Pops
  <2>2. QED
    BY <1>1, <1>3, <1>6, <2>1
<1>7. CASE name \in {"MLOAD", "MSTORE", "MSTORE8", "KECCAK256", "SSTORE", "RETURN", "REVERT", "ADDMOD", "MULMOD",
                     "CALLDATACOPY", "CODECOPY", "RETURNDATACOPY", "CREATE", "CREATE2", "EXTCODECOPY",
                     "DELEGATECALL", "STATICCALL", "CALL", "CALLCODE"}
  <2>1. Pops(name, n) = Table[name][2]
    BY <1>7 DEF Pops
  <2>2. PeekDepth = CASE name \in {"MLOAD", "MSTORE", "MSTORE8"} -> 1
                      [] name \in {"KECCAK256", "SSTORE", "RETURN", "REVERT"} -> 2
                      [] name \in {"ADDMOD", "MULMOD", "CALLDATACOPY", "CODECOPY", "RETURNDATACOPY",
                                   "CREATE", "CREATE2"} -> 3
                      [] name = "EXTCODECOPY" -> 4
                      [] name \in {"DELEGATECALL", "STATICCALL"} -> 6
                      [] name \in {"CALL", "CALLCODE"} -> 7
    BY <1>1, <1>7 DEF PeekDepth, Unary, Binary
  <2>3. QED
    BY <1>1, <1>3, <1>7, <2>1, <2>2, TableOthers
<1>8. CASE /\ name \notin Unary /\ name \notin Binary /\ name # "LOG"
           /\ name \notin {"MLOAD", "MSTORE", "MSTORE8", "KECCAK256", "SSTORE", "RETURN", "REVERT", "ADDMOD", "MULMOD",
                     "CALLDATACOPY", "CODECOPY", "RETURNDATACOPY", "CREATE", "CREATE2", "EXTCODECOPY",
                     "DELEGATECALL", "STATICCALL", "CALL", "CALLCODE"}
  <2>1. PeekDepth = 0
    BY <1>1, <1>8 DEF PeekDepth
  <2>2. QED
    BY <1>1, <1>3, <2>1
<1>9. QED
  BY <1>4, <1>5, <1>6, <1>7, <1>8

-----------------------------------------------------------------------------
(* A frame.                                                                *)

(* The inductive invariant of a frame.                                     *)
Over ==
    /\ result.over \in BOOLEAN
    /\ result.over => result.err # "panic"
    /\ ~result.over => sc.err = "none"

Paid == memPaid \in Nat /\ MemCostWords(MemWords(sc.mem)) <= memPaid

FrameInv == EnergyMetered /\ Ready(sc) /\ Over /\ OnInstruction /\ Paid

\* The invariant says what the properties say.
LEMMA FrameInvSuffices ==
    ASSUME FrameInv
    PROVE  StackChecksSuffice /\ OnInstruction /\ MemoryPaidFor
<1>1. StackChecksSuffice /\ OnInstruction
  BY DEF FrameInv, Over, Ready, StackChecksSuffice
<1>2. Len(sc.mem) % WordBytes = 0 /\ Len(sc.mem) <= MemLimit
  BY DEF FrameInv, Ready, Whole
<1>3. MemWords(sc.mem) \in Nat /\ QuadDivisor \in Nat \ {0}
  BY WholeLen, Limits DEF FrameInv, Ready
<1>4. MemCostWords(MemWords(sc.mem)) <= memPaid /\ memPaid \in Nat /\ MemCostWords(MemWords(sc.mem)) \in Nat
  BY <1>3, MemCostMono DEF FrameInv, Paid
<1>5. memPaid >= MemCostWords(MemWords(sc.mem))
  BY <1>4
<1>6. QED
  BY <1>1, <1>2, <1>5 DEF MemoryPaidFor, MemWords

\* A frame starts at the first instruction with an empty stack and memory.
LEMMA FrameInitInv == FrameInit => FrameInv
<1> SUFFICES ASSUME FrameInit PROVE FrameInv
  OBVIOUS
<1>1. contract \in Jobs /\ contract.limit \in 0 .. U64 - 1 /\ U64 \in Nat
  BY ContractData, Limits DEF FrameInit
<1>2. EnergyMetered
  <2>1. meter = [limit |-> contract.limit, used |-> 0] /\ contract.limit \in Nat /\ contract.limit < U64
    BY <1>1 DEF FrameInit
  <2>2. QED
    BY <1>1, <2>1 DEF EnergyMetered
<1>3. sc = [pc |-> 0, stack |-> <<>>, mem |-> <<>>, stop |-> FALSE, reverted |-> FALSE,
            ret |-> <<>>, returnData |-> <<>>, err |-> "none"]
  BY DEF FrameInit
<1>4. <<>> \in Seq(Byte) /\ <<>> \in Seq(Word) /\ Len(<<>>) = 0 /\ IsData(<<>>)
  BY EmptySeq, EmptyData
<1>5. Whole(<<>>) /\ MemWords(<<>>) = 0
  BY <1>4, WordsAssumption DEF Whole, MemWords
<1>6. sc \in Scope
  BY <1>3, <1>4 DEF Scope, Errors
<1>7. Ready(sc)
  BY <1>3, <1>4, <1>5, <1>6, Limits DEF Ready
<1>8. Over
  BY <1>3 DEF Over, FrameInit, NoResult
<1>9. OnInstruction
  <2>1. contract.Code \in Seq(Byte) /\ Len(contract.Code) \in Nat
    BY <1>1, ContractData, DataLen
  <2>2. 0 < Len(contract.Code) => 0 \in Instructions
    BY <2>1, FlowFacts, InstructionsAre
  <2>3. QED
    BY <1>3, <2>1, <2>2 DEF OnInstruction, InLoop, AtEnd
<1>10. Paid
  <2>1. MemCostWords(0) = 0
    BY Limits DEF MemCostWords
  <2>2. QED
    BY <1>3, <1>5, <2>1 DEF Paid, FrameInit
<1>11. QED
  BY <1>2, <1>7, <1>8, <1>9, <1>10 DEF FrameInv

(* What is known of an opcode that runFrame does not refuse.               *)
Admits(present, e) ==
    /\ Op[1] \in Names \cup {"PUSH", "DUP", "SWAP", "LOG"}
    /\ Op[1] = "PUSH" => Op[2] \in 1 .. WordBytes /\ Len(sc.stack) < MaxStack
    /\ Op[1] \in {"DUP", "SWAP"} => Op[2] \in 1 .. 16
    /\ Op[1] = "LOG" => Op[2] \in 0 .. 4
    /\ TableRow[2] = Pops(Op[1], Op[2]) /\ Pops(Op[1], Op[2]) <= Len(sc.stack)
    /\ e \in Nat /\ Behind(e, MemoryRegions(Op[1], sc.stack))
    /\ \A m : Covered(sc.mem, m, e) => PaysFor(sc.mem, m, MemoryPart)
    /\ MemoryPart \in Nat /\ Cost(present) \in Nat /\ Cost(present) <= EnergyLeft

\* The opcode runFrame looks at is a byte of the code.
LEMMA AtByte ==
    ASSUME FrameInv, InLoop
    PROVE  /\ contract.Code \in Seq(Byte) /\ sc.pc \in Nat /\ Len(contract.Code) \in Nat
           /\ sc.pc < Len(contract.Code) /\ contract.Code[sc.pc + 1] \in 0 .. 255
           /\ sc.err = "none" /\ result.over = FALSE /\ sc.stop = FALSE
           /\ sc.stack \in Seq(Word) /\ Len(sc.stack) \in Nat
<1>1. contract.Code \in Seq(Byte) /\ Len(contract.Code) \in Nat
  BY ContractData, DataLen DEF FrameInv, EnergyMetered
<1>2. sc.pc \in Nat /\ sc.stop \in BOOLEAN /\ sc.stack \in Seq(Word)
  BY DEF FrameInv, Ready, Scope
<1>3. result.over = FALSE /\ sc.err = "none" /\ sc.stop = FALSE /\ sc.pc < Len(contract.Code)
  BY <1>1, <1>2 DEF FrameInv, Over, InLoop, AtEnd
<1>4. contract.Code[sc.pc + 1] \in 0 .. 255
  BY <1>1, <1>2, <1>3, NextInstruction
<1>5. QED
  BY <1>1, <1>2, <1>3, <1>4, LenProperties

\* The table has an entry for an opcode that is not refused.
LEMMA OpInTable ==
    ASSUME FrameInv, InLoop, Op[1] # "none"
    PROVE  /\ InTable(contract.Code[sc.pc + 1], Op[1], Op[2])
           /\ TableRow = Entry(contract.Code[sc.pc + 1])
<1> DEFINE b == contract.Code[sc.pc + 1]
<1>1. b \in 0 .. 255
  BY AtByte
<1>2. Op = Decoded[b] /\ TableRow = Entry(b)
  BY DEF Op, TableRow
<1> HIDE DEF b
<1>3. InTable(b, Decoded[b][1], Decoded[b][2])
  BY <1>1, <1>2, EntryOf
<1>4. InTable(b, Op[1], Op[2]) /\ TableRow = Entry(b)
  BY <1>2, <1>3
<1>5. QED
  BY <1>4 DEF b

\* The checks of runFrame, one by one.
LEMMA NotRefused ==
    ASSUME FrameInv, InLoop, NEW present, Refusal(present) = "none"
    PROVE  /\ Op[1] # "none" /\ ~(Len(sc.stack) < TableRow[2])
           /\ ~(Len(sc.stack) - TableRow[2] + TableRow[3] > MaxStack)
           /\ ~(MemoryPart < 0) /\ ~(Cost(present) > EnergyLeft)
BY DEF Refusal

\* Whatever is not refused has its operands and can pay.
LEMMA Admitted ==
    ASSUME FrameInv, InLoop, NEW present, Refusal(present) = "none"
    PROVE  \E e : Admits(present, e)
<1> DEFINE name == Op[1]
           n == Op[2]
           row == TableRow
           st == sc.stack
<1>1. /\ name # "none" /\ ~(Len(st) < row[2]) /\ ~(Len(st) - row[2] + row[3] > MaxStack)
      /\ ~(MemoryPart < 0) /\ ~(Cost(present) > EnergyLeft)
  BY NotRefused
<1>2. st \in Seq(Word) /\ Len(st) \in Nat
  BY AtByte
<1>3. /\ name \in Names \cup {"PUSH", "DUP", "SWAP", "LOG"}
      /\ name = "PUSH" => n \in 1 .. WordBytes /\ row[2] = 0 /\ row[3] = 1
      /\ name \in {"DUP", "SWAP"} => n \in 1 .. 16
      /\ name = "LOG" => n \in 0 .. 4
      /\ row[1] \in Nat \/ row[1] = Dynamic
      /\ row[2] = Pops(name, n)
      /\ row[3] \in Nat
      /\ row[1] # Dynamic => name # "LOG" /\ (name \in Names => Table[name][1] # Dynamic)
  BY <1>1, OpInTable DEF InTable
<1>4. row[2] \in Nat /\ Taken(name) <= row[2] /\ Taken(name) \in Nat
  <2>1. Pops(name, n) \in Nat /\ Taken(name) <= Pops(name, n)
    BY <1>3, TakenPops
  <2>2. Taken(name) \in Nat
    <3>1. name \in Names => Table[name][2] \in 0 .. 7
      BY NoFamily, TableTypes
    <3>2. QED
      BY <3>1 DEF Taken
  <2>3. QED
    BY <1>3, <2>1, <2>2
<1>5. row[2] <= Len(st) /\ (name = "PUSH" => Len(st) < MaxStack) /\ Len(st) >= Taken(name)
  BY <1>1, <1>2, <1>3, <1>4, Limits
<1>6. Whole(sc.mem) /\ Len(sc.mem) <= MemLimit
  BY DEF FrameInv, Ready
<1>7. EnergyLeft \in Nat
  BY DEF FrameInv, EnergyMetered, EnergyLeft
<1>8. /\ MemoryPart \in Nat /\ Cost(present) \in Nat
      /\ \E e : /\ e \in Nat /\ Behind(e, MemoryRegions(name, st))
                /\ \A m : Covered(sc.mem, m, e) => PaysFor(sc.mem, m, MemoryPart)
  <2>1. CASE row[1] # Dynamic
    <3>1. MemoryPart = 0 /\ Cost(present) = row[1] /\ row[1] \in Nat
      BY <1>3, <2>1 DEF MemoryPart, Cost
    <3>2. MemoryRegions(name, st) = {}
      BY <1>3, <2>1, NoRegions
    <3>3. Behind(0, MemoryRegions(name, st)) /\ 0 \in Nat
      BY <3>2 DEF Behind
    <3>4. \A m : Covered(sc.mem, m, 0) => PaysFor(sc.mem, m, 0)
      BY <1>6, NothingPays
    <3>5. QED
      BY <3>1, <3>3, <3>4
  <2>2. CASE row[1] = Dynamic
    <3>1. MemoryPart = MemoryCost(name, st, sc.mem)
          /\ Cost(present) = MemoryPart + OperandCost(name, n, st, present)
      BY <2>2 DEF MemoryPart, Cost
    <3>2. Regions(MemoryRegions(name, st))
      BY <1>2, <1>5, RegionsNat
    <3>3. ~(MemoryCost(name, st, sc.mem) < 0)
      BY <1>1, <3>1
    <3> DEFINE c == MemoryCost(name, st, sc.mem)
    <3>4. c \in Nat /\ \E e : /\ Behind(e, MemoryRegions(name, st))
                              /\ \A m : Covered(sc.mem, m, e) => PaysFor(sc.mem, m, c)
      BY <1>6, <3>2, <3>3, MemoryPays
    <3>5. OperandCost(name, n, st, present) \in Nat
      BY <1>2, <1>3, <1>5, OperandCostNat
    <3> HIDE DEF c
    <3>6. PICK e : /\ Behind(e, MemoryRegions(name, st))
                   /\ \A m : Covered(sc.mem, m, e) => PaysFor(sc.mem, m, c)
      BY <3>4
    <3>7. e \in Nat
      BY <3>6 DEF Behind
    <3>8. c = MemoryPart
      BY <3>1 DEF c
    <3>9. MemoryPart \in Nat /\ Cost(present) \in Nat
      BY <3>1, <3>4, <3>5, <3>8
    <3>10. QED
      BY <3>6, <3>7, <3>8, <3>9
  <2>3. QED
    BY <2>1, <2>2
<1>9. Cost(present) <= EnergyLeft
  BY <1>1, <1>7, <1>8
<1>10. QED
  BY <1>3, <1>5, <1>8, <1>9 DEF Admits

(* t is a scope that the frame may go on with, or fail with, after an      *)
(* opcode that leaves used energy used.                                    *)
Leaves(t, used) ==
    /\ \E e : Leads(Op[1], Op[2], sc, t, e)
    /\ PaysFor(sc.mem, t.mem, MemoryPart) /\ MemoryPart \in Nat
    /\ used \in Nat /\ used <= meter.limit
    /\ Op[1] # "none"

\* Behind an instruction is an instruction or the end of the code.
LEMMA AfterGoes ==
    ASSUME FrameInv, InLoop, NEW t, NEW e, Leads(Op[1], Op[2], sc, t, e), t.err = "none", Op[1] # "none",
           NEW pc, pc = (IF Op[1] \in Halts \cup Jumps THEN t.pc ELSE t.pc + 1)
    PROVE  pc \in Nat /\ (pc < Len(contract.Code) => pc \in Instructions)
<1> DEFINE code == contract.Code
           b == code[sc.pc + 1]
<1>1. /\ code \in Seq(Byte) /\ Len(code) \in Nat /\ sc.pc \in Nat /\ sc.pc < Len(code) /\ b \in 0 .. 255
  BY AtByte
<1>2. sc.pc \in Instructions /\ Instructions = Starts(code)[0]
  BY InstructionsAre DEF FrameInv, OnInstruction
<1>3. /\ \A d \in AnalyzeJumpDests(code) : d \in Instructions
      /\ \A q \in Instructions : q \in Nat
      /\ NextPc(code, sc.pc) < Len(code) => NextPc(code, sc.pc) \in Instructions
  BY <1>1, <1>2, FlowFacts
<1>4. PushBytes(b) = (IF Op[1] = "PUSH" THEN Op[2] ELSE 0) /\ NextPc(code, sc.pc) = sc.pc + 1 + PushBytes(b)
  BY DEF PushBytes, NextPc, Op
<1>5. PushBytes(b) \in Nat
  BY <1>1, NextInstruction
<1>6. IF Op[1] \in Jumps THEN t.pc \in AnalyzeJumpDests(code) \cup {sc.pc + 1}
      ELSE t.pc = sc.pc + (IF Op[1] = "PUSH" THEN Op[2] ELSE 0)
  BY DEF Leads
<1> HIDE DEF b, code
<1>7. CASE Op[1] \in Jumps
  <2>1. Op[1] # "PUSH" /\ pc = t.pc
    BY <1>7 DEF Jumps
  <2>2. t.pc \in AnalyzeJumpDests(code) \/ t.pc = NextPc(code, sc.pc)
    BY <1>1, <1>4, <1>6, <1>7, <2>1
  <2>3. NextPc(code, sc.pc) \in Nat
    BY <1>1, <1>4, <1>5
  <2>4. QED
    BY <1>3, <2>1, <2>2, <2>3 DEF code
<1>8. CASE Op[1] \in Halts
  <2>1. Op[1] # "PUSH" /\ Op[1] \notin Jumps /\ pc = t.pc
    BY <1>8 DEF Halts, Jumps
  <2>2. pc = sc.pc
    BY <1>1, <1>6, <2>1
  <2>3. QED
    BY <1>1, <1>2, <2>2
<1>9. CASE Op[1] \notin Halts \cup Jumps
  <2>1. pc = t.pc + 1 /\ t.pc = sc.pc + PushBytes(b)
    BY <1>4, <1>6, <1>9
  <2>2. pc = NextPc(code, sc.pc) /\ pc \in Nat
    BY <1>1, <1>4, <1>5, <2>1
  <2>3. QED
    BY <1>3, <2>2 DEF code
<1>10. QED
  BY <1>7, <1>8, <1>9

\* What runFrame does after an executor keeps the invariant.
LEMMA AfterKeeps ==
    ASSUME FrameInv, InLoop, NEW t, NEW used, Leaves(t, used), After(t, used)
    PROVE  FrameInv'
<1> DEFINE code == contract.Code
<1>1. /\ code \in Seq(Byte) /\ Len(code) \in Nat /\ sc.pc \in Nat /\ sc.pc < Len(code)
      /\ result.over = FALSE /\ sc.err = "none"
  BY AtByte
<1>2. PICK e : Leads(Op[1], Op[2], sc, t, e)
  BY DEF Leaves
<1>3. /\ t \in Scope /\ IsData(t.returnData) /\ Len(t.stack) <= MaxStack
      /\ t.err # "none" => t.pc = sc.pc
  BY <1>2 DEF Leads, Ran
<1>4. /\ Whole(t.mem) /\ Len(t.mem) <= MemLimit /\ MemoryPart \in Nat
      /\ MemCostWords(MemWords(t.mem)) <= MemCostWords(MemWords(sc.mem)) + MemoryPart
  BY DEF Leaves, PaysFor
<1>5. contract' = contract
  BY DEF After
<1>6. EnergyMetered'
  <2>1. meter' = [meter EXCEPT !.used = used] /\ used \in Nat /\ used <= meter.limit
    BY DEF After, Leaves
  <2>2. QED
    BY <1>5, <2>1 DEF FrameInv, EnergyMetered
<1>7. Paid'
  <2>1. memPaid' = memPaid + MemoryPart /\ sc'.mem = t.mem
    BY <1>3 DEF After, Scope
  <2>2. MemWords(t.mem) \in Nat /\ MemWords(sc.mem) \in Nat
    BY <1>4, WholeLen DEF FrameInv, Ready
  <2>3. MemCostWords(MemWords(t.mem)) \in Nat /\ MemCostWords(MemWords(sc.mem)) \in Nat
    BY <2>2, MemCostMono
  <2>4. memPaid \in Nat /\ MemCostWords(MemWords(sc.mem)) <= memPaid
    BY DEF FrameInv, Paid
  <2>5. memPaid' \in Nat /\ MemCostWords(MemWords(t.mem)) <= memPaid'
    BY <1>4, <2>1, <2>3, <2>4
  <2>6. MemCostWords(MemWords(sc.mem))' = MemCostWords(MemWords(t.mem))
    BY <2>1 DEF MemCostWords, MemWords
  <2>7. QED
    BY <2>5, <2>6 DEF Paid
<1>8. CASE t.err # "none"
  <2>1. sc' = t /\ result' = Failed(t, t.err)
    BY <1>8 DEF After
  <2>2. t.err # "panic" /\ t.pc = sc.pc
    BY <1>3, <1>8 DEF Scope, Errors
  <2>3. result'.over = TRUE /\ result'.err # "panic"
    BY <1>1, <2>1, <2>2 DEF Failed
  <2>4. Ready(sc)'
    BY <1>3, <1>4, <2>1 DEF Ready, IsData, Whole, Scope
  <2>5. Over' /\ OnInstruction'
    BY <2>3 DEF Over, OnInstruction, InLoop
  <2>6. QED
    BY <1>6, <1>7, <2>4, <2>5 DEF FrameInv
<1>9. CASE t.err = "none"
  <2> DEFINE pc == IF Op[1] \in Halts \cup Jumps THEN t.pc ELSE t.pc + 1
  <2>1. pc \in Nat /\ (pc < Len(code) => pc \in Instructions)
    BY <1>2, <1>9, AfterGoes DEF Leaves
  <2>2. sc' = [t EXCEPT !.pc = pc] /\ result' = result
    <3>1. [t EXCEPT !.pc = t.pc] = t
      BY <1>3 DEF Scope
    <3>2. QED
      BY <1>9, <3>1 DEF After
  <2> HIDE DEF pc
  <2>3. /\ sc' \in Scope /\ sc'.pc = pc /\ sc'.stack = t.stack /\ sc'.mem = t.mem /\ sc'.err = "none"
        /\ sc'.returnData = t.returnData
    BY <1>3, <1>9, <2>1, <2>2 DEF Scope
  <2>4. Ready(sc)'
    BY <1>3, <1>4, <2>3 DEF Ready, IsData, Whole, Scope
  <2>5. Over'
    BY <1>1, <2>2, <2>3 DEF Over
  <2>6. OnInstruction'
    <3>1. Instructions' = Instructions
      BY <1>5 DEF Instructions
    <3>2. InLoop' => pc < Len(code)
      BY <1>1, <1>5, <2>1, <2>3 DEF InLoop, AtEnd
    <3>3. QED
      BY <2>1, <2>3, <3>1, <3>2 DEF OnInstruction
  <2>7. QED
    BY <1>6, <1>7, <2>4, <2>5, <2>6 DEF FrameInv
<1>10. QED
  BY <1>8, <1>9

\* An opcode that is not refused finds what its executor needs.
LEMMA AdmitsExecutes ==
    ASSUME FrameInv, InLoop, NEW present, NEW e, Admits(present, e), NEW answer \in Asked(Op[1])
    PROVE  Executes(Op[1], Op[2], sc, answer, e)
<1>1. EnergyMetered /\ Ready(sc) /\ sc.err = "none" /\ sc.pc < Len(contract.Code)
  BY AtByte DEF FrameInv
<1>2. QED
  BY <1>1 DEF Admits, Executes

\* What a scope left by an executor must be for AfterKeeps.
LEMMA LeavesOf ==
    ASSUME FrameInv, InLoop, NEW present, NEW e, Admits(present, e), NEW t, Leads(Op[1], Op[2], sc, t, e),
           NEW used \in Nat, used <= meter.limit, Op[1] # "none"
    PROVE  Leaves(t, used)
<1>1. Covered(sc.mem, t.mem, e)
  BY DEF Leads, Ran
<1>2. PaysFor(sc.mem, t.mem, MemoryPart) /\ MemoryPart \in Nat
  BY <1>1 DEF Admits
<1>3. QED
  BY <1>2 DEF Leaves

\* The energy meter after the cost of an opcode.
LEMMA ChargeFits ==
    ASSUME FrameInv, NEW present, NEW e, Admits(present, e)
    PROVE  /\ Charge(meter.used, Cost(present)) \in Nat /\ Charge(meter.used, Cost(present)) <= meter.limit
           /\ meter.limit \in Nat
BY DEF FrameInv, EnergyMetered, Admits, Charge, EnergyLeft

\* An error before anything is done leaves the scope as it is.
LEMMA ErrGoes ==
    ASSUME FrameInv, InLoop, NEW e \in Nat, NEW x \in Errors \ {"none"}
    PROVE  Leads(Op[1], Op[2], sc, Err(sc, x), e)
<1>1. Ran(sc, sc, e)
  BY ReadyRan DEF FrameInv
<1>2. Ran(sc, Err(sc, x), e) /\ Err(sc, x).pc = sc.pc /\ Err(sc, x).err = x
  BY <1>1, ErrRan
<1>3. QED
  BY <1>2 DEF Leads

\* A child is given no more than there is, and gives back no more than it was given.
LEMMA ForwardedFits ==
    ASSUME NEW r \in Nat, NEW a \in Nat
    PROVE  Forwarded(r, a) \in Nat /\ Forwarded(r, a) <= a
<1> DEFINE q == a \div 64
           m == IF "Forward6364" \in contract.cfg THEN a - q ELSE a
<1>1. q \in Nat /\ q <= a
  OBVIOUS
<1> HIDE DEF q
<1>2. m \in Nat /\ m <= a
  BY <1>1
<1>3. Forwarded(r, a) = Min({r, m})
  BY DEF Forwarded, q
<1> HIDE DEF m
<1>4. QED
  BY <1>2, <1>3, Min2

\* Restored takes no more than it is given.
LEMMA RestoredFits ==
    ASSUME NEW u \in Nat, NEW k \in Nat
    PROVE  Restored(u, k) \in Nat /\ Restored(u, k) <= u
BY DEF Restored

\* Execute keeps the invariant.
LEMMA ExecuteKeeps == FrameInv /\ Execute => FrameInv'
<1> SUFFICES ASSUME FrameInv, Execute PROVE FrameInv'
  OBVIOUS
<1>1. InLoop /\ Op[1] \notin Calls \cup Creates
  BY DEF Execute
<1>2. PICK present \in BOOLEAN, answer \in Asked(Op[1]) :
          /\ Refusal(present) = "none"
          /\ After(Exec(Op[1], Op[2], sc, answer), Charge(meter.used, Cost(present)))
  BY DEF Execute
<1>3. PICK e : Admits(present, e)
  BY <1>1, <1>2, Admitted
<1>4. Op[1] # "none"
  BY <1>1, <1>2, NotRefused
<1>5. Executes(Op[1], Op[2], sc, answer, e)
  BY <1>1, <1>3, AdmitsExecutes
<1> DEFINE t == Exec(Op[1], Op[2], sc, answer)
           used == Charge(meter.used, Cost(present))
<1>6. Leads(Op[1], Op[2], sc, t, e)
  BY <1>1, <1>5, ExecGoes
<1>7. used \in Nat /\ used <= meter.limit
  BY <1>3, ChargeFits
<1>8. After(t, used)
  BY <1>2
<1> HIDE DEF t, used
<1>9. Leaves(t, used)
  BY <1>1, <1>3, <1>4, <1>6, <1>7, LeavesOf
<1>10. QED
  BY <1>1, <1>8, <1>9, AfterKeeps

\* The answer of an opcode that asks nothing of the state.
LEMMA NothingAsked ==
    ASSUME NEW name \in Calls \cup Creates
    PROVE  [exists |-> TRUE, word |-> 0, data |-> <<>>] \in Asked(name)
BY DEF Calls, Creates, Asked

\* DoCall keeps the invariant.
LEMMA DoCallKeeps == FrameInv /\ DoCall => FrameInv'
<1> SUFFICES ASSUME FrameInv, DoCall PROVE FrameInv'
  OBVIOUS
<1>1. InLoop /\ Op[1] \in Calls
  BY DEF DoCall
<1>2. PICK present \in BOOLEAN, child \in Children : CallTo(present, child)
  BY DEF DoCall
<1>3. Refusal(present) = "none"
  BY <1>2 DEF CallTo
<1>4. PICK e : Admits(present, e)
  BY <1>1, <1>3, Admitted
<1>5. Op[1] # "none" /\ e \in Nat /\ TableRow[2] = Pops(Op[1], Op[2])
  BY <1>1, <1>3, <1>4, NotRefused DEF Admits
<1> DEFINE answer == [exists |-> TRUE, word |-> 0, data |-> <<>>]
<1>6. Executes(Op[1], Op[2], sc, answer, e)
  <2>1. answer \in Asked(Op[1])
    BY <1>1, NothingAsked
  <2> HIDE DEF answer
  <2>2. QED
    BY <1>1, <1>4, <2>1, AdmitsExecutes
<1> HIDE DEF answer
<1> DEFINE value == CallValue(Op[1], sc.stack)
           spent == Charge(meter.used, Cost(present))
           asked == ClampU64(Peek(sc.stack, 0))
           reserved == Forwarded(asked, meter.limit - spent)
           budget == reserved + (IF value # 0 THEN 2300 ELSE 0)
           given == IF child.all THEN 0 ELSE budget
           used == IF child.end = "refused" THEN spent ELSE Restored(spent + reserved, given)
<1>7. spent \in Nat /\ spent <= meter.limit /\ meter.limit \in Nat
  BY <1>4, ChargeFits
<1>8. IF value # 0 /\ contract.readOnly THEN After(Err(sc, "ErrStaticStateChange"), spent)
      ELSE After(Returned(Op[1], sc, child), used)
  BY <1>2 DEF CallTo
<1>9. asked \in Nat
  <2>1. sc.stack \in Seq(Word) /\ 0 < Len(sc.stack)
    <3>1. Pops(Op[1], Op[2]) = 7 \/ Pops(Op[1], Op[2]) = 6
      BY <1>1, TableOthers DEF Calls, Pops
    <3>2. sc.stack \in Seq(Word) /\ Len(sc.stack) \in Nat /\ Pops(Op[1], Op[2]) <= Len(sc.stack)
      BY <1>1, <1>4, AtByte DEF Admits
    <3>3. QED
      BY <3>1, <3>2
  <2>2. Peek(sc.stack, 0) \in Nat
    BY <2>1, PeekWord
  <2>3. QED
    BY <2>2, ClampNat
<1> HIDE DEF spent, asked, value
<1>10. reserved \in Nat /\ reserved <= meter.limit - spent
  <2> DEFINE left == meter.limit - spent
  <2>1. left \in Nat
    BY <1>7
  <2> HIDE DEF left
  <2>2. Forwarded(asked, left) \in Nat /\ Forwarded(asked, left) <= left
    BY <1>9, <2>1, ForwardedFits
  <2>3. QED
    BY <2>2 DEF left
<1> HIDE DEF reserved
<1>11. used \in Nat /\ used <= meter.limit
  <2>1. given \in Nat /\ spent + reserved \in Nat /\ spent + reserved <= meter.limit
    BY <1>7, <1>10
  <2> HIDE DEF given
  <2>2. Restored(spent + reserved, given) \in Nat /\ Restored(spent + reserved, given) <= spent + reserved
    BY <2>1, RestoredFits
  <2>3. QED
    BY <1>7, <2>1, <2>2
<1> HIDE DEF used
<1>12. CASE value # 0 /\ contract.readOnly
  <2> DEFINE t == Err(sc, "ErrStaticStateChange")
  <2>1. After(t, spent)
    BY <1>8, <1>12
  <2>2. Leads(Op[1], Op[2], sc, t, e)
    BY <1>1, <1>5, ErrGoes DEF Errors
  <2> HIDE DEF t
  <2>3. Leaves(t, spent)
    BY <1>1, <1>4, <1>5, <1>7, <2>2, LeavesOf
  <2>4. QED
    BY <1>1, <2>1, <2>3, AfterKeeps
<1>13. CASE ~(value # 0 /\ contract.readOnly)
  <2> DEFINE t == Returned(Op[1], sc, child)
  <2>1. After(t, used)
    BY <1>8, <1>13
  <2>2. Leads(Op[1], Op[2], sc, t, e)
    BY <1>1, <1>5, <1>6, ReturnedGo
  <2> HIDE DEF t
  <2>3. Leaves(t, used)
    BY <1>1, <1>4, <1>5, <1>11, <2>2, LeavesOf
  <2>4. QED
    BY <1>1, <2>1, <2>3, AfterKeeps
<1>14. QED
  BY <1>12, <1>13

\* DoCreate keeps the invariant.
LEMMA DoCreateKeeps == FrameInv /\ DoCreate => FrameInv'
<1> SUFFICES ASSUME FrameInv, DoCreate PROVE FrameInv'
  OBVIOUS
<1>1. InLoop /\ Op[1] \in Creates
  BY DEF DoCreate
<1>2. PICK child \in Children : CreateWith(child)
  BY DEF DoCreate
<1>3. Refusal(TRUE) = "none"
  BY <1>2 DEF CreateWith
<1>4. PICK e : Admits(TRUE, e)
  BY <1>1, <1>3, Admitted
<1>5. Op[1] # "none" /\ e \in Nat /\ TableRow[2] = Pops(Op[1], Op[2])
  BY <1>1, <1>3, <1>4, NotRefused DEF Admits
<1> DEFINE answer == [exists |-> TRUE, word |-> 0, data |-> <<>>]
<1>6. Executes(Op[1], Op[2], sc, answer, e)
  <2>1. answer \in Asked(Op[1])
    BY <1>1, NothingAsked
  <2> HIDE DEF answer
  <2>2. QED
    BY <1>1, <1>4, <2>1, AdmitsExecutes
<1> HIDE DEF answer
<1> DEFINE spent == Charge(meter.used, Cost(TRUE))
           energy == Forwarded(meter.limit - spent, meter.limit - spent)
           left == IF child.all THEN 0 ELSE energy
           deposit == IF child.end = "ok" THEN 200 * Len(child.data) ELSE 0
           used == IF child.end = "refused" THEN spent
                   ELSE IF deposit > left THEN spent + energy
                   ELSE Restored(spent + energy, left - deposit)
           paid == deposit <= left
<1>7. spent \in Nat /\ spent <= meter.limit /\ meter.limit \in Nat
  BY <1>4, ChargeFits
<1>8. Len(child.data) \in Nat
  BY ChildData, DataLen
<1>9. deposit \in Nat
  BY <1>8
<1>10. energy \in Nat /\ energy <= meter.limit - spent
  <2> HIDE DEF spent
  <2> DEFINE rest == meter.limit - spent
  <2>1. rest \in Nat
    BY <1>7
  <2> HIDE DEF rest
  <2>2. Forwarded(rest, rest) \in Nat /\ Forwarded(rest, rest) <= rest
    BY <2>1, ForwardedFits
  <2>3. QED
    BY <2>2 DEF rest
<1>11. IF contract.readOnly THEN After(Err(sc, "ErrStaticStateChange"), spent)
       ELSE After(Created(sc, child, paid, Context.CREATED),
                  CASE child.end = "refused" -> spent
                    [] deposit > left        -> spent + energy
                    [] OTHER                 -> Restored(spent + energy, left - deposit))
  BY <1>2 DEF CreateWith
<1> HIDE DEF spent, energy, deposit
<1>12. left \in Nat /\ spent + energy \in Nat /\ spent + energy <= meter.limit
  BY <1>7, <1>10
<1> HIDE DEF left, paid
<1>13. CASE contract.readOnly
  <2> DEFINE t == Err(sc, "ErrStaticStateChange")
  <2>1. After(t, spent)
    BY <1>11, <1>13
  <2>2. Leads(Op[1], Op[2], sc, t, e)
    BY <1>1, <1>5, ErrGoes DEF Errors
  <2> HIDE DEF t
  <2>3. Leaves(t, spent)
    BY <1>1, <1>4, <1>5, <1>7, <2>2, LeavesOf
  <2>4. QED
    BY <1>1, <2>1, <2>3, AfterKeeps
<1>14. CASE ~contract.readOnly
  <2> DEFINE t == Created(sc, child, paid, Context.CREATED)
  <2>1. PICK u : After(t, u) /\ u \in {spent, spent + energy, Restored(spent + energy, left - deposit)}
                 /\ (u \in {spent, spent + energy} \/ ~(deposit > left))
    BY <1>11, <1>14
  <2>2. u \in Nat /\ u <= meter.limit
    <3>1. CASE u \in {spent, spent + energy}
      BY <1>7, <1>12, <3>1
    <3>2. CASE u = Restored(spent + energy, left - deposit) /\ ~(deposit > left)
      <4> DEFINE a == spent + energy
                 k == left - deposit
      <4>1. a \in Nat /\ k \in Nat /\ a <= meter.limit
        BY <1>9, <1>12, <3>2
      <4> HIDE DEF a, k
      <4>2. Restored(a, k) \in Nat /\ Restored(a, k) <= a
        BY <4>1, RestoredFits
      <4>3. u = Restored(a, k)
        BY <3>2 DEF a, k
      <4>4. QED
        BY <1>7, <4>1, <4>2, <4>3
    <3>3. QED
      BY <2>1, <3>1, <3>2
  <2>3. Leads(Op[1], Op[2], sc, t, e)
    BY <1>1, <1>5, <1>6, CreatedGo
  <2> HIDE DEF t
  <2>4. Leaves(t, u)
    BY <1>1, <1>4, <1>5, <2>2, <2>3, LeavesOf
  <2>5. QED
    BY <1>1, <2>1, <2>4, AfterKeeps
<1>15. QED
  BY <1>13, <1>14

\* The stack checks come before any look into the stack.
LEMMA NoPanic ==
    ASSUME FrameInv, InLoop, NEW present
    PROVE  Refusal(present) # "panic"
<1>1. SUFFICES ASSUME Op[1] # "none", ~(Len(sc.stack) < TableRow[2]), PeekDepth > Len(sc.stack)
               PROVE  FALSE
  BY DEF Refusal
<1>2. contract \in Jobs /\ sc.pc \in Nat /\ sc.pc < Len(contract.Code) /\ Len(sc.stack) \in Nat
  BY AtByte DEF FrameInv, EnergyMetered
<1>3. PeekDepth \in Nat /\ PeekDepth <= TableRow[2]
  BY <1>1, <1>2, PeekWithin
<1>4. TableRow[2] \in Nat
  <2> DEFINE b == contract.Code[sc.pc + 1]
  <2>1. InTable(b, Op[1], Op[2]) /\ TableRow = Entry(b)
    BY <1>1, OpInTable
  <2> HIDE DEF b
  <2>2. Pops(Op[1], Op[2]) \in Nat
    BY <2>1, TakenPops DEF InTable
  <2>3. QED
    BY <2>1, <2>2 DEF InTable
<1>5. QED
  BY <1>1, <1>2, <1>3, <1>4

\* A change of the result and of the meter alone.
LEMMA EndKeeps ==
    ASSUME FrameInv, UNCHANGED <<contract, sc, memPaid>>, EnergyMetered', result'.over = TRUE, result'.err # "panic"
    PROVE  FrameInv'
<1>1. Ready(sc)'
  BY DEF FrameInv, Ready, IsData, Whole, Scope
<1>2. Over' /\ OnInstruction'
  BY DEF Over, OnInstruction, InLoop
<1>3. Paid'
  BY DEF FrameInv, Paid, MemCostWords, MemWords
<1>4. QED
  BY <1>1, <1>2, <1>3 DEF FrameInv

\* Fault keeps the invariant.
LEMMA FaultKeeps == FrameInv /\ Fault => FrameInv'
<1> SUFFICES ASSUME FrameInv, Fault PROVE FrameInv'
  OBVIOUS
<1>1. InLoop /\ UNCHANGED <<contract, sc, memPaid>>
  BY DEF Fault
<1>2. PICK present \in BOOLEAN :
          /\ meter' = [meter EXCEPT !.used = IF Refusal(present) = "ErrOutOfEnergy" THEN meter.limit ELSE @]
          /\ result' = Failed(sc, Refusal(present))
  BY DEF Fault
<1>3. EnergyMetered'
  <2>1. PICK u : meter' = [meter EXCEPT !.used = u] /\ u \in {meter.used, meter.limit}
    BY <1>2
  <2>2. QED
    BY <1>1, <2>1 DEF FrameInv, EnergyMetered
<1>4. Refusal(present) # "panic" /\ sc.pc \in Nat /\ Len(contract.Code) \in Nat /\ sc.pc < Len(contract.Code)
  BY <1>1, NoPanic, AtByte
<1>5. Refusal(present) \in {"ErrInvalidOpcode", "ErrStackUnderflow", "ErrStackOverflow", "panic", "ErrMemory",
                            "ErrOutOfEnergy", "none"}
  BY DEF Refusal
<1>6. result'.over = TRUE /\ result'.err # "panic"
  BY <1>2, <1>4, <1>5 DEF Failed
<1>7. QED
  BY <1>1, <1>3, <1>6, EndKeeps

\* Every step of runFrame keeps the invariant.
LEMMA FrameStep == FrameInv /\ [RunFrame]_frameVars => FrameInv'
<1> SUFFICES ASSUME FrameInv, [RunFrame]_frameVars PROVE FrameInv'
  OBVIOUS
<1>1. CASE Execute
  BY <1>1, ExecuteKeeps
<1>2. CASE DoCall
  BY <1>2, DoCallKeeps
<1>3. CASE DoCreate
  BY <1>3, DoCreateKeeps
<1>4. CASE Fault
  BY <1>4, FaultKeeps
<1>5. CASE End
  <2>1. UNCHANGED <<contract, sc, memPaid>> /\ result'.over = TRUE /\ result'.err # "panic"
    BY <1>5 DEF End
  <2>2. EnergyMetered'
    BY <1>5 DEF End, FrameInv, EnergyMetered
  <2>3. QED
    BY <2>1, <2>2, EndKeeps
<1>8. CASE ChildPanics
  <2> DEFINE r == [over |-> TRUE, err |-> "child panics"]
  <2>3. UNCHANGED <<contract, sc, memPaid>> /\ meter' = meter /\ result' = r
    BY <1>8, Zenon DEF ChildPanics
  <2>4. r.over = TRUE /\ r.err # "panic"
    OBVIOUS
  <2> HIDE DEF r
  <2>1. UNCHANGED <<contract, sc, memPaid>> /\ meter' = meter /\ result'.over = TRUE /\ result'.err # "panic"
    BY <2>3, <2>4
  <2>2. EnergyMetered'
    BY <2>1 DEF FrameInv, EnergyMetered
  <2>5. QED
    BY <2>1, <2>2, EndKeeps
<1>6. CASE UNCHANGED frameVars
  <2>1. contract' = contract /\ sc' = sc /\ meter' = meter /\ result' = result /\ memPaid' = memPaid
    BY <1>6 DEF frameVars
  <2>2. EnergyMetered' /\ Ready(sc)' /\ Over' /\ Paid'
    BY <2>1 DEF FrameInv, EnergyMetered, Ready, IsData, Whole, Scope, Over, Paid, MemCostWords, MemWords
  <2>3. OnInstruction'
    BY <2>1 DEF FrameInv, OnInstruction, InLoop, AtEnd, Instructions
  <2>4. QED
    BY <2>2, <2>3 DEF FrameInv
<1>7. QED
  BY <1>1, <1>2, <1>3, <1>4, <1>5, <1>6, <1>8 DEF RunFrame

\* The invariant holds throughout a frame.
LEMMA FrameInvariant == FrameSpec => []FrameInv
BY FrameInitInv, FrameStep, PTL DEF FrameSpec

\* A frame does not panic of its own, whatever its code: the stack checks of
\* the jump table cover every look into the stack, fail() is reached with pc
\* inside the code only, and no executor leaves more than MaxStack words.  A
\* panic of a callee, which ends the process, is left.
THEOREM StackTheorem == FrameSpec => []StackChecksSuffice
BY FrameInvariant, FrameInvSuffices, PTL

\* pc stays on instructions, for every code, whatever is jumped to.
THEOREM InstructionTheorem == FrameSpec => []OnInstruction
BY FrameInvariant, FrameInvSuffices, PTL

\* The energy charged for memory covers the memory in use, which is whole
\* words and never above the limit.
THEOREM MemoryTheorem == FrameSpec => []MemoryPaidFor
BY FrameInvariant, FrameInvSuffices, PTL

=============================================================================
