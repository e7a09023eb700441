---------------------------- MODULE ProcessProofs ----------------------------
(***************************************************************************)
(* The two processes: the node across its starts and crashes, and the      *)
(* client of the oracle process.                                           *)
(*                                                                         *)
(* The node: MarkedStateComplete and ServesMarkedChain for any set of      *)
(* genesis configurations, any entries and any number of crashes, engine   *)
(* errors and repeated starts.  While a first start runs, the store holds  *)
(* what the writes done so far last said of each key, whatever earlier     *)
(* starts left there; a restore rewrites the two stamps of the marked root *)
(* with themselves.                                                        *)
(*                                                                         *)
(* The oracle's client: AnswersOwnRequest for any number of callers,       *)
(* closers and calls.  The mutex leaves one caller between its check and   *)
(* its return; what lies in a pipe is the request of that caller, waiting  *)
(* for its answer, unless the oracle is gone, and then nothing is answered *)
(* any more.                                                               *)
(***************************************************************************)
EXTENDS Node, OracleClient, NatFacts, SequenceTheorems, TLAPS

-----------------------------------------------------------------------------
(* The inductive invariant of the node.                                    *)

Orders == Writes \cup {Malformed}

(* The store holds the last of the first n writes of w to each key.        *)
Written(w, n) ==
    \A i \in 1..n :
        (\A j \in 1..n : w[j].key = w[i].key => j <= i) => store[w[i].key] = w[i].val

(* Start has done the first n writes of w, and todo is the rest.           *)
DoneTo(w, n) ==
    /\ Len(todo) = Len(w) - n
    /\ \A i \in 1..Len(todo) : todo[i] = w[n + i]
    /\ \A i \in 1..n : w[i] # Malformed
    /\ Written(w, n)

Loading ==
    pc = "starting" /\ root = Absent =>
        /\ config \in Genesis
        /\ \E n \in 0..Len(InitGenesis(config)) : DoneTo(InitGenesis(config), n)

Stamping ==
    pc = "starting" /\ root # Absent =>
        /\ \A i \in 1..Len(todo) :
              todo[i] \in Writes /\ todo[i].key \in StampKeys /\ todo[i].val = root
        /\ config # NoGenesis => Id[config] = root

HeadOnlyUp == pc # "up" => head = Absent

IInv ==
    TypeOK /\ Loading /\ Stamping /\ HeadOnlyUp /\ MarkedStateComplete /\ ServesMarkedChain

-----------------------------------------------------------------------------
(* What InitGenesis and Stamp write.                                       *)

(* Both stamps are writes of the root's id to a stamp key.                 *)
LEMMA StampIs ==
  ASSUME NEW id \in Ids
  PROVE  /\ Stamp(id) \in Seq(Writes) /\ Len(Stamp(id)) = 2
         /\ \A i \in 1..2 : Stamp(id)[i].key \in StampKeys /\ Stamp(id)[i].val = id
         /\ \A k \in StampKeys : \E i \in 1..2 : Stamp(id)[i].key = k
  BY DEF Stamp, Writes, StoreKeys, StampKeys

(* A first start writes entries and stamps, in store keys.                 *)
LEMMA InitGenesisIs ==
  ASSUME NEW g \in Genesis
  PROVE  /\ InitGenesis(g) \in Seq(Orders)
         /\ \A i \in 1..Len(Entries[g]) :
               i \in 1..Len(InitGenesis(g)) /\ InitGenesis(g)[i] = Entries[g][i]
         /\ Id[g] = BadHeader => \E i \in 1..Len(InitGenesis(g)) : InitGenesis(g)[i] = Malformed
         /\ Id[g] # BadHeader =>
               /\ Len(InitGenesis(g)) = Len(Entries[g]) + 2
               /\ \A i \in 1..2 : InitGenesis(g)[Len(Entries[g]) + i] = Stamp(Id[g])[i]
  <1>1. Entries[g] \in Seq(Orders) /\ Len(Entries[g]) \in Nat
    BY EntriesAssumption, LenProperties DEF Orders
  <1>2. CASE Id[g] = BadHeader
    <2>1. InitGenesis(g) = Entries[g] \o <<Malformed>>
      BY <1>2 DEF InitGenesis
    <2>2. <<Malformed>> \in Seq(Orders)
      BY DEF Orders
    <2>3. InitGenesis(g)[Len(Entries[g]) + 1] = Malformed
      BY <1>1, <2>1, <2>2
    <2> QED
      BY <1>1, <1>2, <2>1, <2>2, <2>3
  <1>3. CASE Id[g] # BadHeader
    <2>1. InitGenesis(g) = Entries[g] \o Stamp(Id[g]) /\ Id[g] \in Ids
      BY <1>3 DEF InitGenesis, Ids
    <2>2. Stamp(Id[g]) \in Seq(Orders) /\ Len(Stamp(Id[g])) = 2
      BY <2>1, StampIs DEF Orders
    <2> DEFINE e == Entries[g]
               st == Stamp(Id[g])
               w == InitGenesis(g)
    <2>a. e \in Seq(Orders) /\ st \in Seq(Orders) /\ w = e \o st /\ Len(st) = 2
      BY <1>1, <2>1, <2>2
    <2> HIDE DEF e, st, w
    <2>b. /\ w \in Seq(Orders) /\ Len(w) = Len(e) + Len(st) /\ Len(e) \in Nat
          /\ \A i \in 1..Len(e) + Len(st) : w[i] = IF i <= Len(e) THEN e[i] ELSE st[i - Len(e)]
      BY <2>a, ConcatProperties, LenProperties, Zenon
    <2>3. w \in Seq(Orders) /\ Len(w) = Len(e) + 2
      BY <2>a, <2>b
    <2>4. \A i \in 1..Len(e) : i \in 1..Len(w) /\ w[i] = e[i]
      BY <2>a, <2>b
    <2>5. \A i \in 1..2 : w[Len(e) + i] = st[i]
      BY <2>a, <2>b
    <2> QED
      BY <1>3, <2>3, <2>4, <2>5 DEF e, st, w
  <1> QED
    BY <1>2, <1>3

(* What all writes leave under a key is what the last of them said.        *)
LEMMA AfterIsLast ==
  ASSUME NEW w \in Seq(Orders), NEW k \in StoreKeys, After(w)[k] # Absent
  PROVE  \E i \in 1..Len(w) :
            /\ w[i].key = k /\ After(w)[k] = w[i].val
            /\ \A j \in 1..Len(w) : w[j].key = k => j <= i
  <1> DEFINE ks == {i \in 1..Len(w) : w[i].key = k}
             last == CHOOSE i \in ks : \A j \in ks : j <= i
  <1>1. After(w)[k] = IF ks = {} THEN Absent ELSE w[last].val
    BY DEF After
  <1>2. ks # {}
    BY <1>1
  <1>3. \E i \in ks : \A j \in ks : j <= i
    <2>1. Len(w) \in Nat /\ ks \in SUBSET (0..Len(w))
      BY LenProperties
    <2> HIDE DEF ks
    <2> QED
      BY <1>2, <2>1, GreatestNat
  <1>4. last \in ks /\ \A j \in ks : j <= last
    BY <1>3
  <1> QED
    BY <1>1, <1>2, <1>4

(* The stamps are written last: in the loaded state they name the root.    *)
LEMMA LoadedStamps ==
  ASSUME NEW g \in Genesis, Id[g] # BadHeader, NEW k \in StampKeys, Loaded(g)[k] # Absent
  PROVE  Loaded(g)[k] = Id[g]
  <1> DEFINE w == InitGenesis(g)
             L == Len(Entries[g])
  <1>1. /\ w \in Seq(Orders) /\ Len(w) = L + 2 /\ L \in Nat
        /\ \A i \in 1..2 : w[L + i] = Stamp(Id[g])[i]
    BY InitGenesisIs, EntriesAssumption, LenProperties DEF Orders
  <1>2. Id[g] \in Ids /\ k \in StoreKeys
    BY DEF Ids, StoreKeys
  <1>3. PICK n \in 1..2 : w[L + n].key = k
    BY <1>1, <1>2, StampIs
  <1> HIDE DEF w, L
  <1>4. PICK i \in 1..Len(w) :
            /\ w[i].key = k /\ After(w)[k] = w[i].val
            /\ \A j \in 1..Len(w) : w[j].key = k => j <= i
    BY <1>1, <1>2, AfterIsLast DEF Loaded, w
  <1>5. i \in {L + 1, L + 2}
    BY <1>1, <1>3, <1>4
  <1>6. w[i].val = Id[g]
    BY <1>1, <1>2, <1>5, StampIs
  <1> QED
    BY <1>4, <1>6 DEF Loaded, w

-----------------------------------------------------------------------------
(* The steps.                                                              *)

(* An empty store satisfies the invariant.                                 *)
LEMMA InitInv == Init => IInv
  <1> SUFFICES ASSUME Init PROVE IInv
    OBVIOUS
  <1>1. TypeOK
    BY EntriesAssumption DEF Init, TypeOK, Empty, Configs
  <1>2. Loading /\ Stamping /\ HeadOnlyUp
    BY DEF Init, Loading, Stamping, HeadOnlyUp
  <1>3. MarkedStateComplete /\ ServesMarkedChain
    BY DEF Init, MarkedStateComplete, ServesMarkedChain
  <1> QED
    BY <1>1, <1>2, <1>3 DEF IInv

(* Steps that leave store, marker and the running start alone, or end it.  *)
LEMMA MarkStays ==
  ASSUME MarkedStateComplete, UNCHANGED <<store, root>>
  PROVE  MarkedStateComplete'
  BY DEF MarkedStateComplete

(* A restore begins with the stamps of the marked root.                    *)
LEMMA RestoreInv == ASSUME IInv, NEW g \in Configs, RestoreRoot(g) PROVE IInv'
  <1>1. root \in Ids
    BY DEF IInv, TypeOK, RestoreRoot
  <1>2. Stamp(root) \in Seq(Orders) /\ TypeOK'
    BY <1>1, StampIs DEF IInv, TypeOK, RestoreRoot, Orders
  <1>3. Loading' /\ HeadOnlyUp' /\ ServesMarkedChain'
    BY DEF IInv, RestoreRoot, Loading, HeadOnlyUp, ServesMarkedChain
  <1>4. Stamping'
    BY <1>1, StampIs DEF IInv, RestoreRoot, Stamping
  <1>5. MarkedStateComplete'
    BY MarkStays DEF IInv, RestoreRoot
  <1> QED
    BY <1>2, <1>3, <1>4, <1>5 DEF IInv

(* A first start begins with nothing of its own written.                   *)
LEMMA StartFreshInv == ASSUME IInv, NEW g \in Configs, StartFresh(g) PROVE IInv'
  <1>1. g \in Genesis
    BY DEF Configs, StartFresh
  <1> DEFINE w == InitGenesis(g)
  <1>2. w \in Seq(Orders) /\ Len(w) \in Nat
    BY <1>1, InitGenesisIs, LenProperties
  <1>3. TypeOK'
    BY <1>2 DEF IInv, TypeOK, StartFresh, Orders
  <1>4. Loading'
    <2>1. config' = g /\ todo' = w
      BY DEF StartFresh
    <2> HIDE DEF w
    <2>2. DoneTo(w, 0)'
      BY <1>2, <2>1 DEF DoneTo, Written
    <2> QED
      BY <1>1, <1>2, <2>1, <2>2 DEF Loading, w
  <1>5. Stamping' /\ HeadOnlyUp' /\ ServesMarkedChain'
    BY DEF IInv, StartFresh, Stamping, HeadOnlyUp, ServesMarkedChain
  <1>6. MarkedStateComplete'
    BY MarkStays DEF IInv, StartFresh
  <1> QED
    BY <1>3, <1>4, <1>5, <1>6 DEF IInv

(* Without a chain nothing is served.                                      *)
LEMMA AwaitInv == ASSUME IInv, NEW g \in Configs, AwaitBootstrap(g) PROVE IInv'
  <1>1. TypeOK'
    BY DEF IInv, TypeOK, AwaitBootstrap
  <1>2. Loading' /\ Stamping' /\ HeadOnlyUp' /\ ServesMarkedChain'
    BY DEF IInv, AwaitBootstrap, Loading, Stamping, HeadOnlyUp, ServesMarkedChain
  <1>3. MarkedStateComplete'
    BY MarkStays DEF IInv, AwaitBootstrap
  <1> QED
    BY <1>1, <1>2, <1>3 DEF IInv

(* One more write of a first start.                                        *)
LEMMA WriteDone ==
  ASSUME TypeOK, PutNext, NEW w \in Seq(Orders), NEW n \in 0..Len(w), DoneTo(w, n)
  PROVE  n + 1 \in 0..Len(w) /\ DoneTo(w, n + 1)'
  <1>1. Len(w) \in Nat /\ todo \in Seq(Orders) /\ Len(todo) \in Nat /\ Len(todo) # 0
    BY LenProperties, EmptySeq DEF TypeOK, PutNext, Orders
  <1>2. n + 1 \in 1..Len(w)
    BY <1>1 DEF DoneTo
  <1>3. Head(todo) = w[n + 1] /\ w[n + 1] # Malformed
    BY <1>1 DEF DoneTo, PutNext
  <1>4. w[n + 1].key \in StoreKeys
    BY <1>2, <1>3 DEF Orders, Writes
  <1>5. Len(todo') = Len(w) - (n + 1) /\ \A i \in 1..Len(todo') : todo'[i] = w[(n + 1) + i]
    <2>1. Len(todo') = Len(todo) - 1 /\ \A i \in 1..Len(todo') : todo'[i] = todo[i + 1]
      BY <1>1 DEF PutNext
    <2> QED
      BY <1>1, <2>1 DEF DoneTo
  <1>6. \A i \in 1..(n + 1) : w[i] # Malformed
    BY <1>3 DEF DoneTo
  <1>7. Written(w, n + 1)'
    <2> SUFFICES ASSUME NEW i \in 1..(n + 1),
                        \A j \in 1..(n + 1) : w[j].key = w[i].key => j <= i
                 PROVE  store'[w[i].key] = w[i].val
      BY DEF Written
    <2>1. store' = [store EXCEPT ![w[n + 1].key] = w[n + 1].val]
      BY <1>3 DEF PutNext
    <2>2. CASE i = n + 1
      BY <1>4, <2>1, <2>2 DEF TypeOK
    <2>3. CASE i \in 1..n
      <3>1. w[i].key # w[n + 1].key
        BY <1>2, <2>3
      <3>2. store[w[i].key] = w[i].val
        BY <2>3 DEF DoneTo, Written
      <3> QED
        BY <2>1, <3>1, <3>2 DEF TypeOK
    <2> QED
      BY <2>2, <2>3
  <1> QED
    BY <1>2, <1>5, <1>6, <1>7 DEF DoneTo

(* A write of a start: of a first one it is recorded as done, of a restore *)
(* it stamps what the loaded state already says.                           *)
LEMMA PutNextInv == ASSUME IInv, PutNext PROVE IInv'
  <1>1. /\ todo \in Seq(Orders) /\ Len(todo) \in Nat /\ Len(todo) # 0
        /\ Head(todo) = todo[1] /\ Head(todo) \in Writes
        /\ Tail(todo) \in Seq(Orders)
    <2>1. todo \in Seq(Orders) /\ Len(todo) \in Nat /\ Len(todo) # 0
      BY LenProperties, EmptySeq DEF IInv, TypeOK, PutNext, Orders
    <2> QED
      BY <2>1, HeadTailProperties DEF PutNext, Orders
  <1>2. TypeOK'
    <2>1. Head(todo).key \in StoreKeys /\ Head(todo).val \in Vals \cup Ids
      BY <1>1 DEF Writes
    <2>2. store' \in [StoreKeys -> Vals \cup Ids \cup {Absent}]
      BY <2>1 DEF IInv, TypeOK, PutNext
    <2> QED
      BY <1>1, <2>2 DEF IInv, TypeOK, PutNext, Orders
  <1>3. Loading'
    <2> SUFFICES ASSUME root = Absent PROVE Loading'
      BY DEF Loading, PutNext
    <2>1. config \in Genesis /\ InitGenesis(config) \in Seq(Orders)
      BY InitGenesisIs DEF IInv, Loading, PutNext
    <2>2. PICK n \in 0..Len(InitGenesis(config)) : DoneTo(InitGenesis(config), n)
      BY DEF IInv, Loading, PutNext
    <2>3. config' = config
      BY DEF PutNext
    <2> DEFINE w == InitGenesis(config)
    <2>4. w' = w
      BY <2>3
    <2>5. n + 1 \in 0..Len(w)
      BY <2>1, <2>2, WriteDone DEF IInv
    <2>6. DoneTo(w, n + 1)'
      BY <2>1, <2>2, <2>4, WriteDone DEF IInv
    <2> QED
      BY <2>1, <2>3, <2>4, <2>5, <2>6 DEF Loading
  <1>4. Stamping'
    BY <1>1 DEF IInv, Stamping, PutNext
  <1>5. HeadOnlyUp' /\ ServesMarkedChain'
    BY DEF IInv, HeadOnlyUp, ServesMarkedChain, PutNext
  <1>6. MarkedStateComplete'
    <2> SUFFICES ASSUME root # Absent PROVE MarkedStateComplete'
      BY DEF MarkedStateComplete, PutNext
    <2>1. Head(todo).key \in StampKeys /\ Head(todo).val = root
      BY <1>1 DEF IInv, Stamping, PutNext
    <2>2. PICK g \in LoadableAs(root) :
              \A k \in StoreKeys : Loaded(g)[k] # Absent => store[k] = Loaded(g)[k]
      BY DEF IInv, MarkedStateComplete
    <2>3. g \in Genesis /\ Id[g] = root /\ Id[g] # BadHeader
      BY DEF LoadableAs, IInv, TypeOK, Ids
    <2>4. ASSUME NEW k \in StoreKeys, Loaded(g)[k] # Absent PROVE store'[k] = Loaded(g)[k]
      <3>1. CASE k = Head(todo).key
        BY <2>1, <2>3, <2>4, <3>1, LoadedStamps DEF IInv, TypeOK, PutNext
      <3>2. CASE k # Head(todo).key
        BY <2>2, <2>4, <3>2 DEF IInv, TypeOK, PutNext
      <3> QED
        BY <3>1, <3>2
    <2> QED
      BY <2>2, <2>4 DEF MarkedStateComplete, PutNext
  <1> QED
    BY <1>2, <1>3, <1>4, <1>5, <1>6 DEF IInv

(* Every way a start or a running node ends: store and marker stay.        *)
LEMMA EndInv == ASSUME IInv, RejectGenesis \/ WriteError \/ Stop \/ Crash PROVE IInv'
  <1>1. UNCHANGED <<store, root, config>> /\ pc' = "down" /\ head' = Absent
    BY DEF IInv, HeadOnlyUp, RejectGenesis, WriteError, FailStart, Stop, Crash
  <1>2. todo' \in {todo, <<>>} /\ faults' \in 0..MaxFaults
    BY EntriesAssumption DEF IInv, TypeOK, RejectGenesis, WriteError, FailStart, Stop, Crash
  <1>3. TypeOK'
    <2>1. todo' \in Seq(Writes \cup {Malformed})
      <3>1. <<>> \in Seq(Writes \cup {Malformed})
        BY EmptySeq, Zenon
      <3> QED
        BY <1>2, <3>1, Zenon DEF IInv, TypeOK
    <2>2. pc' \in {"down", "starting", "up"} /\ head' \in Ids \cup {Absent}
      BY <1>1
    <2> QED
      BY <1>1, <1>2, <2>1, <2>2 DEF IInv, TypeOK
  <1>4. Loading' /\ Stamping' /\ HeadOnlyUp' /\ ServesMarkedChain'
    BY <1>1 DEF Loading, Stamping, HeadOnlyUp, ServesMarkedChain
  <1>5. MarkedStateComplete'
    BY <1>1, MarkStays DEF IInv
  <1> QED
    BY <1>3, <1>4, <1>5 DEF IInv

(* The marker is written when every write of the genesis is done.          *)
LEMMA PersistRootInv == ASSUME IInv, PersistRoot PROVE IInv'
  <1>1. config \in Genesis /\ InitGenesis(config) \in Seq(Orders)
    BY InitGenesisIs DEF IInv, Loading, PersistRoot
  <1> DEFINE w == InitGenesis(config)
  <1>2. PICK n \in 0..Len(w) : DoneTo(w, n)
    BY DEF IInv, Loading, PersistRoot
  <1>3. Len(w) \in Nat /\ Len(todo) = 0
    BY <1>1, LenProperties DEF PersistRoot
  <1>4. n = Len(w)
    BY <1>2, <1>3 DEF DoneTo
  <1>5. (\A i \in 1..Len(w) : w[i] # Malformed) /\ Written(w, Len(w))
    BY <1>2, <1>4 DEF DoneTo
  <1>6. Id[config] # BadHeader /\ Id[config] \in Ids /\ config \in LoadableAs(Id[config])
    <2>1. Id[config] # BadHeader
      BY <1>1, <1>5, InitGenesisIs
    <2>2. \A i \in 1..Len(Entries[config]) : Entries[config][i] # Malformed
      BY <1>1, <1>5, InitGenesisIs
    <2> QED
      BY <1>1, <2>1, <2>2 DEF Ids, LoadableAs
  <1>7. TypeOK'
    BY <1>6 DEF IInv, TypeOK, PersistRoot
  <1>8. Loading' /\ Stamping' /\ HeadOnlyUp'
    BY DEF PersistRoot, Loading, Stamping, HeadOnlyUp
  <1>9. ServesMarkedChain'
    BY DEF PersistRoot, ServesMarkedChain
  <1>10. MarkedStateComplete'
    <2>1. ASSUME NEW k \in StoreKeys, Loaded(config)[k] # Absent
          PROVE  store[k] = Loaded(config)[k]
      <3> HIDE DEF w
      <3>1. PICK i \in 1..Len(w) :
                /\ w[i].key = k /\ After(w)[k] = w[i].val
                /\ \A j \in 1..Len(w) : w[j].key = k => j <= i
        BY <1>1, <2>1, AfterIsLast DEF Loaded, w
      <3>2. store[w[i].key] = w[i].val
        BY <1>5, <3>1 DEF Written
      <3> QED
        BY <3>1, <3>2 DEF Loaded, w
    <2>2. root' = Id[config] /\ store' = store
      BY DEF PersistRoot
    <2> QED
      BY <1>6, <2>1, <2>2 DEF MarkedStateComplete
  <1> QED
    BY <1>7, <1>8, <1>9, <1>10 DEF IInv

(* A restored node serves the marked root.                                 *)
LEMMA RestoredInv == ASSUME IInv, Restored PROVE IInv'
  <1>1. TypeOK'
    BY DEF IInv, TypeOK, Restored
  <1>2. Loading' /\ Stamping' /\ HeadOnlyUp'
    BY DEF Restored, Loading, Stamping, HeadOnlyUp
  <1>3. ServesMarkedChain'
    BY DEF IInv, Stamping, Restored, ServesMarkedChain
  <1>4. MarkedStateComplete'
    BY MarkStays DEF IInv, Restored
  <1> QED
    BY <1>1, <1>2, <1>3, <1>4 DEF IInv

(* Every step preserves the invariant.                                     *)
LEMMA StepInv == IInv /\ [Next]_vars => IInv'
  <1> SUFFICES ASSUME IInv, [Next]_vars PROVE IInv'
    OBVIOUS
  <1>1. CASE UNCHANGED vars
    BY <1>1 DEF vars, IInv, TypeOK, Loading, DoneTo, Written, Stamping, HeadOnlyUp,
                MarkedStateComplete, ServesMarkedChain
  <1>2. CASE \E g \in Configs : Start(g)
    BY <1>2, RestoreInv, StartFreshInv, AwaitInv DEF Start
  <1>3. CASE Proceed \/ WriteError \/ Stop \/ Crash
    BY <1>3, PutNextInv, PersistRootInv, RestoredInv, EndInv DEF Proceed
  <1> QED
    BY <1>1, <1>2, <1>3 DEF Next

(* For every set of configurations: a store that carries the root marker   *)
(* holds the whole state of a genesis with that root, however many starts  *)
(* crashed, failed or were given other configurations before.              *)
THEOREM MarkedComplete == Spec => []MarkedStateComplete
  <1>1. IInv => MarkedStateComplete
    BY DEF IInv
  <1> QED
    BY <1>1, InitInv, StepInv, PTL DEF Spec

(* For every set of configurations: a node that is up serves the chain of  *)
(* the marker, and the one of the genesis it was given.                    *)
THEOREM ServesMarked == Spec => []ServesMarkedChain
  <1>1. IInv => ServesMarkedChain
    BY DEF IInv
  <1> QED
    BY <1>1, InitInv, StepInv, PTL DEF Spec

-----------------------------------------------------------------------------
(* The inductive invariant of the oracle's client.                         *)

Requests == Callers \X Nat
Answers == [kind : Lines, request : Requests]

Labels == {"idle", "lock", "check", "write", "scan", "stdin", "wait", "done"}

OracleTypeOK ==
    /\ at \in [Callers \cup Closers -> Labels]
    /\ calls \in [Callers -> Nat]
    /\ stdin \in [open : BOOLEAN, queue : Seq(Requests)]
    /\ stdout \in [open : BOOLEAN, queue : Seq(Answers)]
    /\ DOMAIN result = Callers

Inside == {"check", "write", "scan"}

(* A caller is inside roundTrip's critical section iff it holds the mutex. *)
MutexHeld == \A c \in Callers : at[c] \in Inside <=> mu = c

(* At most one request is on its way, and in one pipe.                     *)
OneUnderWay == Len(stdin.queue) + Len(stdout.queue) <= 1

Waiting(r) == \E c \in Callers : at[c] = "scan" /\ r = Request(c)

(* A line is the answer to the request of the caller that waits for one; a *)
(* request is that of such a caller, or the oracle that should read it is  *)
(* gone.                                                                   *)
LineIsAwaited ==
    /\ stdout.queue # <<>> => Waiting(Head(stdout.queue).request)
    /\ stdin.queue # <<>> => oracle = "exited" \/ Waiting(Head(stdin.queue))

(* Wait closes the reading end after the oracle's end.                     *)
ClosedIsEmpty == ~stdout.open => oracle = "exited" /\ stdout.queue = <<>>

ResultsOwn ==
    \A c \in Callers : at[c] = "idle" /\ result[c][1] = "answer" => result[c][2] = Request(c)

OracleInv == OracleTypeOK /\ MutexHeld /\ OneUnderWay /\ LineIsAwaited /\ ClosedIsEmpty /\ ResultsOwn

-----------------------------------------------------------------------------
(* NewOracleClient establishes the invariant.                               *)
LEMMA OracleInitInv == OracleInit => OracleInv
  <1> SUFFICES ASSUME OracleInit PROVE OracleInv
    OBVIOUS
  <1>1. OracleTypeOK
    <2>1. calls \in [Callers -> Nat] /\ DOMAIN result = Callers
      BY DEF OracleInit
    <2>2. at \in [Callers \cup Closers -> Labels]
      BY DEF OracleInit, Labels
    <2>3. stdin \in [open : BOOLEAN, queue : Seq(Requests)]
      BY DEF OracleInit
    <2>4. stdout \in [open : BOOLEAN, queue : Seq(Answers)]
      BY DEF OracleInit
    <2> QED
      BY <2>1, <2>2, <2>3, <2>4 DEF OracleTypeOK
  <1>2. MutexHeld
    BY OracleClientAssumption DEF OracleInit, MutexHeld, Inside
  <1>3. OneUnderWay /\ LineIsAwaited /\ ClosedIsEmpty
    BY DEF OracleInit, OneUnderWay, LineIsAwaited, ClosedIsEmpty
  <1>4. ResultsOwn
    BY DEF OracleInit, ResultsOwn
  <1> QED
    BY <1>1, <1>2, <1>3, <1>4 DEF OracleInv

-----------------------------------------------------------------------------
(* Sequences of at most one element.                                       *)

(* Reading the only element leaves nothing.                                *)
LEMMA OneElement ==
  ASSUME NEW S, NEW q \in Seq(S), q # <<>>, Len(q) <= 1
  PROVE  Len(q) = 1 /\ Tail(q) = <<>> /\ Head(q) \in S
  <1>1. Head(q) \in S /\ Tail(q) \in Seq(S) /\ Len(Tail(q)) = Len(q) - 1
    BY HeadTailProperties
  <1>2. Len(q) = 1
    <2>1. Len(q) \in Nat /\ Len(q) # 0
      BY EmptySeq, LenProperties
    <2> QED
      BY <2>1
  <1>3. Tail(q) = <<>>
    <2>1. Len(Tail(q)) = 0
      BY <1>1, <1>2
    <2>2. \A s \in Seq(S) : s = <<>> <=> Len(s) = 0
      BY EmptySeq, Zenon
    <2> QED
      BY <1>1, <2>1, <2>2, Zenon
  <1> QED
    BY <1>1, <1>2, <1>3

(* Writing into an empty pipe.                                             *)
LEMMA AppendToEmpty ==
  ASSUME NEW S, NEW x \in S
  PROVE  LET q == Append(<<>>, x) IN q \in Seq(S) /\ Len(q) = 1 /\ Head(q) = x
  OBVIOUS

(* A caller that waits for its answer is the one that holds the mutex.     *)
LEMMA WaitingHolds ==
  ASSUME MutexHeld, NEW c \in Callers, at[c] \in Inside, NEW r, Waiting(r)
  PROVE  at[c] = "scan" /\ r = Request(c)
  BY DEF MutexHeld, Inside, Waiting

(* What a caller waits for stays if its place and its count do.            *)
LEMMA WaitingStays ==
  ASSUME NEW r, Waiting(r),
         \A d \in Callers : at[d] = "scan" => at'[d] = "scan" /\ calls'[d] = calls[d]
  PROVE  Waiting(r)'
  BY DEF Waiting, Request

-----------------------------------------------------------------------------
(* Steps that leave queues, oracle and what waits alone.                   *)
LEMMA PipesStay ==
  ASSUME OracleInv, UNCHANGED <<stdin, stdout, oracle>>,
         \A d \in Callers : at[d] = "scan" => at'[d] = "scan" /\ calls'[d] = calls[d]
  PROVE  OneUnderWay' /\ LineIsAwaited' /\ ClosedIsEmpty'
  <1>1. OneUnderWay' /\ ClosedIsEmpty'
    BY DEF OracleInv, OneUnderWay, ClosedIsEmpty
  <1>2. LineIsAwaited'
    BY WaitingStays DEF OracleInv, LineIsAwaited
  <1> QED
    BY <1>1, <1>2

(* A call begins outside the critical section.                             *)
LEMMA BeginInv == ASSUME OracleInv, NEW c \in Callers, Begin(c) PROVE OracleInv'
  <1>1. OracleTypeOK'
    BY DEF OracleInv, Begin, Go, OracleTypeOK, Labels
  <1>2. MutexHeld'
    BY DEF OracleInv, Begin, Go, OracleTypeOK, MutexHeld, Inside
  <1>3. OneUnderWay' /\ LineIsAwaited' /\ ClosedIsEmpty'
    BY PipesStay DEF OracleInv, Begin, Go, OracleTypeOK
  <1>4. ResultsOwn'
    BY DEF OracleInv, Begin, Go, OracleTypeOK, ResultsOwn, Request
  <1> QED
    BY <1>1, <1>2, <1>3, <1>4 DEF OracleInv

(* Lock lets one caller in, and only when none is inside.                  *)
LEMMA LockInv == ASSUME OracleInv, NEW c \in Callers, Lock(c) PROVE OracleInv'
  <1>1. OracleTypeOK'
    BY DEF OracleInv, Lock, Go, OracleTypeOK, Labels
  <1>2. MutexHeld'
    BY OracleClientAssumption DEF OracleInv, Lock, Go, OracleTypeOK, MutexHeld, Inside
  <1>3. OneUnderWay' /\ LineIsAwaited' /\ ClosedIsEmpty'
    BY PipesStay DEF OracleInv, Lock, Go, OracleTypeOK
  <1>4. ResultsOwn'
    BY DEF OracleInv, Lock, Go, OracleTypeOK, ResultsOwn, Request
  <1> QED
    BY <1>1, <1>2, <1>3, <1>4 DEF OracleInv

(* The check of the closed channel keeps the caller inside.                *)
LEMMA CheckOpenInv == ASSUME OracleInv, NEW c \in Callers, CheckOpen(c) PROVE OracleInv'
  <1>1. OracleTypeOK'
    BY DEF OracleInv, CheckOpen, Go, OracleTypeOK, Labels
  <1>2. MutexHeld'
    BY DEF OracleInv, CheckOpen, Go, OracleTypeOK, MutexHeld, Inside
  <1>3. OneUnderWay' /\ LineIsAwaited' /\ ClosedIsEmpty'
    BY PipesStay DEF OracleInv, CheckOpen, Go, OracleTypeOK
  <1>4. ResultsOwn'
    BY DEF OracleInv, CheckOpen, Go, OracleTypeOK, ResultsOwn, Request
  <1> QED
    BY <1>1, <1>2, <1>3, <1>4 DEF OracleInv

(* Every return: the mutex is free again, and the result is an answer only *)
(* if it is the caller's own.                                              *)
LEMMA ReturnInv ==
  ASSUME OracleInv, NEW c \in Callers, NEW from \in Inside, NEW answer,
         Return(c, from, answer), calls' = calls,
         answer[1] = "answer" => answer[2] = Request(c)
  PROVE  MutexHeld' /\ ResultsOwn' /\ at' \in [Callers \cup Closers -> Labels]
         /\ DOMAIN result' = Callers
  <1>1. at' \in [Callers \cup Closers -> Labels] /\ DOMAIN result' = Callers
    BY DEF OracleInv, Return, Go, OracleTypeOK, Labels
  <1>2. MutexHeld'
    BY OracleClientAssumption DEF OracleInv, Return, Go, OracleTypeOK, MutexHeld, Inside
  <1>3. ResultsOwn'
    BY DEF OracleInv, Return, Go, OracleTypeOK, ResultsOwn, Request
  <1> QED
    BY <1>1, <1>2, <1>3

(* The return on a closed client.                                          *)
LEMMA ReturnClosedInv == ASSUME OracleInv, NEW c \in Callers, ReturnClosed(c) PROVE OracleInv'
  <1>1. MutexHeld' /\ ResultsOwn' /\ OracleTypeOK'
    BY ReturnInv DEF OracleInv, ReturnClosed, OracleTypeOK, Inside
  <1>2. OneUnderWay' /\ LineIsAwaited' /\ ClosedIsEmpty'
    BY PipesStay DEF OracleInv, ReturnClosed, Return, Go, OracleTypeOK
  <1> QED
    BY <1>1, <1>2 DEF OracleInv

(* The return on a failed write.                                           *)
LEMMA WriteFailsInv == ASSUME OracleInv, NEW c \in Callers, WriteFails(c) PROVE OracleInv'
  <1>1. MutexHeld' /\ ResultsOwn' /\ OracleTypeOK'
    BY ReturnInv DEF OracleInv, WriteFails, OracleTypeOK, Inside
  <1>2. OneUnderWay' /\ LineIsAwaited' /\ ClosedIsEmpty'
    BY PipesStay DEF OracleInv, WriteFails, Return, Go, OracleTypeOK
  <1> QED
    BY <1>1, <1>2 DEF OracleInv

(* The request goes out on empty pipes: what lies in one belongs to the    *)
(* caller that waits, and that is not c.                                   *)
LEMMA WriteInv == ASSUME OracleInv, NEW c \in Callers, Write(c) PROVE OracleInv'
  <1>1. at[c] \in Inside /\ at[c] # "scan" /\ Request(c) \in Requests
    BY DEF OracleInv, Write, Go, Inside, OracleTypeOK, Request, Requests
  <1>2. stdout.queue = <<>> /\ stdin.queue = <<>>
    BY <1>1, WaitingHolds DEF OracleInv, LineIsAwaited, Write
  <1>3. stdin' = [open |-> stdin.open, queue |-> Append(<<>>, Request(c))]
    BY <1>2 DEF OracleInv, OracleTypeOK, Write
  <1>4. /\ stdin'.queue \in Seq(Requests) /\ Len(stdin'.queue) = 1
        /\ Head(stdin'.queue) = Request(c)
    BY <1>1, <1>3, AppendToEmpty
  <1>5. OracleTypeOK'
    BY <1>3, <1>4 DEF OracleInv, Write, Go, OracleTypeOK, Labels
  <1>6. MutexHeld'
    BY DEF OracleInv, Write, Go, OracleTypeOK, MutexHeld, Inside
  <1>7. OneUnderWay' /\ ClosedIsEmpty'
    BY <1>2, <1>4 DEF OracleInv, OneUnderWay, ClosedIsEmpty, Write
  <1>8. LineIsAwaited'
    <2>1. at'[c] = "scan" /\ Request(c)' = Request(c)
      BY DEF OracleInv, OracleTypeOK, Write, Go, Request
    <2> QED
      BY <1>2, <1>4, <2>1 DEF LineIsAwaited, Waiting, Write
  <1>9. ResultsOwn'
    BY DEF OracleInv, Write, Go, OracleTypeOK, ResultsOwn, Request
  <1> QED
    BY <1>5, <1>6, <1>7, <1>8, <1>9 DEF OracleInv

(* The line read is the only one, and the answer to c's request.           *)
LEMMA ScanInv == ASSUME OracleInv, NEW c \in Callers, Scan(c) PROVE OracleInv'
  <1>1. at[c] = "scan" /\ at[c] \in Inside
    BY DEF Scan, Return, Go, Inside
  <1>2. Head(stdout.queue).request = Request(c)
    BY <1>1, WaitingHolds DEF OracleInv, LineIsAwaited, Scan
  <1>3. /\ Len(stdin.queue) \in Nat /\ Len(stdout.queue) \in Nat
        /\ Len(stdout.queue) <= 1
    BY DEF OracleInv, OracleTypeOK, OneUnderWay
  <1>4. Len(stdout.queue) = 1 /\ Tail(stdout.queue) = <<>>
    BY <1>3, OneElement DEF OracleInv, OracleTypeOK, Scan
  <1>5. stdin.queue = <<>>
    BY <1>3, <1>4, EmptySeq DEF OracleInv, OracleTypeOK, OneUnderWay
  <1>6. stdout' = [open |-> stdout.open, queue |-> <<>>]
    BY <1>4 DEF OracleInv, OracleTypeOK, Scan
  <1>7. MutexHeld' /\ ResultsOwn' /\ at' \in [Callers \cup Closers -> Labels]
        /\ DOMAIN result' = Callers
    <2>1. ASSUME Decoded(c, Head(stdout.queue))[1] = "answer"
          PROVE  Decoded(c, Head(stdout.queue))[2] = Request(c)
      <3>1. Head(stdout.queue).kind \in Lines
        <4>1. Head(stdout.queue) \in Answers
          BY OneElement, <1>3 DEF OracleInv, OracleTypeOK, Scan
        <4> QED
          BY <4>1 DEF Answers
      <3> QED
        BY <1>2, <2>1, <3>1 DEF Decoded, Lines
    <2> QED
      BY <2>1, <1>1, ReturnInv DEF Scan
  <1>8. OracleTypeOK'
    <2>1. stdout' \in [open : BOOLEAN, queue : Seq(Answers)]
      BY <1>6 DEF OracleInv, OracleTypeOK
    <2> QED
      BY <1>7, <2>1 DEF OracleInv, OracleTypeOK, Scan
  <1>9. OneUnderWay' /\ LineIsAwaited' /\ ClosedIsEmpty'
    BY <1>3, <1>5, <1>6 DEF OracleInv, Scan, OneUnderWay, LineIsAwaited, ClosedIsEmpty
  <1> QED
    BY <1>7, <1>8, <1>9 DEF OracleInv

(* A request that c leaves behind was not read, and never will be.         *)
LEMMA ScanFailsInv == ASSUME OracleInv, NEW c \in Callers, ScanFails(c) PROVE OracleInv'
  <1>1. oracle = "exited" /\ stdout.queue = <<>>
    BY DEF OracleInv, ClosedIsEmpty, ScanFails
  <1>2. MutexHeld' /\ ResultsOwn' /\ OracleTypeOK'
    BY ReturnInv DEF OracleInv, ScanFails, OracleTypeOK, Inside
  <1>3. OneUnderWay' /\ LineIsAwaited' /\ ClosedIsEmpty'
    BY <1>1 DEF OracleInv, ScanFails, OneUnderWay, LineIsAwaited, ClosedIsEmpty
  <1> QED
    BY <1>2, <1>3 DEF OracleInv

(* Close takes no lock: it touches neither the queues nor the callers.     *)
LEMMA CloseInv ==
  ASSUME OracleInv, NEW k \in Closers, CloseFirst(k) \/ CloseStdin(k) \/ CloseAgain(k) \/ Wait(k)
  PROVE  OracleInv'
  <1>1. k \notin Callers /\ at' = [at EXCEPT ![k] = at'[k]] /\ at'[k] \in Labels
    BY OracleClientAssumption
    DEF OracleInv, OracleTypeOK, CloseFirst, CloseStdin, CloseAgain, Wait, Go, Labels
  <1>2. UNCHANGED <<calls, mu, result>> /\ \A d \in Callers : at'[d] = at[d]
    BY <1>1 DEF OracleInv, OracleTypeOK, CloseFirst, CloseStdin, CloseAgain, Wait
  <1>3. stdin'.queue = stdin.queue /\ oracle' = oracle
    BY DEF OracleInv, OracleTypeOK, CloseFirst, CloseStdin, CloseAgain, Wait
  <1>4. stdout' = stdout \/ (stdout' = [open |-> FALSE, queue |-> <<>>] /\ oracle = "exited")
    BY DEF CloseFirst, CloseStdin, CloseAgain, Wait
  <1>5. OracleTypeOK'
    <2>1. stdin' \in [open : BOOLEAN, queue : Seq(Requests)]
      BY DEF OracleInv, OracleTypeOK, CloseFirst, CloseStdin, CloseAgain, Wait
    <2>2. stdout' \in [open : BOOLEAN, queue : Seq(Answers)]
      <3>1. [open |-> FALSE, queue |-> <<>>] \in [open : BOOLEAN, queue : Seq(Answers)]
        OBVIOUS
      <3> QED
        BY <1>4, <3>1 DEF OracleInv, OracleTypeOK
    <2> QED
      BY <1>1, <1>2, <2>1, <2>2 DEF OracleInv, OracleTypeOK
  <1>6. MutexHeld' /\ ResultsOwn'
    BY <1>2 DEF OracleInv, MutexHeld, ResultsOwn, Request
  <1>7. ClosedIsEmpty' /\ OneUnderWay'
    BY <1>3, <1>4 DEF OracleInv, OracleTypeOK, ClosedIsEmpty, OneUnderWay
  <1>8. LineIsAwaited'
    BY <1>2, <1>3, <1>4, WaitingStays DEF OracleInv, LineIsAwaited
  <1> QED
    BY <1>5, <1>6, <1>7, <1>8 DEF OracleInv

(* The line takes the place of the request that was waited for.            *)
LEMMA AnswerInv == ASSUME OracleInv, NEW kind \in Lines, Answer(kind) PROVE OracleInv'
  <1>1. /\ Len(stdin.queue) \in Nat /\ Len(stdout.queue) \in Nat
        /\ Len(stdin.queue) <= 1
    BY DEF OracleInv, OracleTypeOK, OneUnderWay
  <1>2. /\ Len(stdin.queue) = 1 /\ Tail(stdin.queue) = <<>>
        /\ Head(stdin.queue) \in Requests
    BY <1>1, OneElement DEF OracleInv, OracleTypeOK, Answer
  <1>3. stdout.queue = <<>>
    BY <1>1, <1>2, EmptySeq DEF OracleInv, OracleTypeOK, OneUnderWay
  <1> DEFINE line == [kind |-> kind, request |-> Head(stdin.queue)]
  <1>4. line \in Answers
    BY <1>2 DEF Answers
  <1> HIDE DEF line
  <1>5. /\ stdin' = [open |-> stdin.open, queue |-> <<>>]
        /\ stdout' = [open |-> stdout.open, queue |-> Append(<<>>, line)]
    BY <1>2, <1>3 DEF OracleInv, OracleTypeOK, Answer, line
  <1>6. /\ stdout'.queue \in Seq(Answers) /\ Len(stdout'.queue) = 1
        /\ Head(stdout'.queue) = line
    BY <1>4, <1>5, AppendToEmpty
  <1>7. OracleTypeOK'
    BY <1>5, <1>6 DEF OracleInv, OracleTypeOK, Answer
  <1>8. MutexHeld' /\ ResultsOwn'
    BY DEF OracleInv, Answer, MutexHeld, ResultsOwn, Request
  <1>9. OneUnderWay' /\ ClosedIsEmpty'
    BY <1>5, <1>6 DEF OracleInv, OracleTypeOK, Answer, OneUnderWay, ClosedIsEmpty
  <1>10. LineIsAwaited'
    <2>1. PICK d \in Callers : at[d] = "scan" /\ Head(stdin.queue) = Request(d)
      BY DEF OracleInv, LineIsAwaited, Waiting, Answer
    <2>2. at'[d] = "scan" /\ Request(d)' = Request(d)
      BY <2>1 DEF Request, Answer
    <2>3. Head(stdout'.queue).request = Request(d)'
      BY <1>6, <2>1, <2>2 DEF line
    <2>4. stdin'.queue = <<>>
      BY <1>5
    <2> QED
      BY <2>2, <2>3, <2>4 DEF LineIsAwaited, Waiting
  <1> QED
    BY <1>7, <1>8, <1>9, <1>10 DEF OracleInv

(* The end of the oracle: what it has not read stays unread.               *)
LEMMA ExitInv == ASSUME OracleInv, EndOfInput \/ Die PROVE OracleInv'
  <1>1. UNCHANGED <<at, calls, mu, stdin, stdout, result>> /\ oracle' = "exited"
    BY DEF EndOfInput, Die
  <1>2. OracleTypeOK' /\ MutexHeld' /\ ResultsOwn' /\ OneUnderWay' /\ ClosedIsEmpty'
    BY <1>1 DEF OracleInv, OracleTypeOK, MutexHeld, ResultsOwn, Request, OneUnderWay, ClosedIsEmpty
  <1>3. LineIsAwaited'
    BY <1>1 DEF OracleInv, LineIsAwaited, Waiting, Request
  <1> QED
    BY <1>2, <1>3 DEF OracleInv

-----------------------------------------------------------------------------
(* Every step of a goroutine or of the oracle preserves the invariant.     *)
LEMMA OracleStepInv == OracleInv /\ [OracleNext]_oracleVars => OracleInv'
  <1> SUFFICES ASSUME OracleInv, [OracleNext]_oracleVars PROVE OracleInv'
    OBVIOUS
  <1>1. CASE UNCHANGED oracleVars
    BY <1>1 DEF oracleVars, OracleInv, OracleTypeOK, MutexHeld, OneUnderWay, LineIsAwaited, Waiting, Request,
                ClosedIsEmpty, ResultsOwn
  <1>2. CASE \E c \in Callers : Begin(c) \/ Step(c)
    BY <1>2, BeginInv, LockInv, ReturnClosedInv, CheckOpenInv, WriteInv, WriteFailsInv, ScanInv,
       ScanFailsInv DEF Step
  <1>3. CASE \E k \in Closers : CloseFirst(k) \/ CloseAgain(k) \/ Finish(k)
    BY <1>3, CloseInv DEF Finish
  <1>4. CASE (\E kind \in Lines : Answer(kind)) \/ EndOfInput \/ Die
    BY <1>4, AnswerInv, ExitInv
  <1> QED
    BY <1>1, <1>2, <1>3, <1>4 DEF OracleNext

(* For any number of callers, closers and calls no caller of Ping or       *)
(* Execute is handed the answer to another request, and at most one        *)
(* request is under way, whenever Close comes and the oracle dies.         *)
THEOREM OwnAnswers == OracleSpec => []AnswersOwnRequest
  <1>1. OracleInv => AnswersOwnRequest
    BY DEF OracleInv, OneUnderWay, ResultsOwn, AnswersOwnRequest
  <1> QED
    BY <1>1, OracleInitInv, OracleStepInv, PTL DEF OracleSpec

=============================================================================
