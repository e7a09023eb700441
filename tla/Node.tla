-------------------------------- MODULE Node --------------------------------
(***************************************************************************)
(* node.Node: start, first start from a genesis configuration, restore     *)
(* from the persisted root, stop, and the crashes and write errors between *)
(* any two of the synchronous single-key writes all of this consists of.   *)
(*                                                                         *)
(* Blocks pushed while the node is up write to revoking sessions only      *)
(* (module Manager), so they do not touch the committed store kept here.   *)
(***************************************************************************)
EXTENDS Naturals, Sequences, FiniteSets

CONSTANTS
    Genesis,    \* the genesis configurations an operator may use
    NoGenesis,  \* cfg.Genesis == nil
    Entries,    \* per configuration, the writes of genesis.Config.Load in order
    Id,         \* per configuration, its block's id (BadHeader: Block() fails)
    BadHeader,
    Malformed,  \* an entry Load cannot decode
    Keys,       \* state-store keys other than the two Manager.Start writes
    Vals,
    Absent,     \* a key the store does not hold; for the root marker, none
    MaxFaults   \* bound on crashes and engine errors

Configs == Genesis \cup {NoGenesis}
Ids == {Id[g] : g \in Genesis} \ {BadHeader}
StampKeys == {"LATEST_BLOCK_HEADER_TIMESTAMP", "NEXT_MAINTENANCE_TIME"}
StoreKeys == Keys \cup StampKeys
Writes == [key : StoreKeys, val : Vals \cup Ids]
Empty == [k \in StoreKeys |-> Absent]

ASSUME EntriesAssumption ==
    /\ Entries \in [Genesis -> Seq(Writes \cup {Malformed})]
    /\ NoGenesis \notin Genesis
    /\ Malformed \notin Writes
    /\ Absent \notin Vals \cup Ids
    /\ MaxFaults \in Nat

VARIABLES
    store,    \* the committed engine's state-store contents
    root,     \* the engine's meta/chain/root marker, by block id
    pc,       \* "down", "starting" (inside Node.Start), "up"
    config,   \* cfg.Genesis of this process
    todo,     \* what Start has yet to write
    head,     \* Manager.Head once Start has returned
    faults    \* crashes and engine errors so far

vars == <<store, root, pc, config, todo, head, faults>>

-----------------------------------------------------------------------------

\* Manager.Start(root): both properties take the root block's timestamp.
Stamp(id) ==
    <<[key |-> "LATEST_BLOCK_HEADER_TIMESTAMP", val |-> id],
      [key |-> "NEXT_MAINTENANCE_TIME", val |-> id]>>

\* InitGenesis: load the state, build the genesis block, start from it.
InitGenesis(g) ==
    Entries[g] \o (IF Id[g] = BadHeader THEN <<Malformed>> ELSE Stamp(Id[g]))

Init ==
    /\ store = Empty
    /\ root = Absent
    /\ pc = "down"
    /\ config = NoGenesis
    /\ todo = <<>>
    /\ head = Absent
    /\ faults = 0

MutRestoreAnyNetwork(g) ==
    /\ pc = "down"
    /\ root # Absent
    /\ pc' = "starting"
    /\ config' = g
    /\ todo' = Stamp(root)
    /\ UNCHANGED <<store, root, head, faults>>

\* bootstrapChain finds the root of the configured network, or of any
\* network when none is configured.
RestoreRoot(g) ==
    /\ pc = "down"
    /\ root # Absent
    /\ g # NoGenesis => Id[g] = root
    /\ pc' = "starting"
    /\ config' = g
    /\ todo' = Stamp(root)
    /\ UNCHANGED <<store, root, head, faults>>

MutStartFreshOnlyEmpty(g) ==
    /\ pc = "down"
    /\ root = Absent
    /\ store = Empty
    /\ g # NoGenesis
    /\ pc' = "starting"
    /\ config' = g
    /\ todo' = InitGenesis(g)
    /\ UNCHANGED <<store, root, head, faults>>

\* No root, but a genesis: it is loaded over whatever the store holds.
StartFresh(g) ==
    /\ pc = "down"
    /\ root = Absent
    /\ g # NoGenesis
    /\ pc' = "starting"
    /\ config' = g
    /\ todo' = InitGenesis(g)
    /\ UNCHANGED <<store, root, head, faults>>

\* Neither: the node comes up without a chain.
AwaitBootstrap(g) ==
    /\ pc = "down"
    /\ root = Absent
    /\ g = NoGenesis
    /\ pc' = "up"
    /\ config' = g
    /\ UNCHANGED <<store, root, todo, head, faults>>

\* One synchronous Put of Load or of Manager.Start.
PutNext ==
    /\ pc = "starting"
    /\ todo # <<>>
    /\ Head(todo) # Malformed
    /\ store' = [store EXCEPT ![Head(todo).key] = Head(todo).val]
    /\ todo' = Tail(todo)
    /\ UNCHANGED <<root, pc, config, head, faults>>

\* Start returns an error: the engine is closed, manager and database are
\* dropped, what was written stays.
FailStart ==
    /\ pc' = "down"
    /\ todo' = <<>>
    /\ UNCHANGED <<store, root, config, head>>

\* Load meets an address, or Block a parent hash, it cannot decode.
RejectGenesis ==
    /\ pc = "starting"
    /\ todo # <<>>
    /\ Head(todo) = Malformed
    /\ FailStart
    /\ UNCHANGED faults

\* The engine refuses a Put, of an entry or of the root marker.
WriteError ==
    /\ pc = "starting"
    /\ todo # <<>> \/ root = Absent
    /\ faults < MaxFaults
    /\ faults' = faults + 1
    /\ FailStart

MutPersistRootFirst ==
    /\ pc = "starting"
    /\ root = Absent
    /\ root' = Id[config]
    /\ head' = Id[config]
    /\ pc' = "up"
    /\ UNCHANGED <<store, config, todo, faults>>

\* persistChainRoot, then Start returns nil.
PersistRoot ==
    /\ pc = "starting"
    /\ todo = <<>>
    /\ root = Absent
    /\ root' = Id[config]
    /\ head' = Id[config]
    /\ pc' = "up"
    /\ UNCHANGED <<store, config, todo, faults>>

Restored ==
    /\ pc = "starting"
    /\ todo = <<>>
    /\ root # Absent
    /\ head' = root
    /\ pc' = "up"
    /\ UNCHANGED <<store, root, config, todo, faults>>

Stop ==
    /\ pc = "up"
    /\ pc' = "down"
    /\ head' = Absent
    /\ UNCHANGED <<store, root, config, todo, faults>>

Crash ==
    /\ pc # "down"
    /\ faults < MaxFaults
    /\ faults' = faults + 1
    /\ pc' = "down"
    /\ todo' = <<>>
    /\ head' = Absent
    /\ UNCHANGED <<store, root, config>>

Start(g) == RestoreRoot(g) \/ StartFresh(g) \/ AwaitBootstrap(g)

Proceed == PutNext \/ RejectGenesis \/ PersistRoot \/ Restored

Next ==
    \/ \E g \in Configs : Start(g)
    \/ Proceed
    \/ WriteError
    \/ Stop
    \/ Crash

Spec == Init /\ [][Next]_vars

\* Start runs to its end, and the operator keeps coming back to every
\* configuration; crashes and engine errors are finitely many.
FairSpec == Spec /\ WF_vars(Proceed) /\ \A g \in Genesis : SF_vars(Start(g))

-----------------------------------------------------------------------------
(* Properties.                                                             *)

\* The shape of the store and of a starting node: Start writes only store keys,
\* and only ids of real genesis blocks reach the marker and the head.
TypeOK ==
    /\ store \in [StoreKeys -> Vals \cup Ids \cup {Absent}]
    /\ root \in Ids \cup {Absent}
    /\ pc \in {"down", "starting", "up"}
    /\ config \in Configs
    /\ todo \in Seq(Writes \cup {Malformed})
    /\ head \in Ids \cup {Absent}
    /\ faults \in 0..MaxFaults

\* What a store holds once the writes of w are done, from empty.
After(w) ==
    [k \in StoreKeys |->
        LET ks == {i \in 1..Len(w) : w[i].key = k}
        IN  IF ks = {} THEN Absent
            ELSE w[CHOOSE i \in ks : \A j \in ks : j <= i].val]

Loaded(g) == After(InitGenesis(g))

\* The configurations a start can load to the end, with the block id.
LoadableAs(id) ==
    {g \in Genesis : Id[g] = id /\ \A i \in 1..Len(Entries[g]) : Entries[g][i] # Malformed}

\* The root marker is the last write of a first start: once it is there, the
\* whole state of a configuration with that root is in the store, whatever
\* crashes, errors and half-loaded starts came before.
MarkedStateComplete ==
    root # Absent =>
        \E g \in LoadableAs(root) :
            \A k \in StoreKeys : Loaded(g)[k] # Absent => store[k] = Loaded(g)[k]

\* A node that is up on a chain is on the chain of the marker, and if it was
\* given a genesis, on that one: a store is never served as another network.
ServesMarkedChain ==
    pc = "up" /\ (head # Absent \/ config # NoGenesis) =>
        /\ head = root
        /\ config # NoGenesis => Id[config] = head

\* However often its starts crash, fail or are tried with a genesis that is
\* malformed or of another network, a node started again and again with a
\* good one serves again, unless it is left running without any: no
\* half-loaded store can wedge it.
KeepsServing ==
    \/ []<>(pc = "up" /\ head # Absent)
    \/ <>[](pc = "up" /\ config = NoGenesis)

=============================================================================
