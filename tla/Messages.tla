------------------------------- MODULE Messages -------------------------------
(***************************************************************************)
(* The protobuf messages that the program stores, hashes and executes:     *)
(* their fields with numbers and kinds as the generated types declare      *)
(* them, the getters, and what marshalling and unmarshalling do with them. *)
(*                                                                         *)
(* A message is the function of its fields, with the records of fields it  *)
(* does not know under "unknown".  A missing sub-message is <<>>, one that *)
(* is there is <<m>>.  External: the protobuf library.  A wire record is a *)
(* field number with its payload.                                          *)
(***************************************************************************)
EXTENDS Integers, Sequences, SequencesExt

CONSTANT LongBits    \* width of an int64

-----------------------------------------------------------------------------
(* Kinds of field.                                                         *)

Num(n)      == [n |-> n, kind |-> "int", of |-> "none"]     \* ints and enums
Bool(n)     == [n |-> n, kind |-> "bool", of |-> "none"]
Bytes(n)    == [n |-> n, kind |-> "bytes", of |-> "none"]   \* and strings
List(n)     == [n |-> n, kind |-> "list", of |-> "none"]    \* repeated bytes
Map(n)      == [n |-> n, kind |-> "map", of |-> "none"]     \* string to int64
One(n, m)   == [n |-> n, kind |-> "one", of |-> m]
Many(n, m)  == [n |-> n, kind |-> "many", of |-> m]
Opaque(n)   == One(n, "Opaque")                             \* never opened here

-----------------------------------------------------------------------------
(* The messages.                                                           *)

VoteFields == [
    vote_address |-> Bytes(1), vote_count |-> Num(2)]

AccountHoldings == [
    account_name |-> Bytes(1), type |-> Num(2), address |-> Bytes(3), balance |-> Num(4),
    votes |-> Many(5, "Vote"), asset |-> Map(6), assetV2 |-> Map(56)]

AccountActivity == [
    frozen |-> Many(7, "Account_Frozen"), net_usage |-> Num(8),
    acquired_delegated_frozen_balance_for_bandwidth |-> Num(41),
    delegated_frozen_balance_for_bandwidth |-> Num(42), old_tron_power |-> Num(46),
    tron_power |-> One(47, "Account_Frozen"), asset_optimized |-> Bool(60),
    create_time |-> Num(9), latest_opration_time |-> Num(10), allowance |-> Num(11),
    latest_withdraw_time |-> Num(12), code |-> Bytes(13), is_witness |-> Bool(14),
    is_committee |-> Bool(15), frozen_supply |-> Many(16, "Account_Frozen")]

AccountResources == [
    asset_issued_name |-> Bytes(17), asset_issued_ID |-> Bytes(57),
    latest_asset_operation_time |-> Map(18), latest_asset_operation_timeV2 |-> Map(58),
    free_net_usage |-> Num(19), free_asset_net_usage |-> Map(20),
    free_asset_net_usageV2 |-> Map(59), latest_consume_time |-> Num(21),
    latest_consume_free_time |-> Num(22), account_id |-> Bytes(23),
    net_window_size |-> Num(24), net_window_optimized |-> Bool(25),
    account_resource |-> One(26, "Account_AccountResource"), codeHash |-> Bytes(30),
    owner_permission |-> One(31, "Permission"),
    witness_permission |-> One(32, "Permission"),
    active_permission |-> Many(33, "Permission"),
    frozenV2 |-> Many(34, "Account_FreezeV2"),
    unfrozenV2 |-> Many(35, "Account_UnFreezeV2"),
    delegated_frozenV2_balance_for_bandwidth |-> Num(36),
    acquired_delegated_frozenV2_balance_for_bandwidth |-> Num(37)]

KeyFields == [
    address |-> Bytes(1), weight |-> Num(2)]

DelegatedResourceFields == [
    from |-> Bytes(1), to |-> Bytes(2), frozen_balance_for_bandwidth |-> Num(3),
    frozen_balance_for_energy |-> Num(4), expire_time_for_bandwidth |-> Num(5),
    expire_time_for_energy |-> Num(6)]

PermissionFields == [
    type |-> Num(1), id |-> Num(2), permission_name |-> Bytes(3), threshold |-> Num(4),
    parent_id |-> Num(5), operations |-> Bytes(6), keys |-> Many(7, "Key")]

WitnessFields == [
    address |-> Bytes(1), voteCount |-> Num(2), pubKey |-> Bytes(3), url |-> Bytes(4),
    totalProduced |-> Num(5), totalMissed |-> Num(6), latestBlockNum |-> Num(7),
    latestSlotNum |-> Num(8), isJobs |-> Bool(9)]

VotesFields == [
    address |-> Bytes(1), old_votes |-> Many(2, "Vote"), new_votes |-> Many(3, "Vote")]

ResourceReceiptFields == [
    energy_usage |-> Num(1), energy_fee |-> Num(2), origin_energy_usage |-> Num(3),
    energy_usage_total |-> Num(4), net_usage |-> Num(5), net_fee |-> Num(6),
    result |-> Num(7), energy_penalty_total |-> Num(8)]

TransactionFields == [
    raw_data |-> One(1, "TransactionRaw"), signature |-> List(2),
    ret |-> Many(5, "Transaction_Result")]

TransactionInfoResult == [
    id |-> Bytes(1), fee |-> Num(2), blockNumber |-> Num(3), blockTimeStamp |-> Num(4),
    contractResult |-> List(5), contract_address |-> Bytes(6),
    receipt |-> One(7, "ResourceReceipt"), log |-> Many(8, "TransactionInfo_Log"),
    result |-> Num(9), resMessage |-> Bytes(10), assetIssueID |-> Bytes(14),
    withdraw_amount |-> Num(15)]

TransactionInfoExtras == [
    unfreeze_amount |-> Num(16), internal_transactions |-> List(17),
    exchange_received_amount |-> Num(18), exchange_inject_another_amount |-> Num(19),
    exchange_withdraw_another_amount |-> Num(20), exchange_id |-> Num(21),
    shielded_transaction_fee |-> Num(22), orderId |-> Bytes(25),
    orderDetails |-> List(26), packingFee |-> Num(27), withdraw_expire_amount |-> Num(28),
    cancel_unfreezeV2_amount |-> Map(29)]

BlockHeaderFields == [
    raw_data |-> One(1, "BlockHeaderRaw"), witness_signature |-> Bytes(2)]

BlockFields == [
    transactions |-> Many(1, "Transaction"), block_header |-> One(2, "BlockHeader")]

DelegatedResourceAccountIndexFields == [
    account |-> Bytes(1), fromAccounts |-> List(2), toAccounts |-> List(3),
    timestamp |-> Num(4)]

Account_FrozenFields == [
    frozen_balance |-> Num(1), expire_time |-> Num(2)]

Account_AccountResourceFields == [
    energy_usage |-> Num(1), frozen_balance_for_energy |-> One(2, "Account_Frozen"),
    latest_consume_time_for_energy |-> Num(3),
    acquired_delegated_frozen_balance_for_energy |-> Num(4),
    delegated_frozen_balance_for_energy |-> Num(5), storage_limit |-> Num(6),
    storage_usage |-> Num(7), latest_exchange_storage_time |-> Num(8),
    energy_window_size |-> Num(9), delegated_frozenV2_balance_for_energy |-> Num(10),
    acquired_delegated_frozenV2_balance_for_energy |-> Num(11),
    energy_window_optimized |-> Bool(12)]

Account_FreezeV2Fields == [
    type |-> Num(1), amount |-> Num(2)]

Account_UnFreezeV2Fields == [
    type |-> Num(1), unfreeze_amount |-> Num(3), unfreeze_expire_time |-> Num(4)]

Transaction_ContractFields == [
    type |-> Num(1), parameter |-> One(2, "Any"), provider |-> Bytes(3),
    ContractName |-> Bytes(4), Permission_id |-> Num(5)]

Transaction_ResultFields == [
    fee |-> Num(1), ret |-> Num(2), contractRet |-> Num(3), assetIssueID |-> Bytes(14),
    withdraw_amount |-> Num(15), unfreeze_amount |-> Num(16),
    exchange_received_amount |-> Num(18), exchange_inject_another_amount |-> Num(19),
    exchange_withdraw_another_amount |-> Num(20), exchange_id |-> Num(21),
    shielded_transaction_fee |-> Num(22), orderId |-> Bytes(25),
    orderDetails |-> List(26), withdraw_expire_amount |-> Num(27),
    cancel_unfreezeV2_amount |-> Map(28)]

TransactionRawFields == [
    ref_block_bytes |-> Bytes(1), ref_block_num |-> Num(3), ref_block_hash |-> Bytes(4),
    expiration |-> Num(8), auths |-> List(9), data |-> Bytes(10),
    contract |-> Many(11, "Transaction_Contract"), scripts |-> Bytes(12),
    timestamp |-> Num(14), fee_limit |-> Num(18)]

TransactionInfo_LogFields == [
    address |-> Bytes(1), topics |-> List(2), data |-> Bytes(3)]

BlockHeaderRawFields == [
    timestamp |-> Num(1), txTrieRoot |-> Bytes(2), parentHash |-> Bytes(3),
    number |-> Num(7), witness_id |-> Num(8), witness_address |-> Bytes(9),
    version |-> Num(10), accountStateRoot |-> Bytes(11)]

FreezeBalanceContractFields == [
    owner_address |-> Bytes(1), frozen_balance |-> Num(2), frozen_duration |-> Num(3),
    resource |-> Num(10), receiver_address |-> Bytes(15)]

UnfreezeBalanceContractFields == [
    owner_address |-> Bytes(1), resource |-> Num(10), receiver_address |-> Bytes(15)]

WithdrawBalanceContractFields == [
    owner_address |-> Bytes(1)]

TransferContractFields == [
    owner_address |-> Bytes(1), to_address |-> Bytes(2), amount |-> Num(3)]

FreezeBalanceV2ContractFields == [
    owner_address |-> Bytes(1), frozen_balance |-> Num(2), resource |-> Num(3)]

UnfreezeBalanceV2ContractFields == [
    owner_address |-> Bytes(1), unfreeze_balance |-> Num(2), resource |-> Num(3)]

WithdrawExpireUnfreezeContractFields == [
    owner_address |-> Bytes(1)]

DelegateResourceContractFields == [
    owner_address |-> Bytes(1), resource |-> Num(2), balance |-> Num(3),
    receiver_address |-> Bytes(4), lock |-> Bool(5), lock_period |-> Num(6)]

UnDelegateResourceContractFields == [
    owner_address |-> Bytes(1), resource |-> Num(2), balance |-> Num(3),
    receiver_address |-> Bytes(4)]

SmartContractFields == [
    origin_address |-> Bytes(1), contract_address |-> Bytes(2), abi |-> Opaque(3),
    bytecode |-> Bytes(4), call_value |-> Num(5),
    consume_user_resource_percent |-> Num(6), name |-> Bytes(7),
    origin_energy_limit |-> Num(8), code_hash |-> Bytes(9), trx_hash |-> Bytes(10),
    version |-> Num(11)]

CreateSmartContractFields == [
    owner_address |-> Bytes(1), new_contract |-> One(2, "SmartContract"),
    call_token_value |-> Num(3), token_id |-> Num(4)]

TriggerSmartContractFields == [
    owner_address |-> Bytes(1), contract_address |-> Bytes(2), call_value |-> Num(3),
    data |-> Bytes(4), call_token_value |-> Num(5), token_id |-> Num(6)]

VoteWitnessContractFields == [
    owner_address |-> Bytes(1), votes |-> Many(2, "VoteWitnessContract_Vote"),
    support |-> Bool(3)]

VoteWitnessContract_VoteFields == [
    vote_address |-> Bytes(1), vote_count |-> Num(2)]

AnyFields == [type_url |-> Bytes(1), value |-> Bytes(2)]

-----------------------------------------------------------------------------
(* The enums.                                                              *)

AccountType == [
    Normal |-> 0, AssetIssue |-> 1, Contract |-> 2]

PermissionType == [
    Owner |-> 0, Witness |-> 1, Active |-> 2]

ContractType == [
    AccountCreateContract |-> 0, TransferContract |-> 1, TransferAssetContract |-> 2,
    VoteAssetContract |-> 3, VoteWitnessContract |-> 4, WitnessCreateContract |-> 5,
    AssetIssueContract |-> 6, WitnessUpdateContract |-> 8,
    ParticipateAssetIssueContract |-> 9, AccountUpdateContract |-> 10,
    FreezeBalanceContract |-> 11, UnfreezeBalanceContract |-> 12,
    WithdrawBalanceContract |-> 13, UnfreezeAssetContract |-> 14,
    UpdateAssetContract |-> 15, ProposalCreateContract |-> 16,
    ProposalApproveContract |-> 17, ProposalDeleteContract |-> 18,
    SetAccountIdContract |-> 19, CustomContract |-> 20, CreateSmartContract |-> 30,
    TriggerSmartContract |-> 31, GetContract |-> 32, UpdateSettingContract |-> 33,
    ExchangeCreateContract |-> 41, ExchangeInjectContract |-> 42,
    ExchangeWithdrawContract |-> 43, ExchangeTransactionContract |-> 44,
    UpdateEnergyLimitContract |-> 45, AccountPermissionUpdateContract |-> 46,
    ClearABIContract |-> 48, UpdateBrokerageContract |-> 49,
    ShieldedTransferContract |-> 51, MarketSellAssetContract |-> 52,
    MarketCancelOrderContract |-> 53, FreezeBalanceV2Contract |-> 54,
    UnfreezeBalanceV2Contract |-> 55, WithdrawExpireUnfreezeContract |-> 56,
    DelegateResourceContract |-> 57, UnDelegateResourceContract |-> 58,
    CancelAllUnfreezeV2Contract |-> 59]

ContractResult == [
    DEFAULT |-> 0, SUCCESS |-> 1, REVERT |-> 2, BAD_JUMP_DESTINATION |-> 3,
    OUT_OF_MEMORY |-> 4, PRECOMPILED_CONTRACT |-> 5, STACK_TOO_SMALL |-> 6,
    STACK_TOO_LARGE |-> 7, ILLEGAL_OPERATION |-> 8, STACK_OVERFLOW |-> 9,
    OUT_OF_ENERGY |-> 10, OUT_OF_TIME |-> 11, JVM_STACK_OVER_FLOW |-> 12, UNKNOWN |-> 13,
    TRANSFER_FAILED |-> 14, INVALID_CODE |-> 15]

ResourceCode == [
    BANDWIDTH |-> 0, ENERGY |-> 1, TRON_POWER |-> 2]

-----------------------------------------------------------------------------
Descriptor == [
    Vote |-> VoteFields,
    Account |-> AccountHoldings @@ AccountActivity @@ AccountResources, Key |-> KeyFields,
    DelegatedResource |-> DelegatedResourceFields, Permission |-> PermissionFields,
    Witness |-> WitnessFields, Votes |-> VotesFields,
    ResourceReceipt |-> ResourceReceiptFields, Transaction |-> TransactionFields,
    TransactionInfo |-> TransactionInfoResult @@ TransactionInfoExtras,
    BlockHeader |-> BlockHeaderFields, Block |-> BlockFields,
    DelegatedResourceAccountIndex |-> DelegatedResourceAccountIndexFields,
    Account_Frozen |-> Account_FrozenFields,
    Account_AccountResource |-> Account_AccountResourceFields,
    Account_FreezeV2 |-> Account_FreezeV2Fields,
    Account_UnFreezeV2 |-> Account_UnFreezeV2Fields,
    Transaction_Contract |-> Transaction_ContractFields,
    Transaction_Result |-> Transaction_ResultFields,
    TransactionRaw |-> TransactionRawFields,
    TransactionInfo_Log |-> TransactionInfo_LogFields,
    BlockHeaderRaw |-> BlockHeaderRawFields,
    FreezeBalanceContract |-> FreezeBalanceContractFields,
    UnfreezeBalanceContract |-> UnfreezeBalanceContractFields,
    WithdrawBalanceContract |-> WithdrawBalanceContractFields,
    TransferContract |-> TransferContractFields,
    FreezeBalanceV2Contract |-> FreezeBalanceV2ContractFields,
    UnfreezeBalanceV2Contract |-> UnfreezeBalanceV2ContractFields,
    WithdrawExpireUnfreezeContract |-> WithdrawExpireUnfreezeContractFields,
    DelegateResourceContract |-> DelegateResourceContractFields,
    UnDelegateResourceContract |-> UnDelegateResourceContractFields,
    SmartContract |-> SmartContractFields,
    CreateSmartContract |-> CreateSmartContractFields,
    TriggerSmartContract |-> TriggerSmartContractFields,
    VoteWitnessContract |-> VoteWitnessContractFields,
    VoteWitnessContract_Vote |-> VoteWitnessContract_VoteFields, Any |-> AnyFields,
    Opaque |-> <<>>]

(* String and its inverse, the name and value maps of an enum.             *)
EnumName(enum, v) == CHOOSE n \in DOMAIN enum : enum[n] = v
EnumKnown(enum, v) == \E n \in DOMAIN enum : enum[n] = v

-----------------------------------------------------------------------------
(* Getters.  x is a pointer: <<>> for nil.                                 *)

Zero(field) == IF field.kind \in {"int", "bool"} THEN 0 ELSE <<>>
New(msg) == [f \in DOMAIN Descriptor[msg] \cup {"unknown"} |->
                IF f = "unknown" THEN <<>> ELSE Zero(Descriptor[msg][f])]
Get(msg, x, f) == IF x = <<>> THEN Zero(Descriptor[msg][f]) ELSE x[1][f]

-----------------------------------------------------------------------------
(* Marshalling, with the fields in the order of their numbers and the keys *)
(* of a map sorted; zero values are left out.                              *)

MaxNumber == 60
Numbers(msg) == {Descriptor[msg][f].n : f \in DOMAIN Descriptor[msg]}
FieldOf(msg, n) == CHOOSE f \in DOMAIN Descriptor[msg] : Descriptor[msg][f].n = n
Ordered(msg) == SelectSeq([n \in 1 .. MaxNumber |-> n], LAMBDA n : n \in Numbers(msg))

Varint(v) == v % 2 ^ LongBits
Int64Of(u) == IF u >= 2 ^ (LongBits - 1) THEN u - 2 ^ LongBits ELSE u
Keys(map) == SetToSortSeq(DOMAIN map, LAMBDA j, k : j < k)

RECURSIVE Marshal(_, _)

(* The payloads of a field: none, one, or one for each element.            *)
Payloads(field, v) ==
    CASE field.kind \in {"int", "bool"} -> IF v = 0 THEN <<>> ELSE <<Varint(v)>>
      [] field.kind = "bytes"           -> IF v = <<>> THEN <<>> ELSE <<v>>
      [] field.kind = "list"            -> v
      [] field.kind = "map"  -> [i \in 1 .. Len(Keys(v)) |-> <<Keys(v)[i], Varint(v[Keys(v)[i]])>>]
      [] field.kind = "one"  -> IF v = <<>> THEN <<>> ELSE <<Marshal(field.of, v[1])>>
      [] field.kind = "many" -> [i \in 1 .. Len(v) |-> Marshal(field.of, v[i])]

Marshal(msg, m) ==
    FlattenSeq([i \in 1 .. Len(Ordered(msg)) |->
        LET n == Ordered(msg)[i]
            f == FieldOf(msg, n)
            p == Payloads(Descriptor[msg][f], m[f])
        IN  [j \in 1 .. Len(p) |-> [n |-> n, v |-> p[j]]]]) \o m.unknown

(* Unmarshalling takes the records in any order: the last one of a plain   *)
(* field wins, those of a repeated field are collected, those of one       *)
(* sub-message are merged, those of other numbers are kept.                *)
RECURSIVE Unmarshal(_, _)
Unmarshal(msg, wire) ==
    LET of(n)   == SelectSeq(wire, LAMBDA r : r.n = n)
        read(d) ==
            LET r == of(d.n)
            IN  CASE d.kind = "int"   -> IF r = <<>> THEN 0 ELSE Int64Of(Last(r).v)
                  [] d.kind = "bool"  -> IF r # <<>> /\ Last(r).v # 0 THEN 1 ELSE 0
                  [] d.kind = "bytes" -> IF r = <<>> THEN <<>> ELSE Last(r).v
                  [] d.kind = "list"  -> [i \in 1 .. Len(r) |-> r[i].v]
                  [] d.kind = "map"   ->
                        [k \in {r[i].v[1] : i \in 1 .. Len(r)} |->
                            Int64Of(Last(SelectSeq(r, LAMBDA e : e.v[1] = k)).v[2])]
                  [] d.kind = "one"   ->
                        IF r = <<>> THEN <<>>
                        ELSE <<Unmarshal(d.of, FlattenSeq([i \in 1 .. Len(r) |-> r[i].v]))>>
                  [] d.kind = "many"  -> [i \in 1 .. Len(r) |-> Unmarshal(d.of, r[i].v)]
    IN  [f \in DOMAIN Descriptor[msg] \cup {"unknown"} |->
            IF f = "unknown" THEN SelectSeq(wire, LAMBDA r : r.n \notin Numbers(msg))
            ELSE read(Descriptor[msg][f])]

=============================================================================
