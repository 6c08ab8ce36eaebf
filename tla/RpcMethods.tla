----------------------------- MODULE RpcMethods -----------------------------
(***************************************************************************)
(* What a SolanaClient asks for and where                                  *)
(* (src/src/solana_client/solana_client.cpp).  A method is the straight    *)
(* line of calls that fill its Array of parameters: positional arguments   *)
(* are appended, options go to the Dictionary that is last in the Array,   *)
(* which is created when there is none.                                    *)
(***************************************************************************)
EXTENDS Naturals, Sequences, SequencesExt

-----------------------------------------------------------------------------
(* One parameter, and how it is added.                                     *)

Argument(x) == [kind |-> "argument", value |-> x, entries |-> <<>>]
Table(entries) == [kind |-> "table", value |-> "none", entries |-> entries]

\* The settings of a client that methods consult, by the option they become.
Settings == {"commitment", "encoding", "minContextSlot", "dataSlice",
             "maxSupportedTransactionVersion", "identity", "range"}

\* A step adds an argument or setting "of" of the call, in its condition.
Step(do, key, of, when) == [do |-> do, key |-> key, of |-> of, when |-> when]

Place(x) == Step("append", "none", x, "always")
PlaceIf(x, when) == Step("append", "none", x, when)
Option(key, x) == Step("option", key, x, "always")
OptionIfGiven(key, x) == Step("option", key, x, "given")

\* void append_commitment, append_min_context_slot, append_encoding, append_account_filter, ...
IfSet(setting) == Step("option", setting, setting, "set")
Commitment == IfSet("commitment")
MinContextSlot == IfSet("minContextSlot")
Encoding == IfSet("encoding")
AccountFilter == IfSet("dataSlice")
MaxTransactionVersion == IfSet("maxSupportedTransactionVersion")
Identity == IfSet("identity")
SlotRange == IfSet("range")
TransactionDetail == Option("transactionDetails", "transaction_detail")
Rewards == Option("rewards", "rewards")

\* void add_to_param_dict(options, key, value)
AddToParamDict(params, key, value) ==
  IF params # <<>> /\ Last(params).kind = "table"
  THEN [params EXCEPT ![Len(params)].entries =
          [k \in DOMAIN @ \cup {key} |-> IF k = key THEN value ELSE @[k]]]
  ELSE Append(params, Table([k \in {key} |-> value]))

\* params.insert(at, dict_argument), of the token account queries
InsertFilter(params, at, given) ==
  IF "mint" \in given THEN InsertAt(params, at, Table([mint |-> "mint"]))
  ELSE IF "program_id" \in given THEN InsertAt(params, at, Table([programId |-> "program_id"]))
  ELSE params

Applies(step, set, given) ==
  CASE step.when = "always" -> TRUE
    [] step.when = "given" -> step.of \in given
    [] step.when = "missing" -> step.of \notin given
    [] step.when = "set" -> step.of \in set

\* A setting that is written whether it is set or not is empty.
ValueOf(x, set) ==
  IF x \in Settings \ set THEN "nothing" ELSE x

\* What a step makes of the parameters.
After(params, step, set, given) ==
  CASE ~Applies(step, set, given) -> params
    [] Applies(step, set, given) /\ step.do = "append" -> Append(params, Argument(step.of))
    [] Applies(step, set, given) /\ step.do = "option" ->
         AddToParamDict(params, step.key, ValueOf(step.of, set))
    [] Applies(step, set, given) /\ step.do = "insert first" -> InsertFilter(params, 1, given)
    [] Applies(step, set, given) /\ step.do = "insert second" -> InsertFilter(params, 2, given)

\* The parameters of a call, with these settings and these optional arguments.
Params(method, set, given) ==
  LET after[n \in 0 .. Len(method.steps)] ==
        IF n = 0 THEN <<>> ELSE After(after[n - 1], method.steps[n], set, given)
  IN after[Len(method.steps)]

\* make_rpc_dict
Method(name, steps) == [name |-> name, steps |-> steps]
\* The parameters of the asset methods are a Dictionary and no Array.
ByName(name, steps) == Method(name, steps)
NoParams(name) == Method(name, <<>>)

-----------------------------------------------------------------------------
(* The methods.                                                            *)

GetLatestBlockhash == Method("getLatestBlockhash", <<Commitment>>)
GetBlockProduction == Method("getBlockProduction", <<Commitment, Identity, SlotRange>>)
GetAccountInfo == Method("getAccountInfo",
  <<Place("account"), Commitment, Encoding, MinContextSlot, AccountFilter>>)
GetBalance == Method("getBalance",
  <<Place("account"), Commitment, Encoding, MinContextSlot, AccountFilter>>)
GetBlock == Method("getBlock",
  <<Place("slot"), Commitment, Encoding, TransactionDetail, MaxTransactionVersion, Rewards>>)
GetBlockHeight == Method("getBlockHeight", <<Commitment, MinContextSlot>>)
GetBlockCommitment == Method("getBlockCommitment", <<Place("slot_number")>>)
GetBlocks == Method("getBlocks", <<Place("start_slot"), PlaceIf("end_slot", "given"), Commitment>>)
GetBlocksWithLimit == Method("getBlocksWithLimit",
  <<Place("start_slot"), Place("end_slot"), Commitment>>)
GetBlockTime == Method("getBlockTime", <<Place("slot")>>)
GetClusterNodes == NoParams("getClusterNodes")
GetEpochInfo == Method("getEpochInfo", <<Commitment, MinContextSlot>>)
GetEpochSchedule == NoParams("getEpochSchedule")
GetFeeForMessage == Method("getFeeForMessage", <<Place("encoded_message"), Commitment, MinContextSlot>>)
GetFirstAvailableBlock == NoParams("getFirstAvailableBlock")
GetGenesisHash == NoParams("getGenesisHash")
GetHealth == NoParams("getHealth")
GetHighestSnapshotSlot == NoParams("getHighestSnapshotSlot")
GetIdentity == NoParams("getIdentity")
GetInflationGovernor == Method("getInflationGovernor", <<Commitment>>)
GetInflationRate == NoParams("getInflationRate")
GetInflationReward == Method("getInflationReward",
  <<Place("accounts"), Commitment, OptionIfGiven("epoch", "epoch"), MinContextSlot>>)
GetLargestAccounts == Method("getLargestAccounts", <<Commitment, OptionIfGiven("filter", "filter")>>)
GetLeaderSchedule == Method("getLeaderSchedule", <<Place("slot"), Commitment, Identity>>)
GetMaxRetransmitSlot == NoParams("getMaxRetransmitSlot")
GetMaxShredInsertSlot == NoParams("getMaxShredInsertSlot")
GetMinimumBalanceForRentExtemption == Method("getMinimumBalanceForRentExemption",
  <<Place("data_size"), Commitment>>)
GetMultipleAccounts == Method("getMultipleAccounts",
  <<Place("accounts"), Commitment, MinContextSlot, AccountFilter, Encoding>>)
GetProgramAccounts == Method("getProgramAccounts",
  <<Place("program_address"), Commitment, MinContextSlot, Option("withContext", "with_context"),
    Encoding, AccountFilter, OptionIfGiven("filters", "filters")>>)
GetRecentPerformanceSamples == NoParams("getRecentPerformanceSamples")
GetRecentPrioritizationFees == Method("getRecentPrioritizationFees",
  <<PlaceIf("account_addresses", "given")>>)
GetSignatureForAddress == Method("getSignaturesForAddress",
  <<Place("address"), Commitment, MinContextSlot, OptionIfGiven("before", "before"),
    OptionIfGiven("until", "until")>>)
GetSignatureStatuses == Method("getSignatureStatuses",
  <<Place("signatures"), Option("searchTransactionHistory", "search_transaction_history")>>)
GetSlot == Method("getSlot", <<Commitment, MinContextSlot>>)
GetSlotLeader == Method("getSlotLeader", <<Commitment, MinContextSlot>>)
\* The conditions are the wrong way round: only what is missing is appended.
GetSlotLeaders == Method("getSlotLeaders",
  <<PlaceIf("start_slot", "missing"), PlaceIf("slot_limit", "missing")>>)
GetStakeActivation == Method("getStakeActivation", <<Place("account"), Commitment, MinContextSlot>>)
GetStakeMinimumDelegation == Method("getStakeMinimumDelegation", <<Commitment>>)
GetSupply == Method("getSupply",
  <<Commitment, Option("excludeNonCirculatingAccountsList", "exclude_non_circulating")>>)
GetTokenAccountBalance == Method("getTokenAccountBalance", <<Place("token_account"), Commitment>>)
\* The filter is inserted in front of the delegate.
GetTokenAccountsByDelegate == Method("getTokenAccountsByDelegate",
  <<Place("account_delegate"), Commitment, MinContextSlot, AccountFilter, Encoding,
    Step("insert first", "none", "filter", "always")>>)
\* Mutant: the filter is inserted before the options are added to what is last.
OwnerFilterTooEarly == Method("getTokenAccountsByOwner",
  <<Place("owner"), Step("insert second", "none", "filter", "always"),
    Commitment, MinContextSlot, AccountFilter, Encoding>>)
GetTokenAccountsByOwner == Method("getTokenAccountsByOwner",
  <<Place("owner"), Commitment, MinContextSlot, AccountFilter, Encoding,
    Step("insert second", "none", "filter", "always")>>)
GetTokenLargestAccount == Method("getTokenLargestAccounts", <<Place("token_mint"), Commitment>>)
GetTokenSupply == Method("getTokenSupply", <<Place("token_mint"), Commitment>>)
GetTransaction == Method("getTransaction",
  <<Place("signature"), Commitment, MaxTransactionVersion, Encoding>>)
GetTransactionCount == Method("getTransactionCount", <<Commitment, MinContextSlot>>)
GetVersion == NoParams("getVersion")
GetVoteAccounts == Method("getVoteAccounts",
  <<Commitment, OptionIfGiven("votePubkey", "vote_pubkey"),
    Option("keepUnstakedDelinquents", "keep_unstaked_delinquents")>>)
IsBlockhashValid == Method("isBlockhashValid", <<Place("blockhash"), Commitment, MinContextSlot>>)
MinimumLedgerSlot == NoParams("minimumLedgerSlot")
RequestAirdrop == Method("requestAirdrop", <<Place("address"), Place("lamports"), Commitment>>)
SendTransaction == Method("sendTransaction",
  <<Place("encoded_transaction"), Encoding, Option("skipPreflight", "skip_preflight"),
    Option("preflightCommitment", "commitment"), OptionIfGiven("maxRetries", "max_retries"),
    MinContextSlot>>)
SimulateTransaction == Method("simulateTransaction",
  <<Place("encoded_transaction"), Commitment, Option("sigVerify", "sig_verify"),
    Option("replaceRecentBlockhash", "replace_blockhash"), MinContextSlot, Encoding,
    OptionIfGiven("accounts", "account_addresses")>>)
GetAsset == Method("getAsset", <<Place("asset_id")>>)
GetAssetProof == Method("getAssetProof", <<Place("asset_id")>>)
GetAssetsByAuthority == ByName("getAssetsByAuthority",
  <<Option("authorityAddress", "authority"), Option("page", "page"), Option("limit", "limit")>>)
GetAssetsByCreatorAddress == ByName("getAssetsByCreator",
  <<Option("creatorAddress", "creator_address"), Option("onlyVerified", "only_verified"),
    Option("page", "page"), Option("limit", "limit")>>)
GetAssetsByGroup == ByName("getAssetsByGroup",
  <<Option("groupKey", "group_key"), Option("groupValue", "group_value"), Option("page", "page"),
    Option("limit", "limit")>>)
GetAssetsByOwner == ByName("getAssetsByOwner",
  <<Option("ownerAddress", "owner"), Option("page", "page"), Option("limit", "limit"),
    Option("options", "show_fungible")>>)
AccountSubscribe == Method("accountSubscribe",
  <<Place("account_key"), Option("encoding", "encoding"), Option("commitment", "commitment")>>)
\* Its commitment is an argument.
SignatureSubscribe == Method("signatureSubscribe",
  <<Place("signature"), Option("commitment", "requested_commitment")>>)
ProgramSubscribe == Method("programSubscribe",
  <<Place("program_id"), Commitment, AccountFilter, Encoding>>)
RootSubscribe == NoParams("rootSubscribe")
SlotSubscribe == NoParams("slotSubscribe")

Methods ==
  {GetLatestBlockhash, GetBlockProduction, GetAccountInfo, GetBalance, GetBlock, GetBlockHeight,
   GetBlockCommitment, GetBlocks, GetBlocksWithLimit, GetBlockTime, GetClusterNodes, GetEpochInfo,
   GetEpochSchedule, GetFeeForMessage, GetFirstAvailableBlock, GetGenesisHash, GetHealth,
   GetHighestSnapshotSlot, GetIdentity, GetInflationGovernor, GetInflationRate, GetInflationReward,
   GetLargestAccounts, GetLeaderSchedule, GetMaxRetransmitSlot, GetMaxShredInsertSlot,
   GetMinimumBalanceForRentExtemption, GetMultipleAccounts, GetProgramAccounts,
   GetRecentPerformanceSamples, GetRecentPrioritizationFees, GetSignatureForAddress,
   GetSignatureStatuses, GetSlot, GetSlotLeader, GetSlotLeaders, GetStakeActivation,
   GetStakeMinimumDelegation, GetSupply, GetTokenAccountBalance, GetTokenAccountsByDelegate,
   GetTokenAccountsByOwner, GetTokenLargestAccount, GetTokenSupply, GetTransaction,
   GetTransactionCount, GetVersion, GetVoteAccounts, IsBlockhashValid, MinimumLedgerSlot,
   RequestAirdrop, SendTransaction, SimulateTransaction, GetAsset, GetAssetProof,
   GetAssetsByAuthority, GetAssetsByCreatorAddress, GetAssetsByGroup, GetAssetsByOwner,
   AccountSubscribe, SignatureSubscribe, ProgramSubscribe, RootSubscribe, SlotSubscribe}
=============================================================================
