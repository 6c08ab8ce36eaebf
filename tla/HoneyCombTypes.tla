--------------------------- MODULE HoneyCombTypes ---------------------------
(***************************************************************************)
(* The resource classes of the HoneyComb API (src/src/honeycomb/types,     *)
(* generated from its GraphQL schema) and what to_dict makes of an object  *)
(* of one.  A class is its properties, sorted by what to_dict does with    *)
(* them.  Every property has a setter that stores and a getter that        *)
(* returns the field, under the one name it is bound with.                 *)
(***************************************************************************)
EXTENDS Sequences, FiniteSets, TLC

\* numbers: int32_t, int64_t, bool, float, which no constructor initializes;
\* texts: Strings that are left out when empty; packed: packed arrays and the
\* Strings that are not; lists: Arrays and Dictionaries, copied; keys: Variants
\* whose to_string is called; objects: Variants that are cast to a class of the
\* API.
Class(properties) ==
  properties @@ [numbers |-> {}, texts |-> {}, packed |-> {}, lists |-> {}, keys |-> {},
                 objects |-> <<>>]

AddMultiplierMetadataInput == Class([
  numbers |-> {"value"}, objects |-> [type |-> "MultiplierTypeInput"]])
AdvancedTreeConfig == Class([numbers |-> {"maxDepth", "maxBufferSize", "canopyDepth"}])
Assembled == Class([
  texts |-> {"uri"}, lists |-> {"attributes"}, keys |-> {"hash", "mint", "assemblerConfig"}])
AssemblerConfigInput == Class([
  numbers |-> {"sellerFeeBasisPoints"},
  texts |-> {"assemblerConfig", "name", "symbol", "description", "collectionName"},
  lists |-> {"creators"}])
AssemblerConfig == Class([
  texts |-> {"ticker"}, packed |-> {"address", "program_id", "discriminator", "order"},
  keys |-> {"project"}, objects |-> [merkle_trees |-> "ControlledMerkleTrees"]])
AssetCriteriaFilter == Class([texts |-> {"kind"}, keys |-> {"params"}])
AssetCriteriaInput == Class([texts |-> {"kind"}, packed |-> {"params"}])
AssetCriteria == Class([packed |-> {"kind"}, keys |-> {"params"}])
AssociatedProgramInput == Class([texts |-> {"address"}, lists |-> {"trustedActions"}])
AssociatedProgram == Class([lists |-> {"trustedActions"}, keys |-> {"address"}])
AuthConfirmed == Class([texts |-> {"accessToken"}, objects |-> [user |-> "User"]])
AuthResponse == Class([texts |-> {"message"}, packed |-> {"tx"}])
BadgeCriteria == Class([numbers |-> {"startTime", "endTime", "index"}, packed |-> {"condition"}])
BasicTreeConfig == Class([numbers |-> {"numAssets"}])
CharacterConfigAssembled == Class([
  numbers |-> {"sellerFeeBasisPoints"},
  texts |-> {"kind", "name", "symbol", "description", "collectionName"}, lists |-> {"creators"},
  keys |-> {"assemblerConfig"}, objects |-> [mintAs |-> "MintAs"]])
CharacterConfigInput == Class([
  texts |-> {"kind"}, lists |-> {"criterias"},
  objects |-> [assemblerConfigInput |-> "AssemblerConfigInput"]])
CharacterConfigWrapped == Class([texts |-> {"kind"}, lists |-> {"criterias"}])
CharacterCooldownInput == Class([numbers |-> {"ejection"}])
CharacterCooldown == Class([numbers |-> {"ejection"}])
CharacterHistory == Class([
  texts |-> {"event", "time"}, packed |-> {"address"}, lists |-> {"event_data"}])
CharacterModel == Class([
  numbers |-> {"bump"}, packed |-> {"address", "program_id", "discriminator", "equipableCriteria"},
  lists |-> {"config", "attributes"}, keys |-> {"key", "project"},
  objects |-> [merkle_trees |-> "ControlledMerkleTrees", cooldown |-> "CharacterCooldown"]])
CharacterSourceFilter == Class([
  texts |-> {"kind"}, objects |-> [params |-> "CharacterSourceParamsFilter"]])
CharacterSourceParamsFilter == Class([
  numbers |-> {"is_compressed"}, keys |-> {"mint"},
  objects |-> [criteria |-> "AssetCriteriaFilter"]])
CharacterSource == Class([packed |-> {"kind"}, lists |-> {"params"}])
CharacterTraitInput == Class([texts |-> {"layer", "name", "uri"}])
CharacterTrait == Class([
  numbers |-> {"leaf_idx"}, texts |-> {"layer", "name", "uri"}, packed |-> {"address", "tree_id"},
  objects |-> [proof |-> "Proof"]])
CharacterUsedByFilter == Class([
  texts |-> {"kind"}, objects |-> [params |-> "CharacterUsedByParamsFilter"]])
CharacterUsedByParamsFilter == Class([
  numbers |-> {"stakedAt", "claimedAt", "endTime", "rewardsCollected", "order"},
  lists |-> {"rewards"}, keys |-> {"pool", "staker", "id", "mint", "user"},
  objects |-> [role |-> "GuildRoleFilter"]])
CharacterUsedBy == Class([texts |-> {"kind"}, lists |-> {"params"}])
Character == Class([
  numbers |-> {"leaf_idx"}, packed |-> {"address", "tree_id"}, lists |-> {"equipments", "asset"},
  keys |-> {"owner"},
    objects |-> [source |-> "CharacterSource", usedBy |-> "CharacterUsedBy", proof |-> "Proof",
      cooldown |-> "CharacterCooldown"]])
CharactersFilter == Class([
  keys |-> {"owner"},
  objects |-> [source |-> "CharacterSourceFilter", usedBy |-> "CharacterUsedByFilter"]])
CivicInfoInput == Class([texts |-> {"wallet"}, packed |-> {"gatekeeperNetwork"}])
CivicInfo == Class([
  numbers |-> {"walletIndex"}, texts |-> {"expiry"}, packed |-> {"gatekeeperNetwork"}])
ClaimBadgeCriteriaInput == Class([
  numbers |-> {"criteriaIndex"}, packed |-> {"proof"},
  keys |-> {"projectAddress", "profileAddress", "payer"}])
CompressedAccount == Class([
  numbers |-> {"leaf_idx", "schema_validated"}, packed |-> {"tree_id", "raw_data"},
  lists |-> {"parsed_data"}])
ControlledMerkleTrees == Class([numbers |-> {"active"}, lists |-> {"schema", "merkle_trees"}])
CreateAssemblerConfigTransactionResponse == Class([
  numbers |-> {"proofBytes", "space", "cost", "maxTreeCapacity"},
  packed |-> {"assemblerConfig", "treeAddress"}, objects |-> [tx |-> "HoneycombTransaction"]])
CreateBadgeCriteriaInput == Class([
  numbers |-> {"startTime", "endTime", "badgeIndex"}, packed |-> {"condition"},
  keys |-> {"projectAddress", "authority", "payer"}])
CreateBeginCookingTransactionResponse == Class([
  packed |-> {"cooking"}, objects |-> [transaction |-> "HoneycombTransaction"]])
CreateCharacterModelTransactionResponse == Class([
  packed |-> {"characterModel"}, objects |-> [tx |-> "HoneycombTransaction"]])
CreateCreateHolderAccountTransactionResponse == Class([
  packed |-> {"holderAccount"}, objects |-> [tx |-> "HoneycombTransaction"]])
CreateCreateMissionPoolTransactionResponse == Class([
  packed |-> {"missionPoolAddress"}, objects |-> [tx |-> "HoneycombTransaction"]])
CreateCreateMissionTransactionResponse == Class([
  packed |-> {"missionAddress"}, objects |-> [tx |-> "HoneycombTransaction"]])
CreateCreateNewResourceTreeTransactionResponse == Class([
  packed |-> {"tree"}, objects |-> [tx |-> "HoneycombTransaction"]])
CreateCreateProjectTransactionResponse == Class([
  texts |-> {"project"}, objects |-> [tx |-> "HoneycombTransaction"]])
CreateCreateStakingPoolTransactionResponse == Class([
  packed |-> {"stakingPoolAddress", "multipliersAddress"},
  objects |-> [transactions |-> "Transactions"]])
CreateInitMultipliersTransactionResponse == Class([
  packed |-> {"multipliersAddress"}, objects |-> [tx |-> "HoneycombTransaction"]])
CreateInitResourceTransactionResponse == Class([
  packed |-> {"resource"}, objects |-> [tx |-> "HoneycombTransaction"]])
CreateInitializeFaucetTransactionResponse == Class([
  packed |-> {"faucet"}, objects |-> [tx |-> "HoneycombTransaction"]])
CreateInitializeRecipeTransactionResponse == Class([
  packed |-> {"recipe"}, objects |-> [transactions |-> "Transactions"]])
CreateStakingPoolMetadataInput == Class([
    numbers |-> {"rewardsPerDuration", "rewardsDuration", "maxRewardsDuration", "minStakeDuration",
      "cooldownDuration", "resetStakeDuration", "startTime", "endTime"},
  texts |-> {"name"}, packed |-> {"lockType"}])
CreateUpdateMissionPoolTransactionResponse == Class([objects |-> [tx |-> "HoneycombTransaction"]])
CreateUpdateMissionTransactionResponse == Class([objects |-> [tx |-> "HoneycombTransaction"]])
CustomDataInput == Class([packed |-> {"remove"}, lists |-> {"add"}])
DelegateAuthority == Class([
  numbers |-> {"bump"}, packed |-> {"address"}, lists |-> {"delegations"},
  keys |-> {"project", "authority"}])
DisrcriminatorFilter == Class([texts |-> {"programId", "accountName"}])
EarnedRewardsFilter == Class([numbers |-> {"delta", "rewardIdx"}])
EarnedRewards == Class([numbers |-> {"delta", "rewardIdx", "collected"}])
Faucet == Class([
  numbers |-> {"amount", "repeatInterval", "lastClaimed"}, packed |-> {"address"},
  keys |-> {"project", "resource"}])
Global == Class([
  numbers |-> {"bump", "totalUsers"}, packed |-> {"address"}, lists |-> {"config"},
  objects |-> [userTrees |-> "ControlledMerkleTrees"]])
GuildRoleFilter == Class([texts |-> {"kind"}])
GuildRole == Class([texts |-> {"kind"}])
Holding == Class([
  numbers |-> {"leaf_idx", "balance"}, packed |-> {"address", "tree_id"},
  lists |-> {"characteristics"}, keys |-> {"holder"}, objects |-> [proof |-> "Proof"]])
HoneycombAccount == Class([
  packed |-> {"address", "program_id", "discriminator"}, lists |-> {"parsed_data"}])
HoneycombNode == Class([
  numbers |-> {"node_idx", "leaf_idx", "seq", "level"}, texts |-> {"id"},
  packed |-> {"tree", "hash"}])
HoneycombResource == Class([
  numbers |-> {"bump"}, packed |-> {"address", "tags"}, keys |-> {"project", "mint"},
  objects |-> [storage |-> "ResourceStorage", kind |-> "ResourceKind"]])
HoneycombTransaction == Class([
  numbers |-> {"lastValidBlockHeight"}, texts |-> {"blockhash"}, packed |-> {"transaction"}])
HoneycombUserInfo == Class([texts |-> {"username", "name", "bio", "pfp"}])
ImportResourceInputCustodyInput == Class([numbers |-> {"supply"}, texts |-> {"burnerDestination"}])
ImportResourceInput == Class([
  numbers |-> {"decimals"},
  texts |-> {"project", "mint", "authority", "payer", "delegateAuthority"},
  packed |-> {"storage", "tags"}, objects |-> [custody |-> "ImportResourceInputCustodyInput"]])
Ingredient == Class([numbers |-> {"amount"}, keys |-> {"resourceAddress"}])
IngredientsInput == Class([numbers |-> {"amount"}, texts |-> {"resourceAddress"}])
InitResourceInput == Class([
  numbers |-> {"decimals"}, texts |-> {"name", "symbol", "uri"}, packed |-> {"tags", "storage"}])
InitStakingMultiplierMetadataInput == Class([numbers |-> {"decimals"}, lists |-> {"multipliers"}])
LockType == Class([texts |-> {"kind"}])
MealInput == Class([numbers |-> {"amount"}, texts |-> {"resourceAddress"}])
Meal == Class([numbers |-> {"amount"}, keys |-> {"resourceAddress"}])
MintAsInput == Class([
  packed |-> {"kind"}, objects |-> [mplBubblegum |-> "MintAsMplBubblegumInput"]])
MintAsMplBubblegumInput == Class([numbers |-> {"maxDepth", "maxBufferSize"}])
MintAsParamsMplBubblegum == Class([keys |-> {"merkleTree"}])
MintAs == Class([packed |-> {"kind"}, lists |-> {"params"}])
MissionCost == Class([numbers |-> {"amount"}, keys |-> {"resource_address"}])
MissionPool == Class([
  numbers |-> {"bump", "randomizerRound"}, texts |-> {"name"},
  packed |-> {"address", "program_id", "discriminator", "factionsMerkleRoot", "guildKits"},
  lists |-> {"characterModels"}, keys |-> {"project"}])
MissionReward == Class([numbers |-> {"min", "max"}, texts |-> {"resource"}, packed |-> {"kind"}])
Mission == Class([
  numbers |-> {"bump", "minXp"}, texts |-> {"name"},
  packed |-> {"address", "program_id", "discriminator"}, lists |-> {"requirement", "rewards"},
  keys |-> {"project", "missionPool"}, objects |-> [cost |-> "MissionCost"]])
ModifyDelegationInput == Class([
  numbers |-> {"index"}, objects |-> [delegation |-> "ModifyServiceDelegationInput"]])
ModifyServiceDelegationInput == Class([
  objects |-> [HiveControl |-> "ServiceDelegationHiveControl", CharacterManager |->
      "ServiceDelegationCharacterManager", ResourceManager |-> "ServiceDelegationResourceManager",
      NectarStaking |-> "ServiceDelegationNectarStaking", NectarMissions |->
      "ServiceDelegationNectarMissions", BuzzGuild |-> "ServiceDelegationBuzzGuild"]])
MultiplierTypeInput == Class([
  numbers |-> {"minStakeDuration", "minNftCount"}, texts |-> {"creator", "collection"}])
MultiplierTypeParamsCollection == Class([keys |-> {"collection"}])
MultiplierTypeParamsCreator == Class([keys |-> {"creator"}])
MultiplierTypeParamsNFTCount == Class([numbers |-> {"minCount"}])
MultiplierTypeParamsStakeDuration == Class([numbers |-> {"minDuration"}])
MultiplierType == Class([texts |-> {"kind"}, lists |-> {"params"}])
Multiplier == Class([numbers |-> {"value"}, objects |-> [multiplierType |-> "MultiplierType"]])
Multipliers == Class([
  numbers |-> {"bump", "decimals"}, packed |-> {"address"},
    lists |-> {"durationMultipliers", "countMultipliers", "creatorMultipliers",
      "collectionMultipliers"},
  keys |-> {"stakingPool"}])
NewMissionCost == Class([numbers |-> {"amount"}, texts |-> {"address"}])
NewMissionData == Class([
  numbers |-> {"minXp", "duration"},
  texts |-> {"project", "missionPool", "authority", "delegateAuthority", "payer", "name"},
  lists |-> {"rewards"}, objects |-> [cost |-> "NewMissionCost"]])
NewMissionPoolData == Class([
  texts |-> {"project", "authority", "delegateAuthority", "payer", "characterModel", "name"}])
NftCreatorInput == Class([numbers |-> {"share"}, texts |-> {"address"}])
NftCreator == Class([numbers |-> {"share"}, keys |-> {"address"}])
OutputHoldingTree == Class([packed |-> {"tree"}])
PartialUserInfoInput == Class([texts |-> {"name", "bio", "pfp"}])
ParticipateOnMissionData == Class([
  numbers |-> {"userId"}, texts |-> {"mission", "authority", "payer"},
  packed |-> {"characterAddresses"}])
PlatformDataInput == Class([
  numbers |-> {"addXp"}, packed |-> {"addAchievements"}, objects |-> [custom |-> "CustomDataInput"]])
PlatformData == Class([numbers |-> {"xp"}, packed |-> {"achievements"}, lists |-> {"custom"}])
ProfileDataConfigInput == Class([packed |-> {"achievements", "customDataFields"}])
ProfileDataConfig == Class([packed |-> {"achievements", "customDataFields"}])
ProfileInfoInput == Class([texts |-> {"name", "bio", "pfp"}])
ProfileInfo == Class([texts |-> {"name", "bio", "pfp"}])
Profile == Class([
  numbers |-> {"leaf_idx", "userId"}, texts |-> {"identity"}, packed |-> {"address", "tree_id"},
  lists |-> {"customData"}, keys |-> {"project"},
    objects |-> [proof |-> "Proof", info |-> "ProfileInfo", platformData |-> "PlatformData", user
      |-> "User"]])
Project == Class([
  numbers |-> {"bump", "subsidyFees"}, texts |-> {"name"}, packed |-> {"address"},
  lists |-> {"services", "associatedPrograms", "badgeCriteria"},
  keys |-> {"authority", "key", "driver"},
  objects |-> [profileDataConfig |-> "ProfileDataConfig", profileTrees |-> "ControlledMerkleTrees"]])
Proof == Class([
  numbers |-> {"node_index", "maxDepth", "leaf_index", "canopy_depth"},
  packed |-> {"root", "leaf", "tree_id"}, lists |-> {"proof"}])
RecallFromMissionData == Class([
  numbers |-> {"userId"}, texts |-> {"mission", "authority", "payer"},
  packed |-> {"characterAddresses"}])
RecipeInputResource == Class([numbers |-> {"amount"}, texts |-> {"resource"}])
RecipeInputResources == Class([
  objects |-> [inputOne |-> "RecipeInputResource", inputTwo |-> "RecipeInputResource", inputThree
      |-> "RecipeInputResource", inputFour |-> "RecipeInputResource"]])
RecipeOutputResource == Class([
  numbers |-> {"amount"}, texts |-> {"resource"}, lists |-> {"characteristics"}])
RecipeResources == Class([
  objects |-> [input |-> "RecipeInputResources", output |-> "RecipeOutputResource"]])
Recipe == Class([
  numbers |-> {"bump", "xp"}, packed |-> {"address"}, lists |-> {"ingredients"},
  keys |-> {"project", "key"}, objects |-> [meal |-> "Meal"]])
ResourceBalance == Class([
  texts |-> {"amount", "wallet"}, packed |-> {"address", "resourceStorage"}, keys |-> {"mint"}])
ResourceCustodyParams == Class([keys |-> {"burnerDestination"}])
ResourceCustody == Class([packed |-> {"kind"}, objects |-> [params |-> "ResourceCustodyParams"]])
ResourceKindParamsHplFungible == Class([numbers |-> {"decimals"}])
ResourceKindParamsHplNonFungible == Class([packed |-> {"characteristics"}])
ResourceKindParamsWrappedFungible == Class([
  numbers |-> {"decimals"}, objects |-> [custody |-> "ResourceCustody"]])
ResourceKindParamsWrappedMplCore == Class([packed |-> {"characteristics"}])
ResourceKind == Class([texts |-> {"kind"}, lists |-> {"params"}])
ResourceRewardTypeParams == Class([keys |-> {"address"}])
ResourceRewardType == Class([
  texts |-> {"kind"}, objects |-> [params |-> "ResourceRewardTypeParams"]])
ResourceStorageParams == Class([
  numbers |-> {"promiseSupply"}, objects |-> [merkle_trees |-> "ControlledMerkleTrees"]])
ResourceStorage == Class([packed |-> {"kind"}, objects |-> [params |-> "ResourceStorageParams"]])
Reward == Class([numbers |-> {"min", "max"}, lists |-> {"rewardType"}])
SendTransactionBundlesOptions == Class([
  numbers |-> {"skipPreflight"}, texts |-> {"commitment"},
  objects |-> [bundles |-> "TransactionBundlesOptions"]])
SendTransactionsOptions == Class([numbers |-> {"skipPreflight"}, texts |-> {"commitment"}])
SerializableActionsInput == Class([texts |-> {"kind"}])
SerializableActions == Class([texts |-> {"kind"}])
ServiceDelegationBuzzGuild == Class([numbers |-> {"index"}, packed |-> {"permission"}])
ServiceDelegationCharacterManager == Class([numbers |-> {"index"}, packed |-> {"permission"}])
ServiceDelegationHiveControl == Class([packed |-> {"permission"}])
ServiceDelegationInput == Class([
  lists |-> {"HiveControl", "CharacterManager", "ResourceManager", "NectarStaking",
      "NectarMissions", "BuzzGuild"}])
ServiceDelegationNectarMissions == Class([numbers |-> {"index"}, packed |-> {"permission"}])
ServiceDelegationNectarStaking == Class([numbers |-> {"index"}, packed |-> {"permission"}])
ServiceDelegationResourceManager == Class([packed |-> {"permission"}])
ServiceDelegation == Class([numbers |-> {"index"}, texts |-> {"kind", "permission"}])
ServiceParamsAssembler == Class([keys |-> {"assemblerId"}])
ServiceParamsAssetManager == Class([keys |-> {"assetManagerId"}])
ServiceParamsGuildKit == Class([keys |-> {"kitId"}])
ServiceParamsMissions == Class([keys |-> {"poolId"}])
ServiceParamsRaffles == Class([keys |-> {"poolId"}])
ServiceParamsStaking == Class([keys |-> {"poolId"}])
Service == Class([texts |-> {"kind"}, lists |-> {"params"}])
SocialInfo == Class([texts |-> {"twitter", "discord", "steam"}, lists |-> {"civic"}])
Staker == Class([
  numbers |-> {"bump", "totalStaked"}, packed |-> {"address"}, keys |-> {"stakingPool", "wallet"}])
StakingPool == Class([
    numbers |-> {"bump", "rewardsPerDuration", "rewardsDuration", "maxRewardsDuration",
      "minStakeDuration", "cooldownDuration", "resetStakeDuration", "allowedMints", "totalStaked",
      "startTime", "endTime"},
  texts |-> {"name"}, packed |-> {"address"}, lists |-> {"characterModels"},
  keys |-> {"project", "key", "resource"}, objects |-> [lockType |-> "LockType"]])
TimeRequirementParams == Class([numbers |-> {"duration"}])
TimeRequirement == Class([texts |-> {"kind"}, objects |-> [params |-> "TimeRequirementParams"]])
TransactionBundleResponse == Class([numbers |-> {"bundleId"}, lists |-> {"responses"}])
TransactionBundlesOptions == Class([
  numbers |-> {"bundleSize", "firstBundleSize", "lastBundleSize"}])
TransactionResponse == Class([texts |-> {"signature", "status"}, lists |-> {"error"}])
Transactions == Class([
  numbers |-> {"lastValidBlockHeight"}, texts |-> {"blockhash"}, lists |-> {"transactions"}])
TreeLeaf == Class([numbers |-> {"index"}, packed |-> {"tree"}])
TreeSetupConfig == Class([
  objects |-> [basic |-> "BasicTreeConfig", advanced |-> "AdvancedTreeConfig"]])
TreeSetupResponse == Class([
  numbers |-> {"proofBytes", "space", "cost", "maxTreeCapacity"}, packed |-> {"treeAddress"},
  objects |-> [tx |-> "HoneycombTransaction"]])
UpdateBadgeCriteriaInput == Class([
  numbers |-> {"criteriaIndex", "startTime", "endTime"}, packed |-> {"condition"},
  keys |-> {"projectAddress", "authority", "payer"}])
UpdateMissionData == Class([
  numbers |-> {"minXp", "duration", "removeAllRewards"},
  texts |-> {"mission", "authority", "delegateAuthority", "payer", "name"},
  packed |-> {"removeRewardIndices"}, lists |-> {"addRewards"},
  objects |-> [cost |-> "NewMissionCost"]])
UpdateMissionInput == Class([
  numbers |-> {"minXp", "duration"}, packed |-> {"removeRewards"},
  lists |-> {"newRewards", "updateRewards"}, objects |-> [cost |-> "NewMissionCost"]])
UpdateMissionPoolData == Class([
  texts |-> {"project", "missionPool", "characterModel", "authority", "delegateAuthority", "payer"}])
UpdateStakingPoolMetadataInput == Class([
    numbers |-> {"rewardsPerDuration", "rewardsDuration", "maxRewardsDuration", "minStakeDuration",
      "cooldownDuration", "resetStakeDuration", "startTime", "endTime"},
  texts |-> {"name"}])
UpdateWalletInput == Class([packed |-> {"add", "remove"}])
UsedByCustom == Class([lists |-> {"data"}, keys |-> {"user"}])
UsedByEjected == Class([keys |-> {"mint"}])
UsedByGuildFilter == Class([
  numbers |-> {"order"}, keys |-> {"id"}, objects |-> [role |-> "GuildRoleFilter"]])
UsedByGuild == Class([numbers |-> {"order"}, keys |-> {"id"}, objects |-> [role |-> "GuildRole"]])
UsedByMission == Class([
  numbers |-> {"endTime"}, texts |-> {"participationId"}, lists |-> {"rewards"},
  keys |-> {"missionId"}])
UsedByStaking == Class([numbers |-> {"stakedAt", "claimedAt"}, keys |-> {"pool", "staker"}])
UserInfoInput == Class([texts |-> {"name", "bio", "pfp"}])
User == Class([
  numbers |-> {"id", "leaf_idx"}, packed |-> {"address", "tree_id"}, lists |-> {"profiles"},
    objects |-> [proof |-> "Proof", info |-> "HoneycombUserInfo", socialInfo |-> "SocialInfo",
      wallets |-> "Wallets"]])
Wallets == Class([lists |-> {"wallets"}, keys |-> {"shadow"}])
Wrapped == Class([
  packed |-> {"kind"}, keys |-> {"mint"}, objects |-> [criteria |-> "AssetCriteria"]])
XpRewardType == Class([texts |-> {"kind"}])

Classes == [AddMultiplierMetadataInput |-> AddMultiplierMetadataInput,
  AdvancedTreeConfig |-> AdvancedTreeConfig, Assembled |-> Assembled,
  AssemblerConfigInput |-> AssemblerConfigInput, AssemblerConfig |-> AssemblerConfig,
  AssetCriteriaFilter |-> AssetCriteriaFilter, AssetCriteriaInput |-> AssetCriteriaInput,
  AssetCriteria |-> AssetCriteria, AssociatedProgramInput |-> AssociatedProgramInput,
  AssociatedProgram |-> AssociatedProgram, AuthConfirmed |-> AuthConfirmed,
  AuthResponse |-> AuthResponse, BadgeCriteria |-> BadgeCriteria,
  BasicTreeConfig |-> BasicTreeConfig, CharacterConfigAssembled |-> CharacterConfigAssembled,
  CharacterConfigInput |-> CharacterConfigInput, CharacterConfigWrapped |-> CharacterConfigWrapped,
  CharacterCooldownInput |-> CharacterCooldownInput, CharacterCooldown |-> CharacterCooldown,
  CharacterHistory |-> CharacterHistory, CharacterModel |-> CharacterModel,
  CharacterSourceFilter |-> CharacterSourceFilter,
  CharacterSourceParamsFilter |-> CharacterSourceParamsFilter, CharacterSource |-> CharacterSource,
  CharacterTraitInput |-> CharacterTraitInput, CharacterTrait |-> CharacterTrait,
  CharacterUsedByFilter |-> CharacterUsedByFilter,
  CharacterUsedByParamsFilter |-> CharacterUsedByParamsFilter, CharacterUsedBy |-> CharacterUsedBy,
  Character |-> Character, CharactersFilter |-> CharactersFilter, CivicInfoInput |-> CivicInfoInput,
  CivicInfo |-> CivicInfo, ClaimBadgeCriteriaInput |-> ClaimBadgeCriteriaInput,
  CompressedAccount |-> CompressedAccount, ControlledMerkleTrees |-> ControlledMerkleTrees,
  CreateAssemblerConfigTransactionResponse |-> CreateAssemblerConfigTransactionResponse,
  CreateBadgeCriteriaInput |-> CreateBadgeCriteriaInput,
  CreateBeginCookingTransactionResponse |-> CreateBeginCookingTransactionResponse,
  CreateCharacterModelTransactionResponse |-> CreateCharacterModelTransactionResponse,
  CreateCreateHolderAccountTransactionResponse |-> CreateCreateHolderAccountTransactionResponse,
  CreateCreateMissionPoolTransactionResponse |-> CreateCreateMissionPoolTransactionResponse,
  CreateCreateMissionTransactionResponse |-> CreateCreateMissionTransactionResponse,
  CreateCreateNewResourceTreeTransactionResponse |-> CreateCreateNewResourceTreeTransactionResponse,
  CreateCreateProjectTransactionResponse |-> CreateCreateProjectTransactionResponse,
  CreateCreateStakingPoolTransactionResponse |-> CreateCreateStakingPoolTransactionResponse,
  CreateInitMultipliersTransactionResponse |-> CreateInitMultipliersTransactionResponse,
  CreateInitResourceTransactionResponse |-> CreateInitResourceTransactionResponse,
  CreateInitializeFaucetTransactionResponse |-> CreateInitializeFaucetTransactionResponse,
  CreateInitializeRecipeTransactionResponse |-> CreateInitializeRecipeTransactionResponse,
  CreateStakingPoolMetadataInput |-> CreateStakingPoolMetadataInput,
  CreateUpdateMissionPoolTransactionResponse |-> CreateUpdateMissionPoolTransactionResponse,
  CreateUpdateMissionTransactionResponse |-> CreateUpdateMissionTransactionResponse,
  CustomDataInput |-> CustomDataInput, DelegateAuthority |-> DelegateAuthority,
  DisrcriminatorFilter |-> DisrcriminatorFilter, EarnedRewardsFilter |-> EarnedRewardsFilter,
  EarnedRewards |-> EarnedRewards, Faucet |-> Faucet, Global |-> Global,
  GuildRoleFilter |-> GuildRoleFilter, GuildRole |-> GuildRole, Holding |-> Holding,
  HoneycombAccount |-> HoneycombAccount, HoneycombNode |-> HoneycombNode,
  HoneycombResource |-> HoneycombResource, HoneycombTransaction |-> HoneycombTransaction,
  HoneycombUserInfo |-> HoneycombUserInfo,
  ImportResourceInputCustodyInput |-> ImportResourceInputCustodyInput,
  ImportResourceInput |-> ImportResourceInput, Ingredient |-> Ingredient,
  IngredientsInput |-> IngredientsInput, InitResourceInput |-> InitResourceInput,
  InitStakingMultiplierMetadataInput |-> InitStakingMultiplierMetadataInput, LockType |-> LockType,
  MealInput |-> MealInput, Meal |-> Meal, MintAsInput |-> MintAsInput,
  MintAsMplBubblegumInput |-> MintAsMplBubblegumInput,
  MintAsParamsMplBubblegum |-> MintAsParamsMplBubblegum, MintAs |-> MintAs,
  MissionCost |-> MissionCost, MissionPool |-> MissionPool, MissionReward |-> MissionReward,
  Mission |-> Mission, ModifyDelegationInput |-> ModifyDelegationInput,
  ModifyServiceDelegationInput |-> ModifyServiceDelegationInput,
  MultiplierTypeInput |-> MultiplierTypeInput,
  MultiplierTypeParamsCollection |-> MultiplierTypeParamsCollection,
  MultiplierTypeParamsCreator |-> MultiplierTypeParamsCreator,
  MultiplierTypeParamsNFTCount |-> MultiplierTypeParamsNFTCount,
  MultiplierTypeParamsStakeDuration |-> MultiplierTypeParamsStakeDuration,
  MultiplierType |-> MultiplierType, Multiplier |-> Multiplier, Multipliers |-> Multipliers,
  NewMissionCost |-> NewMissionCost, NewMissionData |-> NewMissionData,
  NewMissionPoolData |-> NewMissionPoolData, NftCreatorInput |-> NftCreatorInput,
  NftCreator |-> NftCreator, OutputHoldingTree |-> OutputHoldingTree,
  PartialUserInfoInput |-> PartialUserInfoInput,
  ParticipateOnMissionData |-> ParticipateOnMissionData, PlatformDataInput |-> PlatformDataInput,
  PlatformData |-> PlatformData, ProfileDataConfigInput |-> ProfileDataConfigInput,
  ProfileDataConfig |-> ProfileDataConfig, ProfileInfoInput |-> ProfileInfoInput,
  ProfileInfo |-> ProfileInfo, Profile |-> Profile, Project |-> Project, Proof |-> Proof,
  RecallFromMissionData |-> RecallFromMissionData, RecipeInputResource |-> RecipeInputResource,
  RecipeInputResources |-> RecipeInputResources, RecipeOutputResource |-> RecipeOutputResource,
  RecipeResources |-> RecipeResources, Recipe |-> Recipe, ResourceBalance |-> ResourceBalance,
  ResourceCustodyParams |-> ResourceCustodyParams, ResourceCustody |-> ResourceCustody,
  ResourceKindParamsHplFungible |-> ResourceKindParamsHplFungible,
  ResourceKindParamsHplNonFungible |-> ResourceKindParamsHplNonFungible,
  ResourceKindParamsWrappedFungible |-> ResourceKindParamsWrappedFungible,
  ResourceKindParamsWrappedMplCore |-> ResourceKindParamsWrappedMplCore,
  ResourceKind |-> ResourceKind, ResourceRewardTypeParams |-> ResourceRewardTypeParams,
  ResourceRewardType |-> ResourceRewardType, ResourceStorageParams |-> ResourceStorageParams,
  ResourceStorage |-> ResourceStorage, Reward |-> Reward,
  SendTransactionBundlesOptions |-> SendTransactionBundlesOptions,
  SendTransactionsOptions |-> SendTransactionsOptions,
  SerializableActionsInput |-> SerializableActionsInput,
  SerializableActions |-> SerializableActions,
  ServiceDelegationBuzzGuild |-> ServiceDelegationBuzzGuild,
  ServiceDelegationCharacterManager |-> ServiceDelegationCharacterManager,
  ServiceDelegationHiveControl |-> ServiceDelegationHiveControl,
  ServiceDelegationInput |-> ServiceDelegationInput,
  ServiceDelegationNectarMissions |-> ServiceDelegationNectarMissions,
  ServiceDelegationNectarStaking |-> ServiceDelegationNectarStaking,
  ServiceDelegationResourceManager |-> ServiceDelegationResourceManager,
  ServiceDelegation |-> ServiceDelegation, ServiceParamsAssembler |-> ServiceParamsAssembler,
  ServiceParamsAssetManager |-> ServiceParamsAssetManager,
  ServiceParamsGuildKit |-> ServiceParamsGuildKit, ServiceParamsMissions |-> ServiceParamsMissions,
  ServiceParamsRaffles |-> ServiceParamsRaffles, ServiceParamsStaking |-> ServiceParamsStaking,
  Service |-> Service, SocialInfo |-> SocialInfo, Staker |-> Staker, StakingPool |-> StakingPool,
  TimeRequirementParams |-> TimeRequirementParams, TimeRequirement |-> TimeRequirement,
  TransactionBundleResponse |-> TransactionBundleResponse,
  TransactionBundlesOptions |-> TransactionBundlesOptions,
  TransactionResponse |-> TransactionResponse, Transactions |-> Transactions, TreeLeaf |-> TreeLeaf,
  TreeSetupConfig |-> TreeSetupConfig, TreeSetupResponse |-> TreeSetupResponse,
  UpdateBadgeCriteriaInput |-> UpdateBadgeCriteriaInput, UpdateMissionData |-> UpdateMissionData,
  UpdateMissionInput |-> UpdateMissionInput, UpdateMissionPoolData |-> UpdateMissionPoolData,
  UpdateStakingPoolMetadataInput |-> UpdateStakingPoolMetadataInput,
  UpdateWalletInput |-> UpdateWalletInput, UsedByCustom |-> UsedByCustom,
  UsedByEjected |-> UsedByEjected, UsedByGuildFilter |-> UsedByGuildFilter,
  UsedByGuild |-> UsedByGuild, UsedByMission |-> UsedByMission, UsedByStaking |-> UsedByStaking,
  UserInfoInput |-> UserInfoInput, User |-> User, Wallets |-> Wallets, Wrapped |-> Wrapped,
  XpRewardType |-> XpRewardType]

FieldsOf(class) ==
  LET c == Classes[class]
  IN c.numbers \cup c.texts \cup c.packed \cup c.lists \cup c.keys \cup DOMAIN c.objects

-----------------------------------------------------------------------------
(* Values.                                                                 *)

Null == [kind |-> "null"]
Datum == [kind |-> "datum"]      \* a number, a string or packed data
Garbage == [kind |-> "garbage"]  \* a number nobody assigned
Blank == [kind |-> "blank"]      \* a packed field nobody assigned
Empty == [kind |-> "empty"]      \* a String without letters
Key == [kind |-> "key"]          \* a Pubkey object
List(items) == [kind |-> "list", items |-> items]
Dict(fields) == [kind |-> "dict", fields |-> fields]
Object(class, fields) == [kind |-> "object", class |-> class, fields |-> fields]

\* An object as memnew leaves it.
NewFields(class) ==
  LET c == Classes[class]
  IN [f \in FieldsOf(class) |->
        IF f \in c.numbers THEN Garbage
        ELSE IF f \in c.texts THEN Empty
        ELSE IF f \in c.packed THEN Blank
        ELSE IF f \in c.lists THEN List(<<>>)
        ELSE Null]

\* owner.has_method("to_string") and owner.call("to_string")
AsText(v) == IF v.kind \in {"key", "object"} THEN Datum ELSE v

IsA(v, class) == v.kind = "object" /\ v.class = class

\* What is assigned as it is.
Uncast(o) ==
  LET c == Classes[o.class]
  IN c.numbers \cup {f \in c.texts : o.fields[f] # Empty} \cup c.packed \cup c.lists

RECURSIVE ToDictUnnested(_)
\* Mutant: nested objects are assigned as they are.
ToDictUnnested(o) ==
  LET c == Classes[o.class]
      cast == {f \in DOMAIN c.objects : IsA(o.fields[f], c.objects[f])}
  IN Dict([f \in Uncast(o) \cup cast |-> o.fields[f]]
            @@ [f \in c.keys |-> AsText(o.fields[f])])

RECURSIVE ToDict(_)
\* Dictionary to_dict(): what is not of the class a property asks for is left out.
ToDict(o) ==
  LET c == Classes[o.class]
      cast == {f \in DOMAIN c.objects : IsA(o.fields[f], c.objects[f])}
  IN Dict([f \in Uncast(o) |-> o.fields[f]]
            @@ [f \in c.keys |-> AsText(o.fields[f])]
            @@ [f \in cast |-> ToDict(o.fields[f])])

RECURSIVE ProcessWrappedObjects(_)
\* Variant HoneyComb::process_wrapped_objects(value): what to_dict returns is
\* not processed in turn.
ProcessWrappedObjects(v) ==
  CASE v.kind = "list" -> List([i \in DOMAIN v.items |-> ProcessWrappedObjects(v.items[i])])
    [] v.kind = "dict" -> Dict([f \in DOMAIN v.fields |-> ProcessWrappedObjects(v.fields[f])])
    [] v.kind = "object" -> ToDict(v)
    [] v.kind = "key" -> Datum  \* "[Unsupported Object]"
    [] OTHER -> v

\* The value of one argument in String build(): an Array is written twice, the
\* second time processed, and a later member of a JSON object counts.
Payload(v) ==
  CASE v.kind = "object" -> ToDict(v)
    [] v.kind = "key" -> v
    [] OTHER -> ProcessWrappedObjects(v)
=============================================================================
