---------------------------- MODULE HoneyCombApi ----------------------------
(***************************************************************************)
(* The queries of the HoneyComb node                                       *)
(* (src/src/honeycomb/honeycomb_generated.cpp).  Every one returns         *)
(* ERR_BUSY while another is pending; otherwise it adds its required       *)
(* arguments and those of its optional ones that differ from their         *)
(* default, names its method and sends.                                    *)
(***************************************************************************)
EXTENDS TLC

\* lists: arguments that are Arrays; tables: Dictionaries; objects: arguments
\* cast to a class of HoneyCombTypes and turned into a Dictionary.
Query(arguments) ==
  arguments @@ [required |-> {}, optional |-> {}, lists |-> {}, tables |-> {}, objects |-> <<>>]

findCompressedAccounts == Query([
  method |-> "compressedAccount", required |-> {"addresses"},
  optional |-> {"identity", "leaves", "parsedData"}, lists |-> {"addresses", "leaves"},
  tables |-> {"parsedData"}, objects |-> [identity |-> "DisrcriminatorFilter"]])
fetchProofs == Query([method |-> "proof", required |-> {"leaves"}, lists |-> {"leaves"}])
findAccounts == Query([
  method |-> "account", required |-> {"programId"}, optional |-> {"discriminator", "parsedData"},
  tables |-> {"parsedData"}])
sendTransactionBundles == Query([
  required |-> {"txs", "blockhash", "lastValidBlockHeight"}, optional |-> {"options"},
  lists |-> {"txs"}, objects |-> [options |-> "SendTransactionBundlesOptions"]])
signWithShadowSignerAndSendTransactionBundles == Query([
  required |-> {"txs", "blockhash", "lastValidBlockHeight", "authToken"}, optional |-> {"options"},
  lists |-> {"txs"}, objects |-> [options |-> "SendTransactionBundlesOptions"]])
sendBulkTransactions == Query([
  required |-> {"txs", "blockhash", "lastValidBlockHeight"}, optional |-> {"options"},
  lists |-> {"txs"}, objects |-> [options |-> "SendTransactionBundlesOptions"]])
signWithShadowSignerAndSendBulkTransactions == Query([
  required |-> {"txs", "blockhash", "lastValidBlockHeight"}, optional |-> {"options"},
  lists |-> {"txs"}, objects |-> [options |-> "SendTransactionBundlesOptions"]])
authRequest == Query([required |-> {"wallet"}, optional |-> {"useTx", "useRpc"}])
authConfirm == Query([required |-> {"wallet", "signature"}])
createTransferAssetsTransactions == Query([
  required |-> {"addresses", "to"}, optional |-> {"lutAddresses", "computeUnitPrice"}])
createBurnAssetsTransactions == Query([
  required |-> {"addresses"}, optional |-> {"lutAddresses", "computeUnitPrice"}])
findGlobal == Query([method |-> "global", optional |-> {"env"}])
findProjects == Query([
  method |-> "project", optional |-> {"addresses", "names", "authorities"},
  lists |-> {"addresses", "authorities"}])
findDelegateAuthority == Query([
  method |-> "delegateAuthority", optional |-> {"addresses", "delegates", "projects"},
  lists |-> {"addresses", "delegates", "projects"}])
findUsers == Query([
  method |-> "user",
  optional |-> {"addresses", "ids", "wallets", "includeProof", "includeProjectProfiles"},
  lists |-> {"addresses", "wallets", "includeProjectProfiles"}])
findProfiles == Query([
  method |-> "profile",
  optional |-> {"addresses", "projects", "userIds", "identities", "includeProof", "includeUsers"},
  lists |-> {"addresses", "projects"}])
createNewUserTransaction == Query([
  required |-> {"wallet"}, optional |-> {"info", "payer", "lutAddresses", "computeUnitPrice"},
  objects |-> [info |-> "UserInfoInput"]])
createNewUserBulkTransaction == Query([
  required |-> {"wallet", "info", "payer"}, optional |-> {"lutAddresses", "computeUnitPrice"},
  lists |-> {"info"}])
createUpdateUserTransaction == Query([
  required |-> {"payer"},
  optional |-> {"info", "wallets", "populateCivic", "removeSocials", "lutAddresses",
      "computeUnitPrice"}, lists |-> {"removeSocials"},
  objects |-> [info |-> "PartialUserInfoInput", wallets |-> "UpdateWalletInput"]])
createCreateProjectTransaction == Query([
  required |-> {"authority", "name"},
  optional |-> {"driver", "associatedPrograms", "profileDataConfig", "subsidizeFees", "payer",
      "lutAddresses", "computeUnitPrice"}, lists |-> {"associatedPrograms"},
  objects |-> [profileDataConfig |-> "ProfileDataConfigInput"]])
createChangeProjectDriverTransaction == Query([
  required |-> {"project", "driver", "authority"},
  optional |-> {"payer", "lutAddresses", "computeUnitPrice"}])
createCreateDelegateAuthorityTransaction == Query([
  required |-> {"project", "delegate", "serviceDelegations", "authority"},
  optional |-> {"payer", "lutAddresses", "computeUnitPrice"},
  objects |-> [serviceDelegations |-> "ServiceDelegationInput"]])
createModifyDelegationTransaction == Query([
  required |-> {"project", "delegate", "modifyDelegation", "authority"},
  optional |-> {"payer", "lutAddresses", "computeUnitPrice"},
  objects |-> [modifyDelegation |-> "ModifyDelegationInput"]])
createCreateProfilesTreeTransaction == Query([
  required |-> {"treeConfig", "project", "payer"},
  optional |-> {"lutAddresses", "computeUnitPrice"},
  objects |-> [treeConfig |-> "TreeSetupConfig"]])
createNewProfileTransaction == Query([
  required |-> {"project", "payer"},
  optional |-> {"identity", "info", "lutAddresses", "computeUnitPrice"},
  objects |-> [info |-> "ProfileInfoInput"]])
createUpdateProfileTransaction == Query([
  required |-> {"profile", "payer"},
  optional |-> {"info", "customData", "lutAddresses", "computeUnitPrice"},
  objects |-> [info |-> "ProfileInfoInput", customData |-> "CustomDataInput"]])
createUpdatePlatformDataTransaction == Query([
  required |-> {"profile", "authority"},
  optional |-> {"delegateAuthority", "payer", "platformData", "lutAddresses", "computeUnitPrice"},
  objects |-> [platformData |-> "PlatformDataInput"]])
createNewUserWithProfileTransaction == Query([
  required |-> {"project", "wallet", "userInfo"},
  optional |-> {"payer", "profileIdentity", "lutAddresses", "computeUnitPrice"},
  objects |-> [userInfo |-> "UserInfoInput"]])
findAssemblerConfig == Query([
  method |-> "assemblerConfig", optional |-> {"addresses", "tickers", "characterModel", "project"},
  lists |-> {"addresses", "characterModel", "project"}])
findCharacterTraits == Query([
  method |-> "characterTrait", optional |-> {"addresses", "trees", "includeProof"},
  lists |-> {"addresses", "trees"}])
findCharacterModels == Query([
  method |-> "characterModel", optional |-> {"addresses", "project", "assemblerConfigs"},
  lists |-> {"addresses", "assemblerConfigs"}])
findCharacters == Query([
  method |-> "character",
  optional |-> {"includeProof", "addresses", "filters", "trees", "wallets", "mints",
      "attributeHashes"}, lists |-> {"addresses", "trees", "wallets", "mints", "attributeHashes"},
  objects |-> [filters |-> "CharactersFilter"]])
fetchCharacterHistory == Query([
  method |-> "characterHistory", required |-> {"addresses"}, optional |-> {"event"},
  lists |-> {"addresses"}])
createCreateAssemblerConfigTransaction == Query([
  required |-> {"ticker", "project", "authority"},
  optional |-> {"treeConfig", "order", "payer", "lutAddresses", "computeUnitPrice"},
  objects |-> [treeConfig |-> "TreeSetupConfig"]])
createAddCharacterTraitsTransactions == Query([
  required |-> {"assemblerConfig", "traits", "authority"},
  optional |-> {"payer", "lutAddresses", "computeUnitPrice"}, lists |-> {"traits"}])
createRemoveCharacterTraitsTransactions == Query([
  required |-> {"assemblerConfig", "traitsAddresses", "authority"},
  optional |-> {"payer", "lutAddresses", "computeUnitPrice"}])
createCreateCharacterModelTransaction == Query([
  required |-> {"config", "project", "authority"},
  optional |-> {"attributes", "mintAs", "cooldown", "equipableCriteria", "payer", "lutAddresses",
      "computeUnitPrice"}, lists |-> {"attributes"},
  objects |-> [config |-> "CharacterConfigInput", mintAs |-> "MintAsInput", cooldown |->
      "CharacterCooldownInput"]])
createCreateCharactersTreeTransaction == Query([
  required |-> {"treeConfig", "project", "characterModel", "authority"},
  optional |-> {"payer", "lutAddresses", "computeUnitPrice"},
  objects |-> [treeConfig |-> "TreeSetupConfig"]])
createAssembleCharacterTransaction == Query([
  required |-> {"project", "assemblerConfig", "characterModel", "owner", "authority"},
  optional |-> {"uri", "attributes", "payer", "lutAddresses", "computeUnitPrice"},
  lists |-> {"attributes"}])
createUpdateCharacterTraitsTransaction == Query([
  required |-> {"characterAddress", "project", "assemblerConfig", "characterModel", "authority"},
  optional |-> {"uri", "attributes", "payer", "lutAddresses", "computeUnitPrice"},
  lists |-> {"attributes"}])
createPopulateCharacterTransaction == Query([
  required |-> {"project", "characterModel", "mint", "owner", "updateAuthority", "payer"},
  optional |-> {"attributes", "assemblerConfig", "lutAddresses", "computeUnitPrice"},
  lists |-> {"attributes"}])
createWrapAssetsToCharacterTransactions == Query([
  required |-> {"project", "characterModel", "wallet", "mintList"},
  optional |-> {"libreplexDeployment", "lutAddresses", "computeUnitPrice"}])
createUnwrapAssetsFromCharacterTransactions == Query([
  required |-> {"project", "characterAddresses", "characterModel", "wallet"},
  optional |-> {"libreplexDeployment", "lutAddresses", "computeUnitPrice"}])
createEquipResourceOnCharacterTransaction == Query([
  required |-> {"characterModel", "characterAddress", "resource", "amount", "owner"},
  optional |-> {"payer", "lutAddresses", "computeUnitPrice"}])
createDismountResourceOnCharacterTransaction == Query([
  required |-> {"characterModel", "characterAddress", "resource", "amount", "owner"},
  optional |-> {"payer", "lutAddresses", "computeUnitPrice"}])
createUseCharacterTransaction == Query([
  required |-> {"character", "project", "characterModel", "user"},
  optional |-> {"data", "unUse", "payer", "lutAddresses", "computeUnitPrice"}, tables |-> {"data"}])
findStakingPools == Query([
  method |-> "stakingPools", optional |-> {"addresses", "projects", "names"},
  lists |-> {"addresses", "projects"}])
findStakers == Query([
  method |-> "stakers", optional |-> {"addresses", "stakingPools", "wallets"},
  lists |-> {"addresses", "stakingPools", "wallets"}])
findMultipliers == Query([
  method |-> "multipliers", optional |-> {"addresses", "stakingPools"},
  lists |-> {"addresses", "stakingPools"}])
createCreateStakingPoolTransaction == Query([
  required |-> {"project", "resource", "metadata", "authority"},
  optional |-> {"multiplier", "delegateAuthority", "payer", "lutAddresses", "computeUnitPrice"},
  objects |-> [metadata |-> "CreateStakingPoolMetadataInput", multiplier |->
      "InitStakingMultiplierMetadataInput"]])
createUpdateStakingPoolTransaction == Query([
  required |-> {"project", "stakingPool", "authority"},
  optional |-> {"metadata", "characterModel", "resource", "delegateAuthority", "payer",
      "lutAddresses", "computeUnitPrice"},
  objects |-> [metadata |-> "UpdateStakingPoolMetadataInput"]])
createInitMultipliersTransaction == Query([
  required |-> {"project", "stakingPool", "decimals", "multipliers", "authority"},
  optional |-> {"delegateAuthority", "payer", "lutAddresses", "computeUnitPrice"},
  lists |-> {"multipliers"}])
createAddMultiplierTransaction == Query([
  required |-> {"project", "multiplier", "metadata", "authority"},
  optional |-> {"delegateAuthority", "payer", "lutAddresses", "computeUnitPrice"},
  objects |-> [metadata |-> "AddMultiplierMetadataInput"]])
createStakeCharactersTransactions == Query([
  required |-> {"characterAddresses", "characterModel", "stakingPool", "project"},
  optional |-> {"feePayer", "lutAddresses", "computeUnitPrice"}])
createClaimStakingRewardsTransactions == Query([
  required |-> {"characterAddresses", "characterModel"},
  optional |-> {"feePayer", "lutAddresses", "computeUnitPrice"}])
createUnstakeCharactersTransactions == Query([
  required |-> {"characterAddresses", "characterModel"},
  optional |-> {"feePayer", "lutAddresses", "computeUnitPrice"}])
findMissions == Query([
  method |-> "mission", optional |-> {"addresses", "missionPools"},
  lists |-> {"addresses", "missionPools"}])
findMissionPools == Query([
  method |-> "missionPool", optional |-> {"addresses", "project"}, lists |-> {"addresses"}])
createCreateMissionPoolTransaction == Query([
  required |-> {"data"}, optional |-> {"lutAddresses", "computeUnitPrice"},
  objects |-> [data |-> "NewMissionPoolData"]])
createUpdateMissionPoolTransaction == Query([
  required |-> {"data"}, optional |-> {"lutAddresses", "computeUnitPrice"},
  objects |-> [data |-> "UpdateMissionPoolData"]])
createCreateMissionTransaction == Query([
  required |-> {"data"}, optional |-> {"lutAddresses", "computeUnitPrice"},
  objects |-> [data |-> "NewMissionData"]])
createUpdateMissionTransaction == Query([
  required |-> {"missionAddress", "authority", "params"},
  optional |-> {"payer", "delegateAuthority", "lutAddresses", "computeUnitPrice"},
  objects |-> [params |-> "UpdateMissionInput"]])
createSendCharactersOnMissionTransaction == Query([
  required |-> {"data"}, optional |-> {"lutAddresses", "computeUnitPrice"},
  objects |-> [data |-> "ParticipateOnMissionData"]])
createRecallCharactersTransaction == Query([
  required |-> {"data"}, optional |-> {"lutAddresses", "computeUnitPrice"},
  objects |-> [data |-> "RecallFromMissionData"]])
findResources == Query([
  method |-> "resources", optional |-> {"addresses", "projects", "mints"},
  lists |-> {"addresses", "projects", "mints"}])
findResourcesBalance == Query([
  method |-> "resourcesBalance", required |-> {"wallets"},
  optional |-> {"addresses", "projects", "mints"}])
findFaucets == Query([
  method |-> "faucets", optional |-> {"addresses", "projects", "resources"},
  lists |-> {"addresses", "projects", "resources"}])
findRecipes == Query([
  method |-> "recipes", optional |-> {"addresses", "projects"},
  lists |-> {"addresses", "projects"}])
findHoldings == Query([
  method |-> "holdings", optional |-> {"addresses", "holders", "trees", "includeProof"},
  lists |-> {"addresses", "holders", "trees"}])
createCreateNewResourceTransaction == Query([
  required |-> {"project", "authority", "params"},
  optional |-> {"delegateAuthority", "payer", "lutAddresses", "computeUnitPrice"},
  objects |-> [params |-> "InitResourceInput"]])
createImportFungibleResourceTransaction == Query([
  required |-> {"params"}, optional |-> {"lutAddresses", "computeUnitPrice"},
  objects |-> [params |-> "ImportResourceInput"]])
createExportFungibleResourceTransaction == Query([
  required |-> {"resource", "authority"},
  optional |-> {"delegateAuthority", "lutAddresses", "computeUnitPrice"}])
createCreateNewResourceTreeTransaction == Query([
  required |-> {"project", "resource", "authority", "treeConfig"},
  optional |-> {"delegateAuthority", "payer", "lutAddresses", "computeUnitPrice"},
  objects |-> [treeConfig |-> "TreeSetupConfig"]])
createMintResourceTransaction == Query([
  required |-> {"resource", "owner", "authority", "amount"},
  optional |-> {"delegateAuthority", "payer", "lutAddresses", "computeUnitPrice"}])
createBurnResourceTransaction == Query([
  required |-> {"resource", "amount", "authority"},
  optional |-> {"owner", "delegateAuthority", "payer", "lutAddresses", "computeUnitPrice"}])
createTransferResourceTransaction == Query([
  required |-> {"resource", "owner", "recipient", "amount"},
  optional |-> {"payer", "lutAddresses", "computeUnitPrice"}])
createCreateWrapHoldingTransaction == Query([
  required |-> {"resource", "amount", "authority"},
  optional |-> {"payer", "lutAddresses", "computeUnitPrice"}])
createCreateUnwrapHoldingTransaction == Query([
  required |-> {"resource", "amount", "authority"},
  optional |-> {"payer", "lutAddresses", "computeUnitPrice"}])
createInitializeFaucetTransaction == Query([
  required |-> {"resource", "amount", "repeatInterval", "authority"},
  optional |-> {"delegateAuthority", "payer", "lutAddresses", "computeUnitPrice"}])
createClaimFaucetTransaction == Query([
  required |-> {"faucet", "owner"}, optional |-> {"payer", "lutAddresses", "computeUnitPrice"}])
createInitializeRecipeTransaction == Query([
  required |-> {"project", "xp", "ingredients", "meal", "authority"},
  optional |-> {"delegateAuthority", "payer", "lutAddresses", "computeUnitPrice"},
  lists |-> {"ingredients"}, objects |-> [meal |-> "MealInput"]])
createAddIngredientsTransaction == Query([
  required |-> {"recipe", "ingredients", "authority"},
  optional |-> {"delegateAuthority", "payer", "lutAddresses", "computeUnitPrice"},
  lists |-> {"ingredients"}])
createRemoveIngredientsTransaction == Query([
  required |-> {"recipe", "ingredients", "authority"},
  optional |-> {"delegateAuthority", "payer", "lutAddresses", "computeUnitPrice"}])
createInitCookingProcessTransactions == Query([
  required |-> {"recipe", "authority"}, optional |-> {"payer", "computeUnitPrice", "lutAddresses"}])
createInitializeBadgeCriteriaTransaction == Query([
  required |-> {"args"}, optional |-> {"lutAddresses", "computeUnitPrice"},
  objects |-> [args |-> "CreateBadgeCriteriaInput"]])
createClaimBadgeCriteriaTransaction == Query([
  required |-> {"args"}, optional |-> {"lutAddresses", "computeUnitPrice"},
  objects |-> [args |-> "ClaimBadgeCriteriaInput"]])
createUpdateBadgeCriteriaTransaction == Query([
  required |-> {"args"}, optional |-> {"lutAddresses", "computeUnitPrice"},
  objects |-> [args |-> "UpdateBadgeCriteriaInput"]])

Queries == [
  findCompressedAccounts |-> findCompressedAccounts, fetchProofs |-> fetchProofs,
  findAccounts |-> findAccounts, sendTransactionBundles |-> sendTransactionBundles,
  signWithShadowSignerAndSendTransactionBundles |-> signWithShadowSignerAndSendTransactionBundles,
  sendBulkTransactions |-> sendBulkTransactions,
  signWithShadowSignerAndSendBulkTransactions |-> signWithShadowSignerAndSendBulkTransactions,
  authRequest |-> authRequest, authConfirm |-> authConfirm,
  createTransferAssetsTransactions |-> createTransferAssetsTransactions,
  createBurnAssetsTransactions |-> createBurnAssetsTransactions, findGlobal |-> findGlobal,
  findProjects |-> findProjects, findDelegateAuthority |-> findDelegateAuthority,
  findUsers |-> findUsers, findProfiles |-> findProfiles,
  createNewUserTransaction |-> createNewUserTransaction,
  createNewUserBulkTransaction |-> createNewUserBulkTransaction,
  createUpdateUserTransaction |-> createUpdateUserTransaction,
  createCreateProjectTransaction |-> createCreateProjectTransaction,
  createChangeProjectDriverTransaction |-> createChangeProjectDriverTransaction,
  createCreateDelegateAuthorityTransaction |-> createCreateDelegateAuthorityTransaction,
  createModifyDelegationTransaction |-> createModifyDelegationTransaction,
  createCreateProfilesTreeTransaction |-> createCreateProfilesTreeTransaction,
  createNewProfileTransaction |-> createNewProfileTransaction,
  createUpdateProfileTransaction |-> createUpdateProfileTransaction,
  createUpdatePlatformDataTransaction |-> createUpdatePlatformDataTransaction,
  createNewUserWithProfileTransaction |-> createNewUserWithProfileTransaction,
  findAssemblerConfig |-> findAssemblerConfig, findCharacterTraits |-> findCharacterTraits,
  findCharacterModels |-> findCharacterModels, findCharacters |-> findCharacters,
  fetchCharacterHistory |-> fetchCharacterHistory,
  createCreateAssemblerConfigTransaction |-> createCreateAssemblerConfigTransaction,
  createAddCharacterTraitsTransactions |-> createAddCharacterTraitsTransactions,
  createRemoveCharacterTraitsTransactions |-> createRemoveCharacterTraitsTransactions,
  createCreateCharacterModelTransaction |-> createCreateCharacterModelTransaction,
  createCreateCharactersTreeTransaction |-> createCreateCharactersTreeTransaction,
  createAssembleCharacterTransaction |-> createAssembleCharacterTransaction,
  createUpdateCharacterTraitsTransaction |-> createUpdateCharacterTraitsTransaction,
  createPopulateCharacterTransaction |-> createPopulateCharacterTransaction,
  createWrapAssetsToCharacterTransactions |-> createWrapAssetsToCharacterTransactions,
  createUnwrapAssetsFromCharacterTransactions |-> createUnwrapAssetsFromCharacterTransactions,
  createEquipResourceOnCharacterTransaction |-> createEquipResourceOnCharacterTransaction,
  createDismountResourceOnCharacterTransaction |-> createDismountResourceOnCharacterTransaction,
  createUseCharacterTransaction |-> createUseCharacterTransaction,
  findStakingPools |-> findStakingPools, findStakers |-> findStakers,
  findMultipliers |-> findMultipliers,
  createCreateStakingPoolTransaction |-> createCreateStakingPoolTransaction,
  createUpdateStakingPoolTransaction |-> createUpdateStakingPoolTransaction,
  createInitMultipliersTransaction |-> createInitMultipliersTransaction,
  createAddMultiplierTransaction |-> createAddMultiplierTransaction,
  createStakeCharactersTransactions |-> createStakeCharactersTransactions,
  createClaimStakingRewardsTransactions |-> createClaimStakingRewardsTransactions,
  createUnstakeCharactersTransactions |-> createUnstakeCharactersTransactions,
  findMissions |-> findMissions, findMissionPools |-> findMissionPools,
  createCreateMissionPoolTransaction |-> createCreateMissionPoolTransaction,
  createUpdateMissionPoolTransaction |-> createUpdateMissionPoolTransaction,
  createCreateMissionTransaction |-> createCreateMissionTransaction,
  createUpdateMissionTransaction |-> createUpdateMissionTransaction,
  createSendCharactersOnMissionTransaction |-> createSendCharactersOnMissionTransaction,
  createRecallCharactersTransaction |-> createRecallCharactersTransaction,
  findResources |-> findResources, findResourcesBalance |-> findResourcesBalance,
  findFaucets |-> findFaucets, findRecipes |-> findRecipes, findHoldings |-> findHoldings,
  createCreateNewResourceTransaction |-> createCreateNewResourceTransaction,
  createImportFungibleResourceTransaction |-> createImportFungibleResourceTransaction,
  createExportFungibleResourceTransaction |-> createExportFungibleResourceTransaction,
  createCreateNewResourceTreeTransaction |-> createCreateNewResourceTreeTransaction,
  createMintResourceTransaction |-> createMintResourceTransaction,
  createBurnResourceTransaction |-> createBurnResourceTransaction,
  createTransferResourceTransaction |-> createTransferResourceTransaction,
  createCreateWrapHoldingTransaction |-> createCreateWrapHoldingTransaction,
  createCreateUnwrapHoldingTransaction |-> createCreateUnwrapHoldingTransaction,
  createInitializeFaucetTransaction |-> createInitializeFaucetTransaction,
  createClaimFaucetTransaction |-> createClaimFaucetTransaction,
  createInitializeRecipeTransaction |-> createInitializeRecipeTransaction,
  createAddIngredientsTransaction |-> createAddIngredientsTransaction,
  createRemoveIngredientsTransaction |-> createRemoveIngredientsTransaction,
  createInitCookingProcessTransactions |-> createInitCookingProcessTransactions,
  createInitializeBadgeCriteriaTransaction |-> createInitializeBadgeCriteriaTransaction,
  createClaimBadgeCriteriaTransaction |-> createClaimBadgeCriteriaTransaction,
  createUpdateBadgeCriteriaTransaction |-> createUpdateBadgeCriteriaTransaction]

\* The arguments a call with the given optional ones adds.
AddedArgs(query, given) == query.required \cup (query.optional \cap given)
=============================================================================
