----------------------------- MODULE Services -----------------------------
(* The nodes an application uses beside its transactions and accounts.     *)
(* They share nothing, so that each behaviour is of one of them.           *)
EXTENDS TxConfirmation, Sequences

CONSTANTS Txs, WalletTxs, Commitment, Timeout, MaxErrors, NoTimer
CONSTANTS Asked, MaxUnsent
CONSTANTS Programs, Names, Keys, MaxLoads, MaxRepoints, MaxFetches
CONSTANTS Accounts, Hashes, NoData, MaxRetargets
CONSTANTS Owners, StorageNames, Stored, NoName, MaxCalls

ASSUME CommitmentAssumption == Commitment \in [Txs -> Nat]
ASSUME StoredAssumption == Stored \in [Owners -> Seq(StorageNames)]

VARIABLES
  service, \* the one of this behaviour
  tmStage, tmAsked, tmSigned, tmResult, tmPoll, tmWait, tmTimer, tmProgress, tmLevel, tmErrors, tmCrossed,
  hcTree, hcUrl, hcArgs, hcMethod, hcPending, hcWire, hcUnsent, hcLost,
  apPid, apTry, apIdl, apIdlCallback, apIdlWire, apName, apNames, apConnected, apWire, apFetched,
  apLoads, apRepoints, apFetches, apErrors, apRepointed, apCrossed,
  asTransaction, asCollected, asPending, asKey, asWire, asData, asRetargets, asHad,
  sdOwner, sdName, sdInfo, sdNew, sdOnInfo, sdInfoWire, sdKeys, sdNames, sdListWire, sdOnList,
  sdWaiting, sdInstructions, sdFetched, sdCalls, sdAsked, sdCrossed, sdMixed

Manager == INSTANCE TransactionManager WITH
  stage <- tmStage, asked <- tmAsked, signed <- tmSigned, result <- tmResult, poll <- tmPoll,
  wait_time <- tmWait, tx_timeout_timer <- tmTimer, confirmation_in_progress <- tmProgress,
  level <- tmLevel, errors <- tmErrors, crossed <- tmCrossed

Queries == INSTANCE HoneyComb WITH
  in_tree <- hcTree, valid_url <- hcUrl, args <- hcArgs, method_name <- hcMethod,
  pending <- hcPending, wire <- hcWire, unsent <- hcUnsent, lost <- hcLost

Anchor == INSTANCE AnchorProgram WITH
  pid <- apPid, try_from_pid <- apTry, idl <- apIdl, idl_callback <- apIdlCallback,
  idl_wire <- apIdlWire, pending_account_name <- apName, pending_accounts_name <- apNames,
  connected <- apConnected, wire <- apWire, account_fetched <- apFetched, loads <- apLoads,
  repoints <- apRepoints, fetches <- apFetches, errors <- apErrors, repointed <- apRepointed,
  crossed <- apCrossed

Simulator == INSTANCE AccountSimulator WITH
  transaction <- asTransaction, sim_accounts <- asCollected, pending_simulation <- asPending,
  pending_sim_key <- asKey, wire <- asWire, data <- asData, retargets <- asRetargets, had <- asHad

Storage == INSTANCE ShdwDrive WITH
  Names <- StorageNames, 
  owner_keypair <- sdOwner, storage_name <- sdName, user_info <- sdInfo, new_user <- sdNew,
  on_info <- sdOnInfo, info_wire <- sdInfoWire, storage_key_list <- sdKeys,
  storage_name_list <- sdNames, list_wire <- sdListWire, on_list <- sdOnList,
  waiting <- sdWaiting, instructions <- sdInstructions, storage_account_fetched <- sdFetched,
  calls <- sdCalls, asked <- sdAsked, crossed <- sdCrossed,
  mixed <- sdMixed

tm == <<tmStage, tmAsked, tmSigned, tmResult, tmPoll, tmWait, tmTimer, tmProgress, tmLevel,
  tmErrors, tmCrossed>>
hc == <<hcTree, hcUrl, hcArgs, hcMethod, hcPending, hcWire, hcUnsent, hcLost>>
ap == <<apPid, apTry, apIdl, apIdlCallback, apIdlWire, apName, apNames, apConnected, apWire,
  apFetched, apLoads, apRepoints, apFetches, apErrors, apRepointed, apCrossed>>
as == <<asTransaction, asCollected, asPending, asKey, asWire, asData, asRetargets, asHad>>
sd == <<sdOwner, sdName, sdInfo, sdNew, sdOnInfo, sdInfoWire, sdKeys, sdNames, sdListWire,
  sdOnList, sdWaiting, sdInstructions, sdFetched, sdCalls, sdAsked, sdCrossed, sdMixed>>
all == <<service, vars, tm, hc, ap, as, sd>>

\* A step of one service leaves the others alone.
Of(name, others) == service = name /\ UNCHANGED <<service, others>>

InitServices ==
  /\ service \in {"confirmation", "manager", "queries", "anchor", "simulator", "storage"}
  /\ Init /\ Manager!Init /\ Queries!Init
  /\ Anchor!Init /\ Simulator!Init /\ Storage!Init
  /\ service = "anchor" \/ apPid = CHOOSE p \in Programs : TRUE
  /\ service = "simulator" \/ \A a \in Accounts : asTransaction[a] = CHOOSE h \in Hashes : TRUE
  /\ service = "storage" \/ sdOwner = CHOOSE o \in Owners : TRUE

NextServices ==
  \/ Of("confirmation", <<tm, hc, ap, as, sd>>) /\ Next
  \/ Of("manager", <<vars, hc, ap, as, sd>>) /\ Manager!Next
  \/ Of("queries", <<vars, tm, ap, as, sd>>) /\ Queries!Next
  \/ Of("anchor", <<vars, tm, hc, as, sd>>) /\ Anchor!Next
  \/ Of("simulator", <<vars, tm, hc, ap, sd>>) /\ Simulator!Next
  \/ Of("storage", <<vars, tm, hc, ap, as>>) /\ Storage!Next

\* The fairness each of the specifications states.
SpecServices ==
  /\ InitServices /\ [][NextServices]_all
  /\ WF_vars(Detect) /\ WF_vars(Answered)
  /\ \A s \in Sigs : WF_vars(s \in node.accepted /\ Reach(s)) /\ \A l \in Levels : WF_vars(Notify(l, s))
  /\ \A t \in Txs : WF_tm(Manager!Respond(t)) /\ WF_tm(Manager!TimerFires(t)) /\ WF_tm(Manager!Status(t))
  /\ WF_hc(Queries!QueryResponseCallback)
  /\ WF_ap(Anchor!Answer)

-----------------------------------------------------------------------------
(* The properties of the services, under this run's names.                 *)

ToldOfItsOwn == Manager!ToldOfItsOwn
EveryWaitEnds == Manager!EveryWaitEnds
CarriesItsOwn == Queries!CarriesItsOwn
EveryQueryEnds == Queries!EveryQueryEnds
AnswersAreOwn == Anchor!AnswersAreOwn
FetchEnds == Anchor!FetchEnds
SimulatedIsOwn == Simulator!SimulatedIsOwn
CreationsAreAsked == Storage!CreationsAreAsked
=============================================================================
