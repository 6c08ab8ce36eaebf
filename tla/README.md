# A TLA+ development for godot-solana-sdk

This directory holds TLA+ models of the stateful parts of godot-solana-sdk, a
GDExtension that lets Godot programs talk to the Solana blockchain, with TLC
configurations that check them and TLAPS proofs about most of them. File names
below are relative to the repository; `transaction.cpp` stands for
`src/transaction/transaction.cpp` and so on.

## 1. The system

Everything runs on Godot's main thread. The engine calls `_process` of every
node once a frame; between two frames (and inside a signal handler) the program
may call any method. Nothing blocks: a method that needs the network posts a
request and returns, and a later frame delivers the answer by a callback or a
signal. There is no data race in the C++ code, and yet nearly everything that is
hard about it is concurrency: requests, wallets, connections and coroutines
interleave at frame granularity, flags and counters must agree with what is in
flight, and what a handler reads may have been changed since it was connected.
Only on Android does another thread (the wallet's activity) write shared variables.

| Part | Source | State | Operations |
|---|---|---|---|
| Transaction | `transaction.cpp` | message, signatures, signers, `ready_signature_amount`, `pending_blockhash`, `pending_send`, `result_signature`, signal connections | `set_payer`, `add_instruction`, `set_instructions`, `set_unit_price/limit`, `set_signers`, `update_latest_blockhash`, `sign`, `partially_sign`, `sign_and_send`, `send`, `new_from_bytes`; handlers of blockhash, send, wallet signature and refusal |
| Confirmation | `transaction.cpp:209-265,436-454` | connection counts per level, `active_subscriptions` | `_process`, `subscribe_to_signature`, three notification callbacks |
| Message | `merged_account_metas.cpp`, `message.cpp`, `instruction.cpp`, `account_meta.cpp` | account list, header, compiled instructions, the caller's `AccountMeta` objects | merge, sort, compile, `supply_signers`, (de)serialize |
| HTTP client | `rpc_multi_http_request_client.cpp`, `rpc_single_http_request_client.cpp` | list of single clients, each with a queue and Godot's `HTTPClient`; timeouts | `asynchronous_request`, `process` |
| Web socket client | `rpc_single_ws_request_client.cpp` | request queue, subscriptions, `pending_request`, `connecting`, the socket | `enqueue_ws_request`, `unsubscribe_all`, `process` |
| SolanaClient | `solana_client.cpp` | settings of requests, the URL override and its ports, `global_rpc_id`, signals | sixty RPC methods, URL setters, subscriptions |
| Wallet adapter (web) | `wallet_adapter.cpp`, `wallet_adapter_bridge/src/bindings.js` | node state, the global `Module` of the page | `connect_wallet`, `sign_message`, `sign_text_message`, polling |
| Wallet adapter (Android) | `wallet_adapter.cpp`, `android/plugin/.../*.kt` | node state, Kotlin global variables, activity | the same |
| Account, AccountFetcher | `account.cpp:55-372` | clocks of the nodes, two Dictionaries, `pending_fetch` | `_process`, `set_key`, `fetch_all`, `fetch_callback` |
| AccountSimulator | `account.cpp:378-462` | `sim_accounts`, `pending_simulation`, `pending_sim_key` | `add_account_to_fetch`, `simulate_all`, `fetch_callback` |
| AnchorProgram | `anchor/anchor_program.cpp`, `anchor/idl_utils.cpp`, `anchor/generic_anchor_resource.cpp` | IDL, `pid`, `pending_account_name`, `pending_accounts_name` | load an IDL, `fetch_account`, `fetch_all_accounts`, write arguments, read accounts |
| ShdwDrive | `shdwdrive.cpp` | owner, names and keys of storages, one-shot connections | create a storage account, fetch all of them |
| HoneyComb | `honeycomb/` | the argument list, `pending`, the HTTPRequest child; 179 resource classes | 87 queries, `to_dict` |
| MetaData | `meta_data/` | resources | read a meta data account, load its URI |
| Candy machine, instruction builders | `candy_machine*/`, `instructions/` | none that changes | build instructions, parse accounts |
| Keys and codecs | `pubkey.cpp`, `keypair.cpp`, `hash.cpp`, `curve25519.cpp`, `solana_utils.cpp` | byte arrays | base 58/64, program addresses, signing |
| SolanaService add-on | `addons/SolanaSDK/Optional/SolanaService/` | GDScript managers, coroutines | transactions, assets, wallets |

How they interact:

* A `SolanaClient` posts to the shared HTTP client; the answer comes through
  `response_callback` or `handle_rpc_error`, which emit one signal,
  `http_request_completed`, whatever the request was. `Transaction` *is* a
  `SolanaClient`, so its blockhash and its send answers share that signal.
* A `Transaction` asks a `WalletAdapter` to sign and connects one-shot handlers
  to its `message_signed` and `signing_failed`.
* When `send` is answered the transaction subscribes to its signature at the
  shared web socket client; `processed`, `confirmed`, `finalized` follow.
* `Account` nodes register themselves with the `AccountFetcher`, which is driven
  by whichever node is processed first and owns one HTTP request at a time, or,
  if they show what a transaction would make of them, with the `AccountSimulator`.
* `AnchorProgram` and `ShdwDrive` own `SolanaClient`s and connect handlers to
  their `http_request_completed`; `HoneyComb` has an `HTTPRequest` of its own.
* `TransactionManager` (GDScript) runs coroutines over the signals of a
  `Transaction` and polls for the level a signature has reached.

What makes each part correct: a transaction that goes out is completely and
currently signed, and no flag waits for an answer nobody owes (Transaction);
whoever awaits a level is told of it, once, for the transaction sent
(Confirmation); the validator reads from the header what the instructions ask
for (Message); every request ends once and in time and is not sent twice (HTTP);
notifications reach their subscriber and nobody else (web socket); a signature
belongs to the call it answers (wallets); data reach an account that had the key
they are of, and what is overdue is fetched (Account); simulations, queries, fetched
accounts, new storages and verdicts of the manager belong to whoever asked for
them, and what was begun ends (the services); requests, URLs, arguments and the
bytes of programs say what they were given (the encoders).

The hazards the properties aim at are listed, with their lines, in
`PROJECT.json`.

## 2. Modules

| Module | Models | Main correspondence |
|---|---|---|
| `Transaction` | one Transaction object | `tx` is the object with its signal connections, `rpc` the requests in flight. A method or an answer is one action with every handler it triggers: handlers are operators from object to object (`CreateMessage`, `SignAll`, `BlockhashCallback`, `SendCallback`, `SignerSigned`, ...), so a nested emission is a nested application |
| `TxConfirmation` | the three confirmation levels | `Detect` is `_process`, `SendCallback` the answer, `Notify` the callbacks; `prog` is the program (coroutines and functions connected), `node` the RPC node |
| `Message` | message construction | `heap` are the caller's `AccountMeta` objects, because the list aliases them; every call rebuilds `message` as `create_message` does; `added` and `merged` are the loops of `from_instructions`, turn by turn, `At` picks the entries of a group in the order of the list |
| `RequestReply` | what the HTTP client promises | abstract: every request ends once, answered or failed, and does end |
| `HttpClient` | the shared HTTP client | `Process(n)` starts the loop for the first node of a frame, `ProcessClient` is one turn of it, `cursor` its index, so removal and insertion while looping are visible; Godot's `poll` is nondeterministic |
| `WsClient` | the shared web socket client | `Process` is a frame's `process` up to its packet loop, `ProcessPacket` one turn of that; socket, wire and node are the environment |
| `WalletAdapterWeb` | node and JavaScript bridge | `js` is `Module`; a procedure runs up to its `await`, `Settled` runs the rest; `wallet_status` -1 is written 2 |
| `WalletAdapterAndroid` | node, plugin and activity | `kt` are the globals of `MyComposable.kt`; each write of the activity is a step of its own |
| `WalletAdapter` | the one class in its two builds | a behaviour is of one build; the node's variables and the properties are common |
| `AccountFetcher` | Account nodes and the singleton | `dict` are the two Dictionary objects, `fetch_accounts` and `fetch_accounts_buffer` the names for them; nodes are processed in the order of the tree |
| `AccountSimulator` | the singleton that simulates | `sim_accounts` are lists by hash; `Collect` and `SimulateAll` are what an Account's frame asks of it |
| `AnchorProgram` | the node's requests | `idl_wire` and `wire` are the two clients' requests in flight, `connected` the handlers at the one signal; `Answer` runs all of them |
| `ShdwDrive` | the node's chains of handlers | `on_info` and `on_list` are the one-shot connections, `info_wire` and `list_wire` the requests in flight; an answer runs every handler connected then |
| `HoneyComb` | the node | `args` is the member in which arguments are collected, by the call that added them |
| `TransactionManager` | the manager's coroutines | `stage` and `poll` are the two coroutines of a transaction, `tx_timeout_timer`, `confirmation_in_progress` and `wait_time` what all share |
| `Services` | the five modules above and `TxConfirmation` | they share nothing: each behaviour is of one of them, with the variables of the others at rest |
| `RpcMethods` | every RPC method | a method is its steps: arguments appended, options put in the Dictionary at the end; `Params` runs them |
| `ClientUrl` | URLs | a URL is a sequence of tokens; `ParseUrl`, `AssembleUrl`, what the setters do and the two end points |
| `SolanaClient` | a client between its setters and its methods | `client` are the members `url_override`, `http_port_override`, `ws_url` and `use_tls`, `request` what the last method asked, `calls` the history of the setters; the methods that subscribe, and `unsubscribe_all`, look up the web socket's URL, which sets `use_tls` |
| `HoneyCombTypes`, `HoneyCombApi` | classes and queries | a class is its properties by what `to_dict` does with them, which `codecs` checks field by field; a query is its arguments, `services` uses three of the 87 |
| `AnchorCodec` | bytes of Anchor programs | `SerializeVariant`, `DeserializeVariant`, `ParseAccountData`, `FromBytes`, `Serialize` of a resource, over sequences of bytes |
| `*Proofs` | | proofs, section 5 |
| `MC*` | | instances for TLC; `MCServices` is one of `Services`; `MCCodecs` gives one value to one encoder, edits a transaction or uses a client |

How they fit: `HttpClient` implements `RequestReply` (property `IsService`:
`INSTANCE RequestReply WITH Requests <- Requests, state <- state`, where `state`
is kept by the client's model from what is sent and what is called back). `Transaction!Answer`, `TxConfirmation!SendCallback`,
`AccountFetcher`'s `wire` and the wires of `AccountSimulator`, `AnchorProgram`
and `ShdwDrive` rely on exactly that service: an answer or an error,
once. `Transaction!WalletSigns` and `WalletFails` rely on what `HeardCallEnds`
and `EverySignatureIsOwn` say of the adapters. `TxConfirmation` takes the web socket for
reliable; `WsClient` says when it is.

What is abstracted: keys, hashes, signatures and texts are model values; a
signature is the pair of its signer and the message it is over. A message in
`Transaction` is what a signature over it depends on: instructions, unit price,
blockhash. The web socket's queue and subscriptions are sets, ordered by
request id, which is the order they are pushed in. `partially_sign` visits
the signature slots in order. Mutated forms of definitions (`\* Mutant`) stand before the
definition they are variants of; no specification uses them. They show that a
property is sensitive to the code: replacing the definition by the variant makes
TLC report the property.

## 3. Runs

| Run | Instance | What it shows |
|---|---|---|
| `tx_documented` | messages signed by a wallet, two keypairs, a wallet-keypair-wallet; two hashes; two requests in flight; calls in the documented order | only fully signed, current transactions go out; `fully_signed` is emitted for nothing else; pending flags are backed; a wallet's answer always finds its slot; signatures are lost only by a reset; `sign_and_send` during a fetch goes out |
| `tx_takeover` | two keypairs, the sequence of SKILL.md:263-269 | **violated**: `fully_signed` before all signatures are there |
| `http_service` | two nodes, two requests, any reply | each request ends once and in time, and is posted again only after useless answers; the client implements `RequestReply` |
| `http_badurl` | a URL `connect_to_host` refuses | **violated**: the queue is popped when empty |
| `ws_any` | three requests of two listeners, slow, rejecting, breaking, refusing connections, unsubscribing and handlers that subscribe | flags and socket are kept only for somebody; notifications go to the right listener and not to one that has unsubscribed; what is forgotten is ended at the node; every request leaves the queue |
| `wallets` | each build; four calls, absent, strange, declining, rejecting, silent, modifying wallets, the Android activity interleaved with frames, no plugin | signatures belong to their call; a change is reported if there was one (web), or never for nothing (Android); the wallet is asked for what a call waits for; every call it answers ends |
| `web_declined` | the user declines to connect | **violated**: no declared signal reports it |
| `codecs` | see below | indices, rights, signer order and round trip of every message; HoneyComb's arguments, RPC requests, URLs and Anchor bytes hold what was given, in its place |
| `account_sync` | three accounts around a client, one with a String key, one change of key, failures | answers are paired with the accounts asked for, data reach their owner, what is overdue is fetched |
| `account_starved` | an account before the client, behind it one that does not exist on chain | **violated**: the first is never asked for |
| `services` | one of: two sends, also overlapping, and edits at any time, awaited at two levels; two transactions of the manager; three queries; two programs, loads and fetches; three simulated accounts; three ShdwDrive calls of three owners, with two storages, one and none | nobody is told twice or of another's transaction, query, simulation, account or storage; every await, query and fetch ends |
| `manager_level` | a transaction that reaches a level beyond the one awaited between two polls | **violated**: it is not confirmed |

**Bounds.** Every bound is a constant: `MaxFee`, `MaxReady`, `MaxRequests`,
`MaxAltered`; `MaxId`, `MaxNotes`, `MaxIssued`; `MaxCalls`, `Plain`; `MaxSends`;
`MaxRekeys`, `MaxErrors`; `MaxUnsent`; `MaxLoads`, `MaxRepoints`, `MaxFetches`;
`MaxRetargets`; and `Timeout` counts frames, or the manager's polls. They are
chosen so that each hazard needs no more. Two requests in flight are one blockhash and one
send; three signers put a keypair between two wallets, the case in which an
index of one collection may be taken for another's; two requests suffice for a
list that shrinks or grows under the loop; three web socket requests of two
listeners are one that is answered while another waits and one an unsubscription
makes; four wallet calls are one that leaves something behind, one that would
find it and two that would spread it; two instructions with three metas let
an account be signer in one, writable in another and a program in the third; two
sends are one and its successor, awaited at the levels `processed` and
`finalized`, which are handled like the one between; three accounts are one asked for, one buffered
and one queued by another driver. Two transactions of the manager are one that
ends a stage and one that is in it (three that overlap, 243104 states, agree).
Three queries are one with required arguments, one with an optional one and one with
several; two that cannot be sent leave something behind twice. Two programs, two loads and
three fetches are an answer for each kind of fetch and one that comes late.

In `codecs` the inputs are: two instructions over three metas with every
combination of address, kind of key and flags, and up to two edits; every class of
HoneyComb with one property set at a time, at the top, one and two objects further
down, as an argument and in a list or a table; every RPC method
with every subset of the settings and optional arguments it looks at; up to
two calls of the URL setters in any order, with unsubscriptions between them, over 54
URLs with and without each component; and
for Anchor every type at the top, inside of an option, a vector or a
struct, two levels deep, and resources of two fields with one nested. Each
encoder treats the parts of a value alone, so what goes wrong does so with
one part, or with two neighbours.

**Deadlock** is checked where the system never stops (frames go on). It is
switched off for `tx_documented`, `tx_takeover`, `services`, `manager_level` and
`codecs`, in which a program that has made all its calls is done.

**Fairness.** Godot draws frame after frame: weak fairness of whatever a frame
runs (`Process`, `ProcessPacket`, `Loop`, `Frame`, `Detect`, `NewFrame`). Of requests, weak
fairness of the answer, which is what `RequestReply` promises and `HttpClient`
keeps by its timeout alone (`http_service` assumes no fairness of the network). Of the
wallet, that a user answers a popup and an activity that was started runs. In
`TxConfirmation`, that the node finalizes what it accepts and notifies its
subscribers. In `services`, that an HTTPRequest, a timer and a status
request end (`QueryResponseCallback`, `Answer`, `TimerFires`, `Status`), and that
`send` of the manager's transaction is answered (`Respond`). Nothing else is promised of the node, the network or the program.

**Restrictions of the program**, each of which is needed:

* `Documented` (Transaction): calls come in the order SKILL.md documents - edit, then price,
  fetch the blockhash, sign each slot once, send. Outside it: repricing after
  signing keeps signatures over the old message when the number of signers is
  unchanged (`transaction.cpp:148`; `transaction_manager.gd:98` does so for one wallet); a
  blockhash fetched while a send is in flight makes both one-shot handlers fire
  on the first answer (`:574`); a second `sign_and_send` overshoots the counter (`:187`);
  editing while a wallet's popup is open leaves its handler connected (`:77`); an
  altered transaction with several signatures counts them twice (`:88`).
* An adapter is called when it is idle; on Android no connection follows a
  failure, because `connectWallet` repeats what was to be signed last
  (`GDExtensionAndroidPlugin.kt:75`).
* A listener unsubscribes after its subscription was answered: one that is still queued
  is not removed by `unsubscribe_all` (`rpc_single_ws_request_client.cpp:99`) and
  subscribes the listener again when it is confirmed.
* `KeepsListening` is about connections that have not broken: after a break the
  node's subscriptions are gone and nobody renews them (`:53`). `EventuallyTold` is
  about URLs that were not refused.
* `AwaitIsTrue` (TxConfirmation) asks of every await that some send the object was told is
  accepted has reached the level; that it is the awaited one only where nothing of an earlier
  send was still to come when it was sent (`Crossed`): the level not awaited nor
  subscribed to, no answer out, and the transaction edited since. Otherwise the callback announces
  whichever signature it was subscribed for (`transaction.cpp:440-445`); without an edit
  `result_signature` of the earlier send stays, and a connection in the frames before the next answer
  subscribes to it. `EveryAwaitEnds` is about awaits that a frame sees before the next edit
  (`Dropped`), because `_process` looks for connections only while there is a signature.
  The program awaits a level of the last send before it is announced: later
  connections are never answered.
* In the Android build a wallet that changes the transaction is not reported
  (`wallet_adapter.cpp:296`): there `EverySignatureIsOwn` says only that no change is claimed that
  was not. `Transaction` is modelled with true reports, so what it promises of a wallet that
  modifies is for the web build.
* `OverdueIsFetched` is about accounts that exist and have distinct keys: two nodes
  with one key overwrite each other in the Dictionary (`account.cpp:366`). Nodes are not freed.
* `ToldOfItsOwn` (TransactionManager) is about transactions that do not
  overlap: one timer, one flag and one signal serve all, so that whoever
  ends a stage resumes everybody in it.
* `AnswersAreOwn` (AnchorProgram) is about a program that is not changed while its IDL is
  loading, and about fetches that do not overlap: both connect to one
  signal (`anchor_program.cpp:955`). `FetchEnds` gives up after a failed
  request, which leaves the pending name set for ever (`:961`).
* `EveryQueryEnds` (HoneyComb) is about a node that stays in the tree. `CarriesItsOwn`
  lets a query carry the arguments of queries before it that could not
  be sent: only the response clears them.
* `CreationsAreAsked` (ShdwDrive) is about calls that do not overlap, and, for the key that
  is told, about storage lists that do not cross: the names of an answer are put beside
  the keys of the last request, which may be those of another owner (`shdwdrive.cpp:179`).
* `QueryHoldsItsTree` leaves out an object in a list of an object that is itself in
  a list or a table: `build` sends it as an object. Of properties nobody assigned it says nothing:
  `to_dict` writes empty packed ones and numbers no constructor initializes, with whatever
  is in memory. `RequestKeepsItsPlaces` leaves out
  `get_slot_leaders`, which appends what it was not given, and
  `get_token_accounts_by_delegate`, which puts the filter in front of the delegate.
  `EndpointsAreOfLastUrl` is about URLs that have a host and no password, which
  `parse_url` takes for the port; the port of an earlier URL stays for one that has none
  (`solana_client.cpp:1060`), and the property says so. `ReadsWhatItWrites` leaves out what the
  reader has another layout for: bare signed integers, arrays of fixed
  length, `bytes`, enumerations with fields; in resources, signed numbers and
  numbers in options; in `from_bytes`, the types it does not name. `f32` is in: writer and reader
  both take it for half precision (`anchor_program.cpp:199`).
* `RoundTrip` is about messages of fewer than 128 signers: with more, the first byte is taken
  for a version (`message.cpp:106`).
* `RightsNeeded` is up to the first `set_instructions`: merging writes
  accumulated rights into the caller's metas (`merged_account_metas.cpp:64`), which outlive the
  instruction that asked for them.

## 4. Disagreements found

1. `transaction.cpp:182` - `new_from_bytes`, `set_signers`, `sign` (SKILL.md:263-269) counts
   signatures twice: `fully_signed` is emitted early (`tx_takeover`).
2. `rpc_single_http_request_client.cpp:64` - after a refused URL the request is popped,
   and `process` goes on to use the front of the empty queue (`http_badurl`).
3. `wallet_adapter.cpp:195` - a declined connection emits `connection_error`; what is
   declared, and what `wallet_service.gd:30` connects to, is `connection_failed` (`web_declined`).
4. `account.cpp:315` - the two Dictionaries of the fetcher become one, and what was
   queued during a fetch is lost: an account ahead of its client can starve (`account_starved`).
5. `solana_service.gd:257` - the status of a signature is compared with the level
   asked for by equality, while `transaction_manager.gd:141` means "is confirmed": one that is
   past the level at the next poll is polled for again (`manager_level`).

One more has no run of its own: `wallet_adapter.hpp:163-167` says that `did_transaction_change` is
true if the transaction was modified by the wallet, and in the Android build it is always false
(`wallet_adapter.cpp:296`).

## 5. Proofs

The modules `*Proofs` prove, with TLAPS, for every value of the
constants that satisfies the named assumptions of the modules:

| Theorem | States |
|---|---|
| `TransactionProofs!TypeCorrect` | `Spec => []TypeOK` |
| `TransactionProofs!NeverWaitsInVain` | `Spec => []PendingIsBacked` |
| `TransactionProofs!DocumentedSendsSigned` | `Spec => []SentFullySigned`, if `InOrder` |
| `TransactionProofs!DocumentedClaimsHold` | `Spec => []ClaimsFullySigned`, if `InOrder` |
| `TransactionProofs!DocumentedPopups` | `Spec => []PopupIsCurrent`, if `InOrder` |
| `TransactionProofs!DocumentedKeepsSignatures` | `Spec => NoSignatureLost` (of steps), if `InOrder` |
| `MessageProofs!TypeCorrect` | `Spec => []TypeOK` |
| `MessageProofs!InstructionsAreServed` | `Spec => []InstructionsServed` |
| `MessageProofs!RightsAreNeeded` | `Spec => []RightsNeeded` |
| `MessageProofs!SignersAreServed` | `Spec => []SignersServed` |
| `MessageProofs!MessagesAreReadBack` | `Spec => []RoundTrip` (fewer than 128 signers), with 255 accounts at most |
| `HttpClientProofs!RequestsEndOnTime` | `Spec => []OnTime` |
| `HttpClientProofs!RequestsArePostedOnce` | `Spec => []PostedOnce` |
| `HttpClientProofs!EveryClientIsServed` | `Spec => []ServedOncePerFrame` |
| `HttpClientProofs!ImplementsService` | `Spec => Service!Init /\ [][Service!Next]_state` |
| `WsClientProofs!TypeCorrect` | `Spec => []TypeOK` |
| `WsClientProofs!NothingIsLeftOver` | `Spec => []KeptForSomebody` |
| `WsClientProofs!ListenersAreRight` | `Spec => []RightListener` |
| `WsClientProofs!NoneIsForgottenAlive` | `Spec => []ForgottenIsEnded` |
| `WsClientProofs!ListenersAreHeard` | `Spec => []KeepsListening` |
| `WalletAdapterProofs!SignaturesAreOwn` | `SpecAdapter => []EverySignatureIsOwn` |
| `WalletAdapterProofs!AskedForTheCall` | `SpecAdapter => []AskedForACall` |
| `AccountFetcherProofs!FetcherTypes` | `Spec => []TypeOK` |
| `AccountFetcherProofs!AnswersHaveTheirPlace` | `Spec => []RequestedIsPrefix` |
| `AccountFetcherProofs!DataReachTheirOwner` | `Spec => []DataIsOwn` |
| `AccountFetcherProofs!PendingTellsTheTruth` | `Spec => []PendingIsFetching` |
| `AccountFetcherProofs!NothingIsFetchedEarly` | `Spec => []QueuedIsDue` |
| `ServicesProofs!VerdictsAreTrue` | `SpecServices => []ToldOfItsOwn` |
| `ServicesProofs!SimulationsReachTheirAccount` | `SpecServices => []SimulatedIsOwn` |
| `ServicesProofs!QueriesCarryTheirOwn` | `SpecServices => []CarriesItsOwn` |
| `ServicesProofs!AnchorAnswersAreOwn` | `SpecServices => []AnswersAreOwn` |
| `ServicesProofs!StorageCreatesWhatIsAsked` | `SpecServices => []CreationsAreAsked` |
| `ServicesProofs!NobodyIsToldTwice` | `Spec => []ToldOnce` |
| `ServicesProofs!AwaitsAreTrue` | `Spec => AwaitIsTrue` (of steps) |
| `ServicesProofs!ServicesConfirm` | `SpecServices => Spec`, which is that of `TxConfirmation` |
| `SolanaClientProofs!ParseAssembled` | `IsUrl(u)` implies `ParseUrl(AssembleUrl(u)) = u` |
| `SolanaClientProofs!AsksTheNodeItWasTold` | `SpecClient => []EndpointsAreOfLastUrl` |
| `SolanaClientProofs!AsksWhatIsDocumented` | `SpecClient => []RequestKeepsItsPlaces` |

Two of them have a hypothesis besides the modules' assumptions. `InOrder` says that
the program makes every kind of call in the documented order and that a wallet modifies
only transactions it signs alone: without it the four properties are false, for the
reasons listed under the restrictions of section 3 (`tx_takeover` shows one). The 255 accounts of
`MessagesAreReadBack` are the code's, whose counts and indices are bytes; the 128 signers are in
`RoundTrip` itself.

None of these properties is inductive as it stands; the invariants named below are. Those of
`Transaction` (`OrderInv`), `Message`, `HttpClient`, `WsClient` and `WalletAdapter` were
checked by TLC, on the instances of the runs, before they were proved.

*Transaction.* The object passes through a chain of handler operators in one
step, so type correctness is a lemma per operator (if `t` is of the type, so is
what the handler makes of it), and one step per action puts them together.
`PendingIsBacked` is inductive once each operator is known to raise a flag
only together with a request and to lower it only on an answer; the lemmas say
which of the two flags an operator leaves alone. For the properties of signing
(`OrderInv`) each operator has a second lemma, that it keeps a sound object sound: the
slots hold valid signatures over the message as it is (`SlotsSound`), the counter
is their number, or beyond it when a wallet has modified the transaction
(`Counted`), a wallet that may answer was asked once, for an empty slot of its own
(`AskedFor`), and what waits for the blockhash or the send is all that waits (`Orderly`).

*TxConfirmation.* Sends, edits, awaits and answers come in any order. Each send is answered once,
and the signature that is held is one the object was told of, and never an edited transaction's
(`SignatureIsAccepted`); nobody has subscribed to one that is not known (`UnknownIsUntold`), and
of the one that is held the levels subscribed to are those with a counted connection
(`ToldIsConnected`): `Detect` subscribes where the count was zero. That gives `ToldOnce`. For
`AwaitIsTrue`, whatever is subscribed to is accepted, and at a level where nothing was
`Crossed` when the last send was made, whatever is subscribed to or awaited is of that send
(`OpenIsLast`).

*Message.* The list of merged metas is only grown by `add`: an account keeps its place,
its rights and its keypair (`Grown`), what was added is covered (`Covers`), and every right
has somebody who asked for it (`Justified`, `Owned`). `sort` arranges the list by a
bijection (`Arranges`) into the order the header counts (`Ordered`). So a message is right
when it is built, and `set_signers` changes only the object that signs. That the *next*
message is right, too, needs an invariant of the objects the list refers to: they have
at least what they were made with, and, until instructions are replaced, no right nobody
asks for (`WellKept`). The two loops are recursive functions, and the induction over their
turns is one lemma about a set of naturals that contains 0 and successors (`UpTo`), from
the well-foundedness of the naturals; the provers know nothing of `SelectSeq` or
of folds, so the model has neither.

*HttpClient.* `OnTime` rests on the loop: the clients before `cursor` have been served in
this frame, the others have not, and when the loop has ended every request that was
waiting has been, although clients leave the list in it and enter it (`Served`). A visit
either connects or takes a frame off the time (`Timed`). `PostedOnce` rests on the
requests that are posted having a useless response each, but for the one on the wire
(`Wires`). With one client per waiting request (`Lists`) every step is one of
`RequestReply`, or leaves its `state` alone.

*WsClient.* One request is on its way at a time (`Sent`, `Answered`), and what the node
confirms is the front of the queue or a request that has gone; the queue has its times
in order (`Queued`), so that `process_timeouts`, which ends at the first late request,
removes the front, which was sent, and never an unsubscription that is still to go. The
numbers of confirmations that are not read yet are nobody else's (`Confirmed`). The invariant
`Good` has a parameter, the request `finalize_request` is about to remove: the program's
handler runs, and may subscribe or unsubscribe, before that.

*WalletAdapter.* In the web build one procedure of the bridge runs at a time, for the call
the node waits for, and what it leaves in `Module` is of that call (`WebInv`). In the
Android build activities of earlier calls may be there still; at most one may still ask,
it is of the call the node waits for (`ForTheCall`), and what it has read of the plugin's
globals is what that call has stored (`AsksForTheCall`, `Stored`).

*AccountFetcher.* `RequestedIsPrefix` does not hold inductively by itself. The answer
is paired with `dict[fetch_accounts]` by position, so the entries at the front must
stay while others are appended. The invariant adds that an entry's account has
had the entry's key (`EntriesAreOwn`, for the dictionaries that still have a
name), that the clocks of queued accounts are past their minimum
(`EntriesAreDue`), that a fetcher whose request has failed has no request out
(`StuckIsIdle`), and that `key[a]` is in `had[a]`. Then appending keeps the prefix, an
answer gives each account a datum of a key it had, and swapping the names after the
answer leaves a dictionary without entries. One lemma per operator, one step per
action, and the theorems follow by PTL. A recursive definition is nowhere
needed: the last entry of an account in a Dictionary is found by the
well-foundedness of the naturals.

*Services.* Each part has an invariant of its own, which the steps of the others leave
alone. Of the manager: while nothing has overlapped one transaction at most is busy
(`OneIsBusy`), so that "everybody in a stage" is the one that ended it. Of the simulator:
the accounts asked about stay in front of those collected since (`AskedAreInFront`),
and who is collected under a hash had the transaction (`CollectedHadIt`). Of HoneyComb:
between queries the argument list is what could not be sent; on the wire, that and
one call more. Of `AnchorProgram`: the IDL in flight is that of the pid (`OfThePid`) and one fetch is
connected (`OneFetch`). Of `ShdwDrive`: the user info on its way is
that of the present owner (`OneCall`), and the keys in the node are those asked about (`KeysKept`). The last was a finding about the model: the
proof failed where keys are derived while an answer with others' names is on its
way, which no run had with one storage per owner; the runs have had owners with two
and none since, and `CreationsAreAsked` the restriction in section 3.

*SolanaClient.* That a URL is taken apart into what it was put together from rests on one
lemma about texts of any length (`SplitOnce`): a text is split where the delimiter is for
the first time, which is where it was written if what is in front has none. `parse_url`
takes the pieces off from behind, then from the front, so each piece needs only to be free of the
delimiters that are looked for while it is still there (`PiecesAreTexts`); `IsUrl` says no
more than that. The invariant of a client (`ClientInv`) makes its members functions of the history
of its setters, and is inductive because the URL for subscriptions that is made of a URL
is one itself (`WsUrlIsUrl`). Of the methods, what matters is an order: arguments, then options of
different names, then the filter, which goes behind the one argument there is (`WellPlaced`). In
that order the parameters are, after each step, the arguments so far and one Dictionary of the options so
far (`ParamsSoFar`, by `UpTo`), and the filter is inserted between the two. That each of the 62
methods is in that order is one leaf per method; the two that `RequestKeepsItsPlaces` leaves
out are not.

**Only model-checked**: all liveness properties (`SignAndSendGoesOut`,
`EventuallyTold`, `HeardCallEnds`, `EveryAwaitEnds`, `EveryWaitEnds`, `EveryQueryEnds`,
`FetchEnds`, `OverdueIsFetched`, the fairness of `IsService`), which are out of the
prover's reach; and of the encoders `QueryHoldsItsTree` and `ReadsWhatItWrites`, which are about
`RECURSIVE` operators on nested data (objects in lists in objects, types of types): an induction over
data is out of its reach, too.

## 6. Not modelled

* Candy machine, meta data and the instruction builders: stateless; each is right if it
  agrees with a program that is not in the repository, which a model of one side
  cannot tell.
* Keys, hashes, base 58 and 64, field arithmetic, program addresses: arithmetic on
  numbers of 256 bits, out of TLC's reach. Keys and hashes are model values.
* Version 0 messages and address lookup tables.
* Editor plugins, class registration, property lists and dialogs.
* The managers of the GDScript add-on that load and show assets; third-party tools,
  demos, vendored cryptography.

Within modelled parts: `sync_with_chain`, which `_process` never consults; nodes
that are freed while they are queued; the Android plugin's functions nobody calls; what
ShdwDrive does after a signature (its server signs too) and its uploads; IDLs from JSON
files and the account metas of `build_instruction`; the text of HoneyComb's
queries and what its answers contain; `create_transaction` of the manager and its fee estimate.

`PROJECT.json` gives the status of each component.

## 7. Plan

The models are done, in the order Transaction, HTTP, web socket, wallets, message,
confirmation, accounts; then the services and the encoders. What is left:

1. Proofs: that each step of `Transaction` outside the documented order keeps what it
   can (which of the restrictions above each property needs).
2. Versioned messages, as a second form of `Message`.
3. `build_instruction` of `AnchorProgram`: which metas an instruction gets from its IDL.

## 8. Running

```
tlc -workers 2 -config MCAccountFetcher_sync.cfg MCAccountFetcher
tlapm MessageProofs.tla
```
