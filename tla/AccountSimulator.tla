-------------------------- MODULE AccountSimulator --------------------------
(***************************************************************************)
(* The singleton that simulates transactions for Accounts that have one    *)
(* (AccountSimulator in src/src/account.cpp).  Accounts are collected by   *)
(* the hash of their transaction's message; one simulation is out at a     *)
(* time, and its answer lists one state per account that was collected     *)
(* under the hash when it was sent.                                        *)
(***************************************************************************)
EXTENDS Naturals, Sequences, FiniteSets

CONSTANTS
  Accounts,   \* Account nodes, each with a key of its own
  Hashes,     \* hashes of transactions
  NoData,     \* what an Account mirrors at first
  MaxRetargets \* bound: calls of set_pre_simulate_transaction

Idle == [hash |-> NoData, accounts |-> <<>>]

VARIABLES
  transaction,        \* hash of each Account's pre_simulate_transaction
  sim_accounts,       \* the accounts collected under each hash
  pending_simulation,
  pending_sim_key,
  wire,               \* the simulation the http client works on
  data,               \* what each Account mirrors: a hash and an account
  retargets,          \* counter of the bound
  had                 \* history: the transactions each Account had

vars == <<transaction, sim_accounts, pending_simulation, pending_sim_key, wire, data, retargets, had>>

TypeOK ==
  /\ transaction \in [Accounts -> Hashes]
  /\ sim_accounts \in [Hashes -> Seq(Accounts)]
  /\ pending_simulation \in BOOLEAN

Init ==
  /\ transaction \in [Accounts -> Hashes]
  /\ sim_accounts = [h \in Hashes |-> <<>>]
  /\ pending_simulation = FALSE /\ pending_sim_key = NoData
  /\ wire = Idle
  /\ data = [a \in Accounts |-> NoData]
  /\ retargets = 0
  /\ had = [a \in Accounts |-> {transaction[a]}]

Holds(s, a) == \E i \in DOMAIN s : s[i] = a

\* void add_account_to_fetch(account), add_sim_account: a Dictionary by key
AddAccountToFetch(a) ==
  LET h == transaction[a]
  IN [sim_accounts EXCEPT ![h] = IF Holds(@, a) THEN @ ELSE Append(@, a)]

\* Mutant: the key of the pending simulation is set before the early return.
SimulateAllOverwrites(a) ==
  /\ sim_accounts' = AddAccountToFetch(a)
  /\ pending_sim_key' = transaction[a]
  /\ IF pending_simulation
     THEN UNCHANGED <<pending_simulation, wire>>
     ELSE /\ pending_simulation' = TRUE
          /\ wire' = [hash |-> transaction[a], accounts |-> sim_accounts'[transaction[a]]]
  /\ UNCHANGED <<transaction, data, retargets, had>>

\* Account::_process past its maximum interval: add_account_to_fetch and
\* simulate_all, which sends nothing while a simulation is pending.
SimulateAll(a) ==
  /\ sim_accounts' = AddAccountToFetch(a)
  /\ IF pending_simulation
     THEN UNCHANGED <<pending_simulation, pending_sim_key, wire>>
     ELSE /\ pending_sim_key' = transaction[a]
          /\ pending_simulation' = TRUE
          /\ wire' = [hash |-> transaction[a], accounts |-> sim_accounts'[transaction[a]]]
  /\ UNCHANGED <<transaction, data, retargets, had>>

\* Account::_process past its minimum interval
Collect(a) ==
  /\ sim_accounts' = AddAccountToFetch(a)
  /\ UNCHANGED <<transaction, pending_simulation, pending_sim_key, wire, data, retargets, had>>

\* void fetch_callback(params): the states go by position to the accounts now
\* collected under the hash, who are then dropped, late ones with them.  An
\* answer without accounts ends the simulation all the same.
FetchCallback ==
  /\ wire # Idle
  /\ LET now == sim_accounts[pending_sim_key]
         At(a) == {i \in DOMAIN wire.accounts : i \in DOMAIN now /\ now[i] = a}
     IN \/ data' = [a \in Accounts |->
             IF At(a) = {} THEN data[a]
             ELSE [hash |-> wire.hash, account |-> wire.accounts[CHOOSE i \in At(a) : TRUE]]]
        \/ UNCHANGED data
  /\ pending_simulation' = FALSE
  /\ sim_accounts' = [sim_accounts EXCEPT ![pending_sim_key] = <<>>]
  /\ wire' = Idle
  /\ UNCHANGED <<transaction, pending_sim_key, retargets, had>>

\* void set_pre_simulate_transaction(...), or an edit of the transaction
Retarget(a, h) ==
  /\ retargets < MaxRetargets
  /\ retargets' = retargets + 1
  /\ transaction' = [transaction EXCEPT ![a] = h]
  /\ had' = [had EXCEPT ![a] = @ \cup {h}]
  /\ UNCHANGED <<sim_accounts, pending_simulation, pending_sim_key, wire, data>>

Next ==
  \/ \E a \in Accounts : Collect(a) \/ SimulateAll(a)
  \/ FetchCallback
  \/ \E a \in Accounts, h \in Hashes : Retarget(a, h)

Spec == Init /\ [][Next]_vars

-----------------------------------------------------------------------------
(* Properties.                                                             *)

\* What an Account mirrors is its own state, in a simulation of a transaction
\* it had: the pairing by position survives Accounts that join, leave for
\* another transaction, or come late.  fetch_callback and update_accounts.
SimulatedIsOwn ==
  \A a \in Accounts : data[a] # NoData => data[a].account = a /\ data[a].hash \in had[a]
=============================================================================
