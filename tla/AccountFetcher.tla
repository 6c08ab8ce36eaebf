--------------------------- MODULE AccountFetcher ---------------------------
(***************************************************************************)
(* Account nodes and the singleton they share to mirror on-chain data      *)
(* (src/src/account.cpp): an Account that has not been synced for its      *)
(* minimum interval queues itself in every frame, one that has not for its *)
(* maximum interval makes the fetcher ask for all that is queued.  The     *)
(* answer lists one datum per key asked for, in their order.               *)
(*                                                                         *)
(* Godot's Dictionaries are references: fetch_accounts and the buffer are  *)
(* names of a dictionary, and one assignment makes them the same one.      *)
(* Accounts are not freed and have no transaction to simulate first; a     *)
(* frame takes one unit of time.                                           *)
(***************************************************************************)
EXTENDS Integers, Sequences, FiniteSets

CONSTANTS
  Accounts,    \* the Account nodes
  Client,      \* a SolanaClient node
  Order,       \* the nodes in the order of the scene tree, that of _process
  Keys,
  OnChain,     \* keys of accounts that exist
  NoData,      \* what a node mirrors at first
  InitialKey,  \* key property of each node at first
  StringKeyed, \* nodes whose key property is a String; of the others, a Pubkey
  Min, Max,    \* min_fetch_interval and max_fetch_interval of each node
  Timeout,     \* frames the http client lets a request take
  MaxRekeys,   \* bound: calls of set_key
  MaxErrors    \* bound: answers of the node without an array of accounts

ASSUME Assumption ==
  /\ Client \notin Accounts /\ Order \in Seq(Accounts \cup {Client})
  /\ OnChain \subseteq Keys /\ NoData \notin Keys
  /\ InitialKey \in [Accounts -> Keys]
  /\ StringKeyed \subseteq Accounts
  /\ Min \in [Accounts -> Nat] /\ Max \in [Accounts -> Nat]
  /\ Timeout \in Nat \ {0}
  /\ MaxRekeys \in Nat /\ MaxErrors \in Nat

\* Each Account is in the tree once.
ASSUME Tree == \A a \in Accounts : \E i \in DOMAIN Order : \A j \in DOMAIN Order : Order[j] = a <=> i = j

NoRequest == [age |-> -1, keys |-> <<>>]

VARIABLES
  key,                   \* Account::key
  seconds,               \* Account::seconds_since_fetch, up to Max + 1
  data,                  \* Account::data: the key it was read from
  dict,                  \* the dictionaries: sequences of [key, account]
  fetch_accounts,        \* the dictionary that is asked for
  fetch_accounts_buffer, \* the one that takes accounts while an answer is due
  pending_fetch,
  wire,                  \* the request the http client works on and its age
  turn,                  \* index of the next node whose _process runs
  driven,                \* the http client was processed in this frame
  rekeys, errors,        \* counters of the bounds
  had,                   \* history: keys each node ever had
  failed                 \* history: a request ended with an error

vars == <<key, seconds, data, dict, fetch_accounts, fetch_accounts_buffer, pending_fetch,
          wire, turn, driven, rekeys, errors, had, failed>>

Entry == [key : Keys, account : Accounts]

-----------------------------------------------------------------------------
(* Dictionaries, whose keys() are in the order of their insertion.         *)

KeysOf(d) == [i \in DOMAIN d |-> d[i].key]
HasKey(d, k) == \E i \in DOMAIN d : d[i].key = k

\* d[k] = a
Put(d, k, a) ==
  IF HasKey(d, k)
  THEN [i \in DOMAIN d |-> IF d[i].key = k THEN [key |-> k, account |-> a] ELSE d[i]]
  ELSE Append(d, [key |-> k, account |-> a])

\* Mutant: what is queued again moves to the end.
PutLast(d, k, a) ==
  Append(SelectSeq(d, LAMBDA e : e.key # k), [key |-> k, account |-> a])

-----------------------------------------------------------------------------
(* The fetcher.                                                            *)

\* bool has_account(key): a key that is no String is turned into "[Pubkey:...]",
\* which is nobody's key.
HasAccount(a) == a \in StringKeyed /\ HasKey(dict[fetch_accounts], key[a])

Target == IF pending_fetch THEN fetch_accounts_buffer ELSE fetch_accounts

\* Mutant: an account that is asked for again is moved to the end.
AddAccountLast(a) ==
  IF HasAccount(a) THEN dict ELSE [dict EXCEPT ![Target] = PutLast(@, key[a], a)]

\* void add_account_to_fetch(account), as Account::_process calls it
AddAccountToFetch(a) ==
  IF HasAccount(a) THEN dict ELSE [dict EXCEPT ![Target] = Put(@, key[a], a)]

\* void update_accounts(account_dict, accounts_data): entries of the dictionary
\* that get data, by position.  A null account changes nothing.
Updated(d, keys) == {i \in DOMAIN keys : i \in DOMAIN d /\ keys[i] \in OnChain}

LastOf(I) == CHOOSE i \in I : \A j \in I : j <= i

\* Mutant: the account after the one asked for gets the datum.
UpdateNextAccounts(s, d, keys) ==
  LET At(a) == {i \in DOMAIN keys : i + 1 \in DOMAIN d /\ keys[i] \in OnChain /\ d[i + 1].account = a}
  IN /\ seconds' = [a \in Accounts |-> IF At(a) = {} THEN s[a] ELSE 0]
     /\ data' = [a \in Accounts |-> IF At(a) = {} THEN data[a] ELSE keys[LastOf(At(a))]]

UpdateAccounts(s, d, keys) ==
  LET At(a) == {i \in Updated(d, keys) : d[i].account = a}
  IN /\ seconds' = [a \in Accounts |-> IF At(a) = {} THEN s[a] ELSE 0]
     /\ data' = [a \in Accounts |-> IF At(a) = {} THEN data[a] ELSE keys[LastOf(At(a))]]

\* Mutant: a response without accounts is warned of and left.
FetchCallbackReturns(s, d, keys) ==
  \/ /\ UpdateAccounts(s, d[fetch_accounts], keys)
     /\ pending_fetch' = FALSE
     /\ fetch_accounts' = fetch_accounts_buffer
     /\ dict' = [d EXCEPT ![fetch_accounts] = <<>>, ![fetch_accounts_buffer] = <<>>]
     /\ UNCHANGED errors
  \/ /\ errors < MaxErrors
     /\ errors' = errors + 1
     /\ seconds' = s /\ dict' = d /\ pending_fetch' = TRUE
     /\ UNCHANGED <<data, fetch_accounts>>

\* void fetch_callback(params), with the seconds s and the dictionaries d
FetchCallback(s, d, keys) ==
  /\ \/ /\ UpdateAccounts(s, d[fetch_accounts], keys)
        /\ UNCHANGED errors
     \/ /\ errors < MaxErrors
        /\ errors' = errors + 1
        /\ seconds' = s
        /\ UNCHANGED data
  /\ pending_fetch' = FALSE
  /\ fetch_accounts' = fetch_accounts_buffer
  /\ dict' = [d EXCEPT ![fetch_accounts] = <<>>, ![fetch_accounts_buffer] = <<>>]

\* update_timeouts and is_timed_out of the http client
MayWait(w) == w # NoRequest /\ w.age < Timeout

\* SolanaClient::_process of any client: the http client once a frame, with the
\* request w in it.
Drive(s, d, pending, w) ==
  LET Quiet == seconds' = s /\ dict' = d /\ pending_fetch' = pending
               /\ UNCHANGED <<data, fetch_accounts, errors>>
  IN /\ driven' = TRUE
     /\ UNCHANGED fetch_accounts_buffer
     /\ \/ w = NoRequest /\ wire' = w /\ Quiet /\ UNCHANGED failed
        \/ /\ MayWait(w)
           /\ wire' = [w EXCEPT !.age = @ + 1]
           /\ Quiet /\ UNCHANGED failed
        \/ \* handle_rpc_error tells no one here
           /\ w # NoRequest
           /\ wire' = NoRequest /\ failed' = TRUE /\ Quiet
        \/ /\ w.age > 0
           /\ wire' = NoRequest
           /\ FetchCallback(s, d, w.keys)
           /\ UNCHANGED failed

\* void fetch_all(), with the dictionaries d: the request the client has after it
FetchAll(d) ==
  IF pending_fetch THEN wire ELSE [age |-> 0, keys |-> KeysOf(d[fetch_accounts])]

\* void manual_process(delta), after fetch_all
ManualProcess(s, d) ==
  IF driven
  THEN /\ seconds' = s /\ dict' = d /\ wire' = FetchAll(d) /\ pending_fetch' = TRUE
       /\ UNCHANGED <<data, fetch_accounts, fetch_accounts_buffer, driven, errors, failed>>
  ELSE Drive(s, d, TRUE, FetchAll(d))

-----------------------------------------------------------------------------
Init ==
  /\ key = InitialKey
  /\ seconds = [a \in Accounts |-> 0]
  /\ data = [a \in Accounts |-> NoData]
  /\ dict = [i \in {1, 2} |-> <<>>]
  /\ fetch_accounts = 1 /\ fetch_accounts_buffer = 2
  /\ pending_fetch = FALSE
  /\ wire = NoRequest
  /\ turn = 1 /\ driven = FALSE
  /\ rekeys = 0 /\ errors = 0
  /\ had = [a \in Accounts |-> {InitialKey[a]}]
  /\ failed = FALSE

\* void Account::_process(delta)
Process(a) ==
  /\ turn \in DOMAIN Order /\ Order[turn] = a
  /\ LET s == [seconds EXCEPT ![a] = IF @ <= Max[a] THEN @ + 1 ELSE @]
         Passive == UNCHANGED <<data, fetch_accounts, fetch_accounts_buffer, pending_fetch,
                                wire, driven, errors, failed>>
     IN \/ /\ s[a] < Min[a]
           /\ seconds' = s
           /\ Passive /\ UNCHANGED dict
        \/ /\ s[a] >= Min[a] /\ s[a] <= Max[a]
           /\ seconds' = s
           /\ dict' = AddAccountToFetch(a)
           /\ Passive
        \/ /\ s[a] >= Min[a] /\ s[a] > Max[a]
           /\ ManualProcess(s, AddAccountToFetch(a))
  /\ turn' = turn + 1
  /\ UNCHANGED <<key, rekeys, had>>

\* void SolanaClient::_process(delta), of the node in the tree
ProcessClient ==
  /\ turn \in DOMAIN Order /\ Order[turn] = Client
  /\ IF driven
     THEN UNCHANGED <<seconds, data, dict, fetch_accounts, fetch_accounts_buffer, pending_fetch,
                      wire, driven, errors, failed>>
     ELSE Drive(seconds, dict, pending_fetch, wire)
  /\ turn' = turn + 1
  /\ UNCHANGED <<key, rekeys, had>>

NextFrame ==
  /\ turn = Len(Order) + 1
  /\ turn' = 1 /\ driven' = FALSE
  /\ UNCHANGED <<key, seconds, data, dict, fetch_accounts, fetch_accounts_buffer, pending_fetch,
                 wire, rekeys, errors, had, failed>>

\* void Account::set_key(key)
SetKey(a, k) ==
  /\ rekeys < MaxRekeys /\ key[a] # k
  /\ key' = [key EXCEPT ![a] = k]
  /\ had' = [had EXCEPT ![a] = @ \cup {k}]
  /\ rekeys' = rekeys + 1
  /\ UNCHANGED <<seconds, data, dict, fetch_accounts, fetch_accounts_buffer, pending_fetch,
                 wire, turn, driven, errors, failed>>

Frame == (\E a \in Accounts : Process(a)) \/ ProcessClient \/ NextFrame

Next ==
  \/ Frame
  \/ \E a \in Accounts, k \in Keys : SetKey(a, k)

Spec == Init /\ [][Next]_vars

\* Frames go on.
FairSpec == Spec /\ WF_vars(Frame)

-----------------------------------------------------------------------------
TypeOK ==
  /\ key \in [Accounts -> Keys]
  /\ seconds \in [Accounts -> Nat]
  /\ data \in [Accounts -> Keys \cup {NoData}]
  /\ dict \in [{1, 2} -> Seq(Entry)]
  /\ fetch_accounts \in {1, 2} /\ fetch_accounts_buffer \in {1, 2}
  /\ pending_fetch \in BOOLEAN
  /\ wire \in [age : -1 .. Timeout, keys : Seq(Keys)]
  /\ turn \in 1 .. Len(Order) + 1
  /\ driven \in BOOLEAN
  /\ rekeys \in 0 .. MaxRekeys /\ errors \in 0 .. MaxErrors
  /\ had \in [Accounts -> SUBSET Keys]
  /\ failed \in BOOLEAN

\* While an answer is due its data still have their places: the keys asked for
\* are the first keys of the dictionary update_accounts will walk, although
\* accounts are queued, and queued again, in the meantime.
RequestedIsPrefix ==
  wire # NoRequest =>
    LET d == dict[fetch_accounts]
    IN Len(wire.keys) <= Len(d) /\ \A i \in DOMAIN wire.keys : d[i].key = wire.keys[i]

\* No Account is given the data of a key it never had.
DataIsOwn == \A a \in Accounts : data[a] \in had[a] \cup {NoData}

\* pending_fetch says that the http client has the fetcher's request, until one
\* of them ends with an error.
PendingIsFetching == pending_fetch <=> (wire # NoRequest \/ failed)

\* Nothing is asked for before it is due: an Account in the dictionary that goes
\* out next has waited for its minimum interval.
QueuedIsDue ==
  \A i \in DOMAIN dict[fetch_accounts] :
    LET a == dict[fetch_accounts][i].account IN seconds[a] >= Min[a]

Distinct == \A a, b \in Accounts : key[a] = key[b] => a = b
Overdue(a, k) == key[a] = k /\ seconds[a] > Max[a]

\* What is overdue is fetched, even when the node answers an error first, unless
\* the key changes, two Accounts have one key, or a request fails for good.
OverdueIsFetched ==
  \A a \in Accounts : \A k \in OnChain :
    (Overdue(a, k) /\ Distinct) ~>
      (key[a] # k \/ ~Distinct \/ failed \/ (data[a] = k /\ seconds[a] = 0))

\* What is overdue is at least asked for.
OverdueIsAsked ==
  \A a \in Accounts : \A k \in Keys :
    Overdue(a, k) ~> (key[a] # k \/ failed \/ \E i \in DOMAIN wire.keys : wire.keys[i] = k)
=============================================================================
