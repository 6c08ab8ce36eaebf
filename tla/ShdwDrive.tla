----------------------------- MODULE ShdwDrive -----------------------------
(***************************************************************************)
(* The ShdwDrive node (src/src/shdwdrive.cpp): a call first fetches the    *)
(* user info account of the owner; the answer makes the creation of a      *)
(* storage account, or the request for all storage accounts of the owner.  *)
(* What the calls are about is kept in members, the handlers are one-shot  *)
(* connections, and the clients answer requests in any order.              *)
(***************************************************************************)
EXTENDS Naturals, Sequences

CONSTANTS
  Owners,
  Names,     \* names of storages
  Stored,    \* for each owner the names of its storage accounts on chain
  NoName,
  MaxCalls   \* bound: calls of the three operations

VARIABLES
  owner_keypair,
  storage_name,
  user_info,          \* the owners whose account user_info was filled from: at most one
  new_user,
  on_info,            \* one-shot handlers of user_info_fetched
  info_wire,          \* requests for a user info account
  storage_key_list,
  storage_name_list,
  list_wire,          \* requests for the storage accounts of some keys
  on_list,            \* get_multiple_accounts_callback is connected
  waiting,            \* names bound to all_storage_accounts_fetched, for good
  instructions,       \* of create_storage_account_transaction
  storage_account_fetched, \* the names and keys emitted
  calls,              \* counter of the bound
  asked,              \* history: the creations asked for
  crossed,            \* history: a call was made while a handler waited for user info
  mixed               \* history: keys were derived while others were asked about

wires == <<on_info, info_wire, list_wire, on_list, waiting>>
lists == <<storage_key_list, storage_name_list>>
vars == <<owner_keypair, storage_name, user_info, new_user, wires, lists, instructions,
          storage_account_fetched, calls, asked, crossed, mixed>>

Exists(key) == key[2] < Len(Stored[key[1]])

TypeOK ==
  /\ owner_keypair \in Owners /\ storage_name \in Names \cup {NoName}
  /\ user_info \subseteq Owners
  /\ {new_user, on_list, crossed, mixed} \subseteq BOOLEAN
  /\ on_info \subseteq {"create", "list"} /\ waiting \subseteq Names
  /\ \A r \in info_wire : r.of \in Owners
  /\ \A i \in DOMAIN storage_key_list : storage_key_list[i] \in Owners \X Nat

Init ==
  /\ owner_keypair \in Owners /\ storage_name = NoName
  /\ user_info = {} /\ new_user = FALSE
  /\ on_info = {} /\ info_wire = {} /\ list_wire = {} /\ on_list = FALSE /\ waiting = {}
  /\ storage_key_list = <<>> /\ storage_name_list = <<>>
  /\ instructions = <<>> /\ storage_account_fetched = {}
  /\ calls = 0 /\ asked = {} /\ crossed = FALSE /\ mixed = FALSE

\* uint32_t get_account_counter(), of the UserInfo last decoded
Counter(info) == IF info = {} THEN 0 ELSE Len(Stored[CHOOSE o \in info : TRUE])

-----------------------------------------------------------------------------
(* Calls.                                                                  *)

\* A call keeps its owner in the node, whatever still waits for another's.
Call(o) ==
  /\ calls < MaxCalls
  /\ calls' = calls + 1
  /\ owner_keypair' = o
  /\ crossed' = (crossed \/ on_info # {} \/ info_wire # {})

\* fetch_user_info, after a handler was connected: a connection that is there
\* already is refused.
FetchUserInfo(o, handler) ==
  /\ Call(o)
  /\ on_info' = on_info \cup {handler}
  /\ info_wire' = info_wire \cup {[of |-> o, id |-> calls]}

\* Variant create_storage_account(owner_keypair, name, size), which returns for a size
\* that is no number and no text after it has kept owner and name.
CreateStorageAccount(o, name, sized) ==
  /\ storage_name' = name
  /\ \/ sized /\ FetchUserInfo(o, "create") /\ asked' = asked \cup {<<o, name>>}
     \/ ~sized /\ Call(o) /\ UNCHANGED <<on_info, info_wire, asked>>
  /\ UNCHANGED <<user_info, new_user, list_wire, on_list, waiting, lists, instructions,
                 storage_account_fetched, mixed>>

\* void get_all_storage_accounts(owner_key)
GetAllStorageAccounts(o) ==
  /\ FetchUserInfo(o, "list")
  /\ UNCHANGED <<storage_name, user_info, new_user, list_wire, on_list, waiting, lists,
                 instructions, storage_account_fetched, asked, mixed>>

\* What find returns in storage_name_list, the first of its name, with its key.
Found(names, keys, name) ==
  {[name |-> name, key |-> keys[i]] :
     i \in {j \in DOMAIN names : names[j] = name /\ \A k \in 1 .. j - 1 : names[k] # name}}

\* Variant fetch_storage_key_by_name(owner_keypair, storage_name): nothing
\* while the lists are not of one length, which a failed list request leaves them.
FetchStorageKeyByName(o, name) ==
  /\ Len(storage_key_list) = Len(storage_name_list)
  /\ LET found == Found(storage_name_list, storage_key_list, name)
     IN IF found # {}
        THEN /\ calls < MaxCalls /\ calls' = calls + 1
             /\ storage_account_fetched' = found
             /\ UNCHANGED <<owner_keypair, crossed, on_info, info_wire, waiting>>
        ELSE /\ FetchUserInfo(o, "list")
             /\ waiting' = waiting \cup {name}
             /\ UNCHANGED storage_account_fetched
  /\ UNCHANGED <<storage_name, user_info, new_user, list_wire, on_list, lists, instructions, asked,
                 mixed>>

-----------------------------------------------------------------------------
(* Answers.                                                                *)

\* Variant initialize_account(owner_keypair, storage_name, storage)
InitializeAccount ==
  [owner |-> owner_keypair, name |-> storage_name,
   seed |-> IF new_user' THEN 0 ELSE Counter(user_info')]

\* Mutant: the user info of the first owner is kept.
UserInfoCallbackKeepsInfo(r) ==
  /\ r \in info_wire
  /\ info_wire' = info_wire \ {r}
  /\ IF user_info # {}
     THEN UNCHANGED <<user_info, new_user>>
     ELSE IF Stored[r.of] # <<>>
     THEN user_info' = {r.of} /\ UNCHANGED new_user
     ELSE new_user' = TRUE /\ UNCHANGED user_info
  /\ on_info' = {}
  /\ instructions' = IF "create" \in on_info
                     THEN Append(instructions, InitializeAccount) ELSE instructions
  /\ UNCHANGED <<owner_keypair, storage_name, lists, list_wire, on_list, waiting,
                 storage_account_fetched, calls, asked, crossed, mixed>>

\* void fetch_userinfo_callback(params), with what the one-shot handlers do:
\* send_create_storage_tx adds to the one transaction; send_fetch_account_infos
\* derives the keys of the present owner and requests them.  An owner without
\* an account sets new_user, which nothing resets, and leaves user_info.
UserInfoCallback(r) ==
  /\ r \in info_wire
  /\ info_wire' = info_wire \ {r}
  /\ IF Stored[r.of] # <<>>
     THEN user_info' = {r.of} /\ UNCHANGED new_user
     ELSE new_user' = TRUE /\ UNCHANGED user_info
  /\ on_info' = {}
  /\ instructions' = IF "create" \in on_info
                     THEN Append(instructions, InitializeAccount) ELSE instructions
  /\ IF "list" \in on_info
     THEN /\ storage_name_list' = <<>>
          /\ storage_key_list' = [i \in 1 .. Counter(user_info') |-> <<owner_keypair, i - 1>>]
          /\ list_wire' = list_wire \cup {[keys |-> storage_key_list', id |-> r.id]}
          /\ on_list' = TRUE
          /\ mixed' = (mixed \/ list_wire # {})
     ELSE UNCHANGED <<lists, list_wire, on_list, mixed>>
  /\ UNCHANGED <<owner_keypair, storage_name, waiting, storage_account_fetched, calls, asked, crossed>>

\* An error is printed; the handlers keep waiting.
UserInfoFailed(r) ==
  /\ r \in info_wire
  /\ info_wire' = info_wire \ {r}
  /\ UNCHANGED <<owner_keypair, storage_name, user_info, new_user, on_info, list_wire, on_list,
                 waiting, lists, instructions, storage_account_fetched, calls, asked, crossed,
                 mixed>>

\* void get_multiple_accounts_callback(error, response): names are put beside
\* the keys of now, and everybody who ever waited for a name is told.  An
\* account that is not there, or one key too few, ends the program.
StorageAccountsCallback(r) ==
  /\ r \in list_wire
  /\ on_list
  /\ \A i \in DOMAIN r.keys : Exists(r.keys[i]) /\ i \in DOMAIN storage_key_list
  /\ storage_name_list' =
       [i \in DOMAIN storage_key_list |->
          IF i \in DOMAIN r.keys THEN Stored[r.keys[i][1]][r.keys[i][2] + 1] ELSE NoName]
  /\ storage_account_fetched' =
       UNION {Found(storage_name_list', storage_key_list, name) : name \in waiting}
  /\ list_wire' = list_wire \ {r}
  /\ on_list' = FALSE
  /\ UNCHANGED <<owner_keypair, storage_name, user_info, new_user, on_info, info_wire, waiting,
                 storage_key_list, instructions, calls, asked, crossed, mixed>>

\* An error, or an answer nobody is connected for.
StorageAccountsFailed(r) ==
  /\ r \in list_wire
  /\ list_wire' = list_wire \ {r}
  /\ on_list' = FALSE
  /\ UNCHANGED <<owner_keypair, storage_name, user_info, new_user, on_info, info_wire, waiting,
                 lists, instructions, storage_account_fetched, calls, asked, crossed, mixed>>

Next ==
  \/ \E o \in Owners, name \in Names :
       FetchStorageKeyByName(o, name) \/ \E sized \in BOOLEAN : CreateStorageAccount(o, name, sized)
  \/ \E o \in Owners : GetAllStorageAccounts(o)
  \/ \E r \in info_wire : UserInfoCallback(r) \/ UserInfoFailed(r)
  \/ \E r \in list_wire : StorageAccountsCallback(r) \/ StorageAccountsFailed(r)

Spec == Init /\ [][Next]_vars

-----------------------------------------------------------------------------
(* Properties.                                                             *)

\* Unless a call was made while another waited for its user info, or that
\* failed: every creation in the transaction was asked for, with the seed of
\* its own owner's counter while no owner was new.  Unless keys were derived
\* while others were asked about, a key that is told is that of a storage of
\* the name.  create_storage_account to initialize_account, and
\* get_multiple_accounts_callback.
CreationsAreAsked ==
  /\ ~crossed => \A i \in DOMAIN instructions :
       /\ <<instructions[i].owner, instructions[i].name>> \in asked
       /\ new_user \/ instructions[i].seed = Len(Stored[instructions[i].owner])
  /\ ~mixed => \A told \in storage_account_fetched :
       Exists(told.key) /\ Stored[told.key[1]][told.key[2] + 1] = told.name
=============================================================================
