--------------------------- MODULE AnchorProgram ---------------------------
(***************************************************************************)
(* What an AnchorProgram node fetches (src/src/anchor/anchor_program.cpp): *)
(* its IDL, over one SolanaClient, in two requests that both end in        *)
(* idl_from_pid_callback; one account, or all accounts of a type, over     *)
(* another, whose one signal http_request_completed both kinds of fetch    *)
(* wait for.  The http client answers requests in any order.               *)
(***************************************************************************)
EXTENDS Naturals, FiniteSets

CONSTANTS
  Programs,   \* program ids, each of a program with an IDL account
  Names,      \* names of account types the IDL describes
  Keys,       \* addresses of accounts
  MaxLoads,   \* bound: calls of set_try_from_pid(true)
  MaxRepoints,\* bound: calls of set_pid
  MaxFetches, \* bound: calls of fetch_account and fetch_all_accounts
  MaxErrors   \* bound: requests that end with an error

NoIdl == "no idl"
NoFetch == [kind |-> "none"]
NoAnswer == [asked |-> NoFetch, of |-> NoFetch]

VARIABLES
  pid,
  try_from_pid,
  idl,                   \* the program whose IDL it holds
  idl_callback,          \* idl_from_pid_callback is connected
  idl_wire,              \* requests for a program or its IDL account
  pending_account_name,  \* the fetch the name is of
  pending_accounts_name,
  connected,             \* the kinds whose callback is connected
  wire,                  \* requests of fetch_client
  account_fetched,       \* the last emission: the fetch asked for, the request answered
  loads, repoints, fetches, errors, \* counters of the bounds
  repointed,             \* history: set_pid while the IDL was on its way
  crossed                \* history: a fetch began while another was on its way

idlVars == <<pid, try_from_pid, idl, idl_callback, idl_wire, loads, repoints, repointed>>
fetchVars == <<pending_account_name, pending_accounts_name, connected, wire, account_fetched,
               fetches, crossed>>
vars == <<idlVars, fetchVars, errors>>

TypeOK ==
  /\ pid \in Programs /\ idl \in Programs \cup {NoIdl}
  /\ {try_from_pid, idl_callback, repointed, crossed} \subseteq BOOLEAN
  /\ \A r \in idl_wire : r.of \in Programs /\ r.kind \in {"program", "idl"}
  /\ connected \subseteq {"account", "accounts"}
  /\ \A r \in wire : r.kind \in {"account", "accounts"} /\ r.name \in Names

Init ==
  /\ pid \in Programs /\ try_from_pid = FALSE /\ idl = NoIdl
  /\ idl_callback = FALSE /\ idl_wire = {}
  /\ pending_account_name = NoFetch /\ pending_accounts_name = NoFetch
  /\ connected = {} /\ wire = {} /\ account_fetched = NoAnswer
  /\ loads = 0 /\ repoints = 0 /\ fetches = 0 /\ errors = 0
  /\ repointed = FALSE /\ crossed = FALSE

-----------------------------------------------------------------------------
(* The IDL.                                                                *)

Request(kind, of, id) == [kind |-> kind, of |-> of, id |-> id]

\* Mutant: the property keeps its value.
SetPidKeepsFlag(p) ==
  /\ repoints < MaxRepoints
  /\ repoints' = repoints + 1
  /\ pid' = p
  /\ repointed' = (repointed \/ idl_wire # {})
  /\ UNCHANGED <<try_from_pid, idl, idl_callback, idl_wire, loads, fetchVars, errors>>

\* void set_pid(pid)
SetPid(p) ==
  /\ repoints < MaxRepoints
  /\ repoints' = repoints + 1
  /\ pid' = p
  /\ try_from_pid' = FALSE
  /\ repointed' = (repointed \/ idl_wire # {})
  /\ UNCHANGED <<idl, idl_callback, idl_wire, loads, fetchVars, errors>>

\* void set_try_from_pid(true) and load_from_pid(pid), which returns false; a
\* callback that is connected already is not connected twice.
LoadFromPid ==
  /\ loads < MaxLoads
  /\ loads' = loads + 1
  /\ try_from_pid' = FALSE
  /\ idl_callback' = TRUE
  /\ idl_wire' = idl_wire \cup {Request("program", pid, loads')}
  /\ UNCHANGED <<pid, idl, repoints, repointed, fetchVars, errors>>

\* void set_try_from_pid(false)
StopLoading ==
  /\ try_from_pid
  /\ try_from_pid' = FALSE
  /\ UNCHANGED <<pid, idl, idl_callback, idl_wire, loads, repoints, repointed, fetchVars, errors>>

\* void idl_from_pid_callback(error, rpc_result): a program leads to its IDL
\* account, whose address is made of the pid of now; an account to
\* extract_idl_from_data.
IdlFromPidCallback(r) ==
  /\ r \in idl_wire
  /\ idl_callback
  /\ IF r.kind = "program"
     THEN /\ idl_callback' = TRUE
          /\ idl_wire' = (idl_wire \ {r}) \cup {Request("idl", pid, r.id)}
          /\ UNCHANGED <<idl, try_from_pid>>
     ELSE /\ idl_callback' = FALSE
          /\ idl_wire' = idl_wire \ {r}
          /\ idl' = r.of
          /\ try_from_pid' = TRUE
  /\ UNCHANGED <<pid, loads, repoints, repointed, fetchVars, errors>>

\* An error, no value, an account without data, or nobody is connected.
IdlNotFound(r) ==
  /\ r \in idl_wire
  /\ \/ ~idl_callback /\ UNCHANGED errors
     \/ idl_callback /\ errors < MaxErrors /\ errors' = errors + 1
  /\ idl_callback' = FALSE
  /\ idl_wire' = idl_wire \ {r}
  /\ UNCHANGED <<pid, idl, try_from_pid, loads, repoints, repointed, fetchVars>>

-----------------------------------------------------------------------------
(* Accounts.                                                               *)

\* What fetch_account and fetch_all_accounts have in common.
Fetch(request) ==
  /\ fetches < MaxFetches
  /\ fetches' = fetches + 1
  /\ connected' = connected \cup {request.kind}
  /\ wire' = wire \cup {request}
  /\ crossed' = (crossed \/ wire # {})
  /\ UNCHANGED <<idlVars, errors, account_fetched>>

\* Error fetch_account(name, account): ERR_ALREADY_IN_USE while one is pending
FetchAccount(name, key) ==
  /\ pending_account_name = NoFetch
  /\ LET request == [kind |-> "account", name |-> name, key |-> key, id |-> fetches]
     IN pending_account_name' = request /\ Fetch(request)
  /\ UNCHANGED pending_accounts_name

\* Error fetch_all_accounts(name, additional_filters)
FetchAllAccounts(name) ==
  /\ pending_accounts_name = NoFetch
  /\ LET request == [kind |-> "accounts", name |-> name, id |-> fetches]
     IN pending_accounts_name' = request /\ Fetch(request)
  /\ UNCHANGED pending_account_name

\* Mutant: an account that does not exist leaves the name.
FetchedExisting(r) ==
  /\ r \in wire
  /\ \/ /\ pending_account_name' = IF "account" \in connected THEN NoFetch ELSE pending_account_name
        /\ account_fetched' = IF "account" \in connected /\ r.kind = "account"
                              THEN [asked |-> pending_account_name, of |-> r]
                              ELSE account_fetched
     \/ UNCHANGED <<pending_account_name, account_fetched>>
  /\ pending_accounts_name' = IF "accounts" \in connected THEN NoFetch ELSE pending_accounts_name
  /\ connected' = {}
  /\ wire' = wire \ {r}
  /\ UNCHANGED <<idlVars, fetches, errors, crossed>>

\* fetch_account_callback and fetch_all_accounts_callback, whichever are
\* connected: both clear their name first.  The result of the other kind of
\* request has no value, or is no array: account_fetched is not emitted.
Fetched(r) ==
  /\ r \in wire
  /\ pending_account_name' = IF "account" \in connected THEN NoFetch ELSE pending_account_name
  /\ account_fetched' = IF "account" \in connected /\ r.kind = "account"
                        THEN [asked |-> pending_account_name, of |-> r]
                        ELSE account_fetched
  /\ pending_accounts_name' = IF "accounts" \in connected THEN NoFetch ELSE pending_accounts_name
  /\ connected' = {}
  /\ wire' = wire \ {r}
  /\ UNCHANGED <<idlVars, fetches, errors, crossed>>

\* The same with an error: the callbacks return and are connected no more.
FetchFailed(r) ==
  /\ r \in wire
  /\ errors < MaxErrors
  /\ errors' = errors + 1
  /\ connected' = {}
  /\ wire' = wire \ {r}
  /\ UNCHANGED <<idlVars, pending_account_name, pending_accounts_name, account_fetched,
                 fetches, crossed>>

Answer == \E r \in wire : Fetched(r) \/ FetchFailed(r)

Next ==
  \/ \E p \in Programs : SetPid(p)
  \/ LoadFromPid
  \/ StopLoading
  \/ \E r \in idl_wire : IdlFromPidCallback(r) \/ IdlNotFound(r)
  \/ \E name \in Names, key \in Keys : FetchAccount(name, key)
  \/ \E name \in Names : FetchAllAccounts(name)
  \/ Answer

\* The http client ends every request, with an answer or an error.
Spec == Init /\ [][Next]_vars /\ WF_vars(Answer)

-----------------------------------------------------------------------------
(* Properties.                                                             *)

\* While try_from_pid is up, the IDL is that of the pid, unless set_pid was
\* called while it was on its way; and account_fetched has the account that
\* was asked for last, unless two fetches were on their way at once.
\* extract_idl_from_data, fetch_account_callback.
AnswersAreOwn ==
  /\ try_from_pid /\ ~repointed => idl = pid
  /\ ~crossed => account_fetched.asked = account_fetched.of

\* A fetch that was begun ends and fetch_account can be called again, unless a
\* request failed: after that it answers ERR_ALREADY_IN_USE for ever.
FetchEnds == pending_account_name # NoFetch ~> (pending_account_name = NoFetch \/ errors > 0)
=============================================================================
