---------------------------- MODULE SolanaClient ----------------------------
(***************************************************************************)
(* A SolanaClient (src/src/solana_client/solana_client.cpp) between its    *)
(* setters, which say where requests go, and its methods, which make them. *)
(* calls is the history of the setters.                                    *)
(***************************************************************************)
EXTENDS Naturals, Sequences

RPC == INSTANCE RpcMethods
URL == INSTANCE ClientUrl

CONSTANTS
  Tokens,     \* what URLs are written with
  Urls,       \* the URLs setters are called with, by their components
  DefaultUrl, \* the default of the project settings, in the same form
  HttpPort, WsPort, \* the default ports
  MaxSetters, \* bound: how often a setter is called
  NoRequest

\* No token is one of these.
Free(tokens, delimiters) == \A i \in DOMAIN tokens : tokens[i] \notin delimiters

\* A URL that can be taken apart again: a password in it would be taken for its
\* port, an empty host for a URL that is not set.
IsUrl(url) ==
  /\ url \in [DOMAIN url -> Seq(Tokens) \cup URL!Ports]
  /\ "host" \in DOMAIN url
  /\ DOMAIN url \subseteq {"scheme", "userinfo", "host", "port", "path", "query", "fragment"}
  /\ \A name \in DOMAIN url \ {"port"} : url[name] \in Seq(Tokens)
  /\ \A name \in DOMAIN url \cap {"scheme", "userinfo", "host"} : Free(url[name], URL!Delimiters)
  /\ url.host # <<>>
  /\ "port" \in DOMAIN url => url.port \in URL!Ports
  /\ "path" \in DOMAIN url =>
       Len(url.path) > 1 /\ url.path[1] = "/" /\ Free(url.path, {"://", "?", "#"})
  /\ "query" \in DOMAIN url => Free(url.query, {"?", "#"})
  /\ "fragment" \in DOMAIN url => Free(url.fragment, {"#"})

ASSUME TokensAssumption == URL!Delimiters \cup URL!Ports \cup {"http", "ws", "wss"} \subseteq Tokens
ASSUME UrlsAssumption == \A url \in Urls \cup {DefaultUrl} : IsUrl(url)
ASSUME PortsAssumption == HttpPort \in URL!Ports /\ WsPort \in URL!Ports

Defaults == [url |-> URL!AssembleUrl(DefaultUrl), http_port |-> HttpPort, ws_port |-> WsPort]

VARIABLES client, calls, request
clientVars == <<client, calls, request>>

-----------------------------------------------------------------------------
(* Calls of the methods.  get_slot_leaders appends what it was not given   *)
(* and the token accounts of a delegate are asked for with the filter in   *)
(* front of him.                                                           *)

Methods == RPC!Methods \ {RPC!GetSlotLeaders, RPC!GetTokenAccountsByDelegate}
Subscriptions ==
  {RPC!AccountSubscribe, RPC!SignatureSubscribe, RPC!ProgramSubscribe, RPC!RootSubscribe, RPC!SlotSubscribe}

Steps(m) == {m.steps[i] : i \in DOMAIN m.steps}
SettingsOf(m) == {s.of : s \in Steps(m)} \cap RPC!Settings
Filters == {"mint", "program_id"}
Filtered(m) == \E s \in Steps(m) : s.do = "insert second"
OptionalOf(m) ==
  {s.of : s \in {s \in Steps(m) : s.when = "given"}} \cup (IF Filtered(m) THEN Filters ELSE {})

-----------------------------------------------------------------------------

InitClient == client = URL!NewClient /\ calls = <<>> /\ request = NoRequest

Called(call, url) ==
  /\ Len(calls) < MaxSetters
  /\ calls' = Append(calls, [call |-> call, url |-> url])
  /\ UNCHANGED request

\* void set_url_override(url)
SetUrlOverride(url) ==
  /\ Called("set_url_override", url)
  /\ client' = URL!SetUrlOverride(client, URL!AssembleUrl(url), Defaults)

\* void set_ws_url(url)
SetWsUrl(url) ==
  /\ Called("set_ws_url", url)
  /\ client' = URL!SetWsUrl(client, URL!AssembleUrl(url))

\* get_real_ws_url(), as whatever goes to the web socket does.
LookUpWsUrl == client' = URL!AfterRealWsUrl(client, Defaults)

\* void unsubscribe_all(callback)
UnsubscribeAll == LookUpWsUrl /\ UNCHANGED <<calls, request>>

\* The methods, with these settings and these optional arguments.
Ask(method, set, given) ==
  /\ request' = [method |-> method, set |-> set, given |-> given,
                 params |-> RPC!Params(method, set, given)]
  /\ IF method \in Subscriptions THEN LookUpWsUrl ELSE UNCHANGED client
  /\ UNCHANGED calls

Configure == (\E url \in Urls : SetUrlOverride(url) \/ SetWsUrl(url)) \/ UnsubscribeAll
AskAny == \E method \in Methods : \E set \in SUBSET SettingsOf(method), given \in SUBSET OptionalOf(method) :
            Ask(method, set, given)

NextClient == Configure \/ AskAny
SpecClient == InitClient /\ [][NextClient]_clientVars

-----------------------------------------------------------------------------
(* Properties.                                                             *)

\* The steps of this kind that apply.
Taken(method, set, given, do) ==
  {i \in DOMAIN method.steps : method.steps[i].do = do /\ RPC!Applies(method.steps[i], set, given)}

\* Its arguments, in their order.
Arguments(method, set, given) ==
  LET arguments[n \in 0 .. Len(method.steps)] ==
        IF n = 0 THEN <<>>
        ELSE IF n \in Taken(method, set, given, "append")
             THEN Append(arguments[n - 1], RPC!Argument(method.steps[n].of))
        ELSE arguments[n - 1]
  IN arguments[Len(method.steps)]

\* Its options, by their keys.
OptionTable(method, set, options) ==
  [key \in {method.steps[i].key : i \in options} |->
     RPC!ValueOf(method.steps[CHOOSE i \in options : method.steps[i].key = key].of, set)]

Filter(given) == IF "mint" \in given THEN [mint |-> "mint"] ELSE [programId |-> "program_id"]

\* What a method documents: its arguments, the filter, and the options in one Dictionary.
Documented(method, set, given) ==
  LET options == Taken(method, set, given, "option")
  IN Arguments(method, set, given)
     \o (IF Filtered(method) /\ given \cap Filters # {} THEN <<RPC!Table(Filter(given))>> ELSE <<>>)
     \o (IF options = {} THEN <<>> ELSE <<RPC!Table(OptionTable(method, set, options))>>)

\* A request has its arguments in the order of the method, and every option
\* that is set, and no other, in one Dictionary after them, whatever else is
\* set.  SolanaClient::get_*, add_to_param_dict.
RequestKeepsItsPlaces ==
  request # NoRequest => request.params = Documented(request.method, request.set, request.given)

\* The latest of these calls.
Latest(S) == CHOOSE i \in S : \A j \in S : j <= i
Overrides == {i \in DOMAIN calls : calls[i].call = "set_url_override"}
WithPort == {i \in Overrides : "port" \in DOMAIN calls[i].url}

HttpUrl == IF Overrides = {} THEN DefaultUrl ELSE calls[Latest(Overrides)].url
LastPort == IF WithPort = {} THEN HttpPort ELSE calls[Latest(WithPort)].url.port
WsScheme == IF "scheme" \in DOMAIN HttpUrl /\ HttpUrl.scheme = <<"http">> THEN <<"ws">> ELSE <<"wss">>

\* Requests go to the URL that was set last, with its own parts, at the port that
\* was given last, and subscriptions to the URL set for them since, or to the same
\* host, encrypted if requests are.  parse_url, assemble_url, set_url_override, set_ws_url.
EndpointsAreOfLastUrl ==
  /\ URL!HttpEndpoint(client, Defaults) = URL!Over(HttpUrl, [port |-> LastPort])
  /\ URL!WsEndpoint(client, Defaults) =
       IF calls # <<>> /\ calls[Len(calls)].call = "set_ws_url" THEN calls[Len(calls)].url
       ELSE URL!Over([scheme |-> WsScheme, port |-> WsPort], HttpUrl)
=============================================================================
