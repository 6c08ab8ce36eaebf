------------------------------ MODULE ClientUrl ------------------------------
(***************************************************************************)
(* The URLs of a SolanaClient (src/src/solana_client/solana_client.cpp):   *)
(* how a URL is taken apart and put together, and the two end points a     *)
(* client has after its setters were called.  A URL is a sequence of       *)
(* tokens, the delimiters and what stands between them.                    *)
(***************************************************************************)
EXTENDS Naturals, Sequences

Delimiters == {"://", "@", ":", "/", "?", "#"}

\* What stands between delimiters and is a number, to_int() of the rest is 0.
Ports == {"80", "443", "8899", "8900"}
ToInt(tokens) == IF Len(tokens) = 1 /\ tokens[1] \in Ports THEN tokens[1] ELSE "0"

\* url.split(d)[0] and [1]
Places(s, d) == {i \in DOMAIN s : s[i] = d}
SmallestOf(S) == CHOOSE i \in S : \A j \in S : i <= j
Splits(s, d) == Places(s, d) # {}
Head_(s, d) == IF Splits(s, d) THEN SubSeq(s, 1, SmallestOf(Places(s, d)) - 1) ELSE s
Second(s, d) == Head_(SubSeq(s, SmallestOf(Places(s, d)) + 1, Len(s)), d)

\* Components, and those of others that are not among them.
Over(parts, others) ==
  [name \in DOMAIN parts \cup DOMAIN others |-> IF name \in DOMAIN parts THEN parts[name] ELSE others[name]]
Component(name, present, value) == [n \in IF present THEN {name} ELSE {} |-> value]

\* Dictionary parse_url(url)
ParseUrl(url) ==
  LET noFragment == Head_(url, "#")
      noQuery == Head_(noFragment, "?")
      noScheme == IF Splits(noQuery, "://") THEN Second(noQuery, "://") ELSE noQuery
      slashes == Places(noScheme, "/")
      hasPath == slashes # {} /\ SmallestOf(slashes) > 1
      path == SubSeq(noScheme, SmallestOf(slashes), Len(noScheme))
      authority == IF hasPath THEN Head_(noScheme, "/") ELSE noScheme
      noPort == Head_(authority, ":")
      fragment == Component("fragment", Splits(url, "#"), Second(url, "#"))
      query == Component("query", Splits(noFragment, "?"), Second(noFragment, "?"))
      scheme == Component("scheme", Splits(noQuery, "://"), Head_(noQuery, "://"))
      rest == Component("path", hasPath /\ Len(path) > 1, path)
      port == Component("port", Splits(authority, ":"), ToInt(Second(authority, ":")))
      userinfo == Component("userinfo", Splits(noPort, "@"), Head_(noPort, "@"))
      host == Component("host", TRUE, IF Splits(noPort, "@") THEN Second(noPort, "@") ELSE noPort)
  IN Over(Over(Over(Over(Over(Over(fragment, query), scheme), rest), port), userinfo), host)

\* String assemble_url(url_components)
AssembleUrl(parts) ==
  LET Has(name) == name \in DOMAIN parts
  IN (IF Has("scheme") THEN parts.scheme \o <<"://">> ELSE <<>>)
     \o (IF Has("userinfo") THEN parts.userinfo \o <<"@">> ELSE <<>>)
     \o parts.host
     \o (IF Has("port") THEN <<":">> \o <<parts.port>> ELSE <<>>)
     \o (IF Has("path") THEN parts.path ELSE <<>>)
     \o (IF Has("query") THEN <<"?">> \o parts.query ELSE <<>>)
     \o (IF Has("fragment") THEN <<"#">> \o parts.fragment ELSE <<>>)

-----------------------------------------------------------------------------
(* The client.  defaults are the project settings.                         *)

\* Empty texts and the port 0 are what is not set.
NewClient == [url_override |-> <<>>, http_port_override |-> "0", ws_url |-> <<>>, use_tls |-> TRUE]

\* get_real_url, get_real_http_port, get_real_ws_port
RealUrl(client, defaults) == IF client.url_override = <<>> THEN defaults.url ELSE client.url_override
RealHttpPort(client, defaults) ==
  IF client.http_port_override = "0" THEN defaults.http_port ELSE client.http_port_override
RealWsPort(defaults) == defaults.ws_port

UsesTls(parts) == ~("scheme" \in DOMAIN parts /\ parts.scheme = <<"http">>)

AsWsUrl(parts, tls, defaults) ==
  AssembleUrl(Over([scheme |-> <<IF tls THEN "wss" ELSE "ws">>, port |-> RealWsPort(defaults)], parts))

\* Mutant: tls is switched off and never on again.
SetUrlOverrideKeepsTls(client, url, defaults) ==
  LET parts == ParseUrl(url)
      tls == client.use_tls /\ UsesTls(parts)
  IN [url_override |-> url, use_tls |-> tls, ws_url |-> AsWsUrl(parts, tls, defaults),
      http_port_override |-> IF "port" \in DOMAIN parts THEN parts.port ELSE client.http_port_override]

\* void set_url_override(url): the port of an earlier URL stays
SetUrlOverride(client, url, defaults) ==
  LET parts == ParseUrl(url)
      tls == UsesTls(parts)
  IN [url_override |-> url, use_tls |-> tls, ws_url |-> AsWsUrl(parts, tls, defaults),
      http_port_override |-> IF "port" \in DOMAIN parts THEN parts.port ELSE client.http_port_override]

\* void set_ws_url(url)
SetWsUrl(client, url) == [client EXCEPT !.ws_url = AssembleUrl(ParseUrl(url))]

\* String ws_from_http(http_url)
WsFromHttp(url, defaults) == AsWsUrl(ParseUrl(url), UsesTls(ParseUrl(url)), defaults)

\* String get_real_ws_url()
RealWsUrl(client, defaults) ==
  IF client.ws_url = <<>> THEN WsFromHttp(RealUrl(client, defaults), defaults) ELSE client.ws_url

\* What looking it up leaves behind: ws_from_http sets use_tls.
AfterRealWsUrl(client, defaults) ==
  IF client.ws_url = <<>>
  THEN [client EXCEPT !.use_tls = UsesTls(ParseUrl(RealUrl(client, defaults)))]
  ELSE client

\* void quick_http_request(request_body): where the request is sent
HttpEndpoint(client, defaults) ==
  Over(ParseUrl(RealUrl(client, defaults)), [port |-> RealHttpPort(client, defaults)])

\* enqueue_ws_request(..., parse_url(get_real_ws_url())): where a subscription is
WsEndpoint(client, defaults) == ParseUrl(RealWsUrl(client, defaults))
=============================================================================
