---------------------------- MODULE MCProxyRoutes ----------------------------
(* Two Gmail services and a HubSpot one.  Gmail declares a host of its     *)
(* own, a prefix on a shared host and the route of the OAuth token.        *)
EXTENDS ProxyRoutes

MCServices == {"mail-a", "mail-b", "crm"}

Gmail == <<"gmail.googleapis.com", "/">>
Shared == <<"www.googleapis.com", "/gmail/">>
Token == <<"oauth2.googleapis.com", "/token">>
Hubspot == <<"api.hubapi.com", "/">>
MCKeys == {Gmail, Shared, Token, Hubspot}

MCProvides ==
  [s \in MCServices |-> IF s = "crm" THEN {Hubspot} ELSE {Gmail, Shared, Token}]

(* One route has two spellings.                                            *)
MCRouteNames ==
  {"gmail.googleapis.com", "GMAIL.googleapis.com/", "www.googleapis.com/gmail/",
   "oauth2.googleapis.com/token"}
MCNormal ==
  [n \in MCRouteNames |->
     CASE n = "www.googleapis.com/gmail/" -> Shared
       [] n = "oauth2.googleapis.com/token" -> Token
       [] OTHER -> Gmail]

MCHosts == {j[1] : j \in MCKeys} \union {"api.openai.com"}
MCNames ==
  {"GMAIL.googleapis.com.", "www.googleapis.com", "oauth2.googleapis.com", "api.openai.com"}
MCCanonical == [n \in MCNames |-> IF n = "GMAIL.googleapis.com." THEN Gmail[1] ELSE n]

MCPaths == {"/gmail/v1", "/drive", "/token"}
MCHostOf == [j \in MCKeys |-> j[1]]
MCUnder ==
  [j \in MCKeys |->
     CASE j = Shared -> {"/gmail/v1"} [] j = Token -> {"/token"} [] OTHER -> MCPaths]
MCPrefixLength == [j \in MCKeys |-> CASE j = Shared -> 7 [] j = Token -> 6 [] OTHER -> 1]
=============================================================================
