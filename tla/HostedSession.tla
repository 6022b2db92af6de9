---------------------------- MODULE HostedSession ----------------------------
(***************************************************************************)
(* From the answer of a backend, or a page's URL, to the page a component  *)
(* embeds and the messages it takes from it: the hosted and proxy sources  *)
(* (kyc-core), the frame (kyc-react) and the WebView (kyc-react-native).   *)
(*                                                                         *)
(* A URL is reduced to its origin as it is spelled: plainly, in capitals,  *)
(* or with the port its scheme implies.  A browser reports origins plain.  *)
(***************************************************************************)
CONSTANTS Host,       \* names of hosts
          Subdomain   \* the hosts under each

ASSUME HostAssumption ==
  /\ Subdomain \in [Host -> SUBSET Host]
  /\ \A host \in Host : host \notin Subdomain[host]

Spelling == {"plain", "capitals", "port"}

Url == [scheme : {"http", "https", "other"}, host : Host, spelled : Spelling]

\* undefined, or null
Nothing == [scheme |-> "none", host |-> "none", spelled |-> "none"]

-----------------------------------------------------------------------------
(* Origins *)

\* originOf of hostedSource.ts: as it is spelled
OriginOf(url) == IF url.scheme = "other" THEN Nothing ELSE url

\* originOf of webViewProps.ts: in lower case
LowerCase(url) == IF url.spelled = "capitals" THEN [url EXCEPT !.spelled = "plain"] ELSE url

OriginLowered(url) == IF url.scheme = "other" THEN Nothing ELSE LowerCase(url)

\* URL.origin, and a MessageEvent's origin
Reported(url) == [url EXCEPT !.spelled = "plain"]

\* publicOrigin of sessions.ts
PublicOrigin(base) == IF base.scheme = "other" THEN base ELSE Reported(base)

-----------------------------------------------------------------------------
(* The session a source starts *)

\* What a session names of its page
Session(url, allowedOrigin) == [url |-> url, allowedOrigin |-> allowedOrigin]
Rejected(code) == [error |-> code]

First(option, other) == IF option # Nothing THEN option ELSE other

\* resolveSession: the host's getSession, or a ready URL
HostedStart(answer, url, pin) ==
  CASE answer # Nothing /\ answer.url = Nothing -> Rejected("VALIDATION_ERROR")
    [] answer # Nothing /\ answer.url # Nothing ->
         Session(answer.url, First(answer.allowedOrigin, First(pin, OriginOf(answer.url))))
    [] answer = Nothing /\ url = Nothing -> Rejected("VALIDATION_ERROR")
    [] OTHER -> Session(url, First(pin, OriginOf(url)))

\* getApolloErrorCode: the first GraphQL error's code, if it has one
Answered == {"data", "null", "coded", "uncoded", "unreachable"}

ApolloErrorCode(answered, code, fallback) == IF answered = "coded" THEN code ELSE fallback

\* createProxySource: start of the session of a backend that serves its pages
\* from base, or, with Nothing for it, names none
ProxyStart(answered, code, base) ==
  CASE answered = "data" -> Session(base, PublicOrigin(base))
    [] answered = "null" -> Rejected("SESSION_CREATION_FAILED")
    [] OTHER -> Rejected(ApolloErrorCode(answered, code, "SESSION_CREATION_FAILED"))

\* ... and refreshToken: a session without an id has nothing to refresh
ProxyRefresh(hasId, answered, code) ==
  CASE ~hasId \/ answered = "null" -> Rejected("TOKEN_REFRESH_FAILED")
    [] hasId /\ answered = "data" -> [token |-> TRUE]
    [] OTHER -> Rejected(ApolloErrorCode(answered, code, "TOKEN_REFRESH_FAILED"))

-----------------------------------------------------------------------------
(* The frame (frameProps.ts) *)

\* createMessageGuard: of the pinned origin and of the frame; no pin, nothing
Accepts(allowedOrigin, event) ==
  /\ allowedOrigin # Nothing
  /\ event.origin = allowedOrigin
  /\ event.window = "frame"

\* useTokenRefresh: a token is posted to the pinned origin alone
PostsToken(session) == session.allowedOrigin # Nothing

-----------------------------------------------------------------------------
(* The WebView (webViewProps.ts) *)

\* An origin, or one with *. before its host
Pattern == [origin : Url, wild : BOOLEAN]
Exactly(origin) == [origin |-> origin, wild |-> FALSE]

\* matchesOrigin: a wildcard never matches the bare domain
MatchesOrigin(pattern, origin) ==
  LET wanted == LowerCase(pattern.origin) IN
  IF pattern.wild
  THEN /\ wanted.scheme # "other" /\ origin.scheme = wanted.scheme
       /\ origin.spelled = wanted.spelled
       /\ origin.host \in Subdomain[wanted.host]
  ELSE origin = wanted

\* createHostedWebViewProps: what it may visit, or nothing to pin
AllowList(session, navigation) ==
  LET origin == First(session.allowedOrigin, OriginLowered(session.url))
  IN  IF origin = Nothing THEN {} ELSE {Exactly(origin)} \cup navigation

\* createNavigationGuard
Navigates(allowed, url) ==
  \/ allowed = {}
  \/ /\ OriginLowered(url) # Nothing
     /\ \E pattern \in allowed : MatchesOrigin(pattern, OriginLowered(url))
=============================================================================
