----------------------------- MODULE MCKycService -----------------------------
(***************************************************************************)
(* KycService on two requests in flight.  Every environment is started;    *)
(* the traffic of four of them is explored: Sumsub in production, with      *)
(* sessions and with tokens only, and in development Sumsub without a       *)
(* webhook secret on a serverless target, and the mock.                     *)
(***************************************************************************)
EXTENDS KycService

Production == [database |-> "set", insecure |-> FALSE, production |-> TRUE, allowDemo |-> FALSE,
               jwks |-> "url", hs256 |-> FALSE, provider |-> "sumsub", appToken |-> "live",
               secretKey |-> TRUE, webhookSecret |-> TRUE, baseUrl |-> "http",
               target |-> "container"]

Development == [Production EXCEPT !.insecure = TRUE, !.production = FALSE]

Deployments == {Production,
                [Production EXCEPT !.database = "unset"],
                [Development EXCEPT !.webhookSecret = FALSE, !.target = "vercel"],
                [Development EXCEPT !.provider = "mock", !.appToken = "unset",
                                    !.secretKey = FALSE, !.webhookSecret = FALSE]}

Input == [json |-> "parsed", platform |-> TRUE, levelName |-> "absent", locale |-> "fine",
          sessionId |-> "fine"]

Fine == [bearer |-> "verified", op |-> "start", body |-> Input]

\* One request of each operation, and one for each thing that is refused
Requests ==
  {[Fine EXCEPT !.op = op] : op \in Operation}
  \cup {[Fine EXCEPT !.bearer = b] : b \in {"none", "unverified"}}
  \cup {[Fine EXCEPT !.body.json = "invalid"], [Fine EXCEPT !.body.json = "absent"],
        [Fine EXCEPT !.body.platform = FALSE], [Fine EXCEPT !.body.levelName = "long"],
        [Fine EXCEPT !.body.levelName = "notText"], [Fine EXCEPT !.body.locale = "odd"],
        [Fine EXCEPT !.op = "refresh", !.body.sessionId = "blank"]}
=============================================================================
