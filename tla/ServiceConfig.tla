---------------------------- MODULE ServiceConfig ----------------------------
(***************************************************************************)
(* What an environment makes of kyc-service: the capabilities it turns on, *)
(* what the boot guard (config.ts) has against it, and how the service     *)
(* then authenticates callers and webhooks.  A value is reduced to what    *)
(* the checks look at: set or not, http(s) or not, sandbox or live.        *)
(***************************************************************************)
EXTENDS Naturals

Env == [database : {"unset", "blank", "set"},        \* DATABASE_URL
        insecure : BOOLEAN,                          \* ALLOW_INSECURE_DEV=true
        production : BOOLEAN, allowDemo : BOOLEAN,   \* KYC_ENV, KYC_ALLOW_DEMO
        jwks : {"unset", "url", "other"},            \* SESSION_JWKS_URL
        hs256 : BOOLEAN,                             \* SESSION_HS256_SECRET
        provider : {"unset", "mock", "sumsub", "other"},   \* KYC_PROVIDER
        appToken : {"unset", "sandbox", "live"},     \* SUMSUB_APP_TOKEN
        secretKey : BOOLEAN, webhookSecret : BOOLEAN,
        baseUrl : {"unset", "http", "other"},        \* PUBLIC_BASE_URL
        target : {"container", "vercel", "cloudflare"}]

\* capabilities.ts: a blank DATABASE_URL is unset
HasSessions(e) == e.database = "set"

\* session.ts
SessionSource(e) ==
  CASE e.jwks # "unset" -> "jwks"
    [] e.jwks = "unset" /\ e.hs256 -> "hs256"
    [] OTHER -> IF e.insecure THEN "insecure" ELSE "none"

\* sessionVerifierFromEnv: new URL throws on what is none, which no check of the
\* boot guard looks at
VerifierThrows(e) == e.jwks = "other"

\* registry.ts: the mock unless KYC_PROVIDER names one
ProviderName(e) == IF e.provider = "unset" THEN "mock" ELSE e.provider

\* production.ts: demo settings are refused in production
DemoRefused(e) == e.production /\ ~e.allowDemo

\* providers/mock.ts: it signs its own webhooks, with a key anyone knows
MockRefused(e) == ~e.insecure \/ DemoRefused(e)

\* providers/sumsub/config.ts
SumsubMissing(e) == e.appToken = "unset" \/ ~e.secretKey

SandboxToken(e) == e.appToken = "sandbox"

SumsubRefused(e) == SumsubMissing(e) \/ (SandboxToken(e) /\ DemoRefused(e))

\* defaultRegistry of kyc-node, which has no word on where the mock may run
RegistryRefuses(e, name) ==
  IF name = "mock" THEN DemoRefused(e) ELSE SumsubRefused(e)

\* A name nobody registered falls back with a warning
RegistryName(e, default) == IF e.provider \in {"mock", "sumsub"} THEN e.provider ELSE default

\* accessTokenProviderFromEnv: Sumsub unless KYC_PROVIDER names another
AccessTokenRefuses(e) == RegistryRefuses(e, RegistryName(e, "sumsub"))

\* Required only of a deployment that names its provider in production
BugWebhookErrors(e) ==
  HasSessions(e) /\ e.provider = "sumsub" /\ ~e.webhookSecret /\ ~e.insecure /\ e.production

WebhookErrors(e) ==
  HasSessions(e) /\ e.provider = "sumsub" /\ ~e.webhookSecret /\ ~e.insecure

BaseUrlErrors(e) ==
  /\ HasSessions(e)
  /\ e.baseUrl = "other" \/ (e.baseUrl = "unset" /\ ~e.insecure)

ProviderErrors(e) ==
  \/ ProviderName(e) = "other"
  \/ ProviderName(e) = "mock" /\ MockRefused(e)
  \/ ProviderName(e) = "sumsub" /\ SumsubRefused(e)

\* The Cloudflare target has no Postgres driver
RuntimeErrors(e) == e.target = "cloudflare" /\ HasSessions(e)

\* configErrors
Errors(e) ==
  {name \in {"session", "publicBaseUrl", "provider", "webhook", "runtime"} :
     \/ name = "session" /\ SessionSource(e) = "none"
     \/ name = "publicBaseUrl" /\ BaseUrlErrors(e)
     \/ name = "provider" /\ ProviderErrors(e)
     \/ name = "webhook" /\ WebhookErrors(e)
     \/ name = "runtime" /\ RuntimeErrors(e)}

\* The mock always has a webhook secret, its own by default
WebhookSecret(e) == ProviderName(e) = "mock" \/ e.webhookSecret

\* publicUrl.ts: what clients are handed as the page's URL and pin their
\* messages to
PublicBaseUrl(e) ==
  IF e.baseUrl # "unset" THEN e.baseUrl ELSE IF e.insecure THEN "local" ELSE "empty"
=============================================================================
