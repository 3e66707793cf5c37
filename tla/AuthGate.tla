------------------------------ MODULE AuthGate ------------------------------
(***************************************************************************)
(* The auth middleware: the per-address limit on failed attempts           *)
(* (apps/core/src/auth/middleware.rs) in front of the configured providers *)
(* (MultiAuthProvider and the JWKS cache of packages/auth/src/legacy).     *)
(*                                                                         *)
(* The middleware asks the limiter, then the providers, then tells the     *)
(* limiter, with an await between each: requests interleave there.  A      *)
(* token is reduced to its class: "live" and "expired" local tokens, a     *)
(* "jwt" the identity provider has signed, "unknown", and "none" for a     *)
(* request without a bearer token.                                         *)
(***************************************************************************)
EXTENDS Integers, FiniteSets, SequencesExt

CONSTANTS
    Clients, Requests,
    Limit,          \* MAX_FAILURES
    Window,         \* WINDOW_SECS
    KeyTtl,         \* the TTL of the JWKS cache
    MaxNow          \* bound on the clock

ASSUME GateAssumption ==
    /\ IsFiniteSet(Requests)
    /\ Limit \in Nat \ {0}
    /\ Window \in Nat \ {0}

VARIABLES
    mode,           \* which providers build_auth_provider put together
    failures,       \* RateLimiter.failures, by client: <<t, n>> is the n-th
                    \* failure recorded at time t
    request,        \* where each request is
    fetchedAt,      \* JwksCache.last_refresh, or Never
    now

gateVars == <<mode, failures, request, fetchedAt, now>>

Never == -1
Classes == {"none", "live", "expired", "jwt", "unknown"}
NoRequest == [at |-> "idle"]

\* MultiAuthProvider's list, by the configured provider name.
Providers ==
    [local    |-> <<"local">>,
     oidc     |-> <<"oidc", "local">>,
     webauthn |-> <<"local", "webauthn">>]

GateInit ==
    /\ mode \in DOMAIN Providers
    /\ failures = [c \in Clients |-> {}]
    /\ request = [r \in Requests |-> NoRequest]
    /\ fetchedAt = Never
    /\ now = 0

-----------------------------------------------------------------------------
InWindow(f) == f[1] > now - Window
Recent(c) == {f \in failures[c] : InWindow(f)}
\* Mutant: the limit is compared with >.
OneMoreAllowed(c) == Cardinality(Recent(c)) > Limit
IsRateLimited(c) == Cardinality(Recent(c)) >= Limit

\* The check drops what is out of the client's window; in one call of
\* CLEANUP_INTERVAL maybe_cleanup has done so for every client before.
Arrive(r, c, token, cleanup) ==
    /\ request[r] = NoRequest
    /\ failures' = [d \in Clients |-> IF cleanup \/ d = c THEN Recent(d) ELSE failures[d]]
    /\ request' = IF IsRateLimited(c) \/ token = "none" THEN request
                  ELSE [request EXCEPT ![r] = [at |-> "admitted", client |-> c, token |-> token]]
    /\ UNCHANGED <<mode, fetchedAt, now>>

KeysCached == fetchedAt # Never /\ now - fetchedAt <= KeyTtl

\* What one provider says of a token; up: the JWKS endpoint answers a fetch.
Verdict(p, token, up) ==
    CASE p = "local" -> (CASE token = "live"    -> "ok"
                           [] token = "expired" -> "TokenExpired"
                           [] OTHER             -> "TokenNotFound")
      [] p = "oidc"  -> (IF token # "jwt" THEN "InvalidCredentials"
                         ELSE IF KeysCached \/ up THEN "ok" ELSE "Internal")
      [] p = "webauthn" -> "Internal"

\* The first success, else the error of the last provider.
Validate(token, up) ==
    LET said == [i \in DOMAIN Providers[mode] |-> Verdict(Providers[mode][i], token, up)]
    IN  IF Contains(said, "ok") THEN "ok" ELSE Last(said)

Counted == {"TokenExpired", "TokenNotFound", "InvalidCredentials"}

\* The provider's answer; only a verdict on the token is to be counted.
Answer(r, up) ==
    /\ request[r].at = "admitted"
    /\ request' = [request EXCEPT ![r] =
                     IF Validate(@.token, up) \in Counted THEN [@ EXCEPT !.at = "failed"] ELSE NoRequest]
    /\ fetchedAt' = IF mode = "oidc" /\ request[r].token = "jwt" /\ ~KeysCached /\ up
                    THEN now ELSE fetchedAt
    /\ UNCHANGED <<mode, failures, now>>

\* The failure that comes after those the client has at this moment.
NextFailure(c) == <<now, 1 + Cardinality({f \in failures[c] : f[1] = now})>>

\* record_failure: the push, then maybe_cleanup.
Record(r, cleanup) ==
    /\ request[r].at = "failed"
    /\ LET c == request[r].client
           pushed == [failures EXCEPT ![c] = @ \cup {NextFailure(c)}] IN
       failures' = IF cleanup THEN [d \in Clients |-> {f \in pushed[d] : InWindow(f)}] ELSE pushed
    /\ request' = [request EXCEPT ![r] = NoRequest]
    /\ UNCHANGED <<mode, fetchedAt, now>>

GateTick ==
    /\ now < MaxNow
    /\ now' = now + 1
    /\ UNCHANGED <<mode, failures, request, fetchedAt>>

GateNext ==
    \/ \E r \in Requests, c \in Clients, token \in Classes, cleanup \in BOOLEAN :
          Arrive(r, c, token, cleanup)
    \/ \E r \in Requests, up \in BOOLEAN : Answer(r, up)
    \/ \E r \in Requests, cleanup \in BOOLEAN : Record(r, cleanup)
    \/ GateTick

GateSpec == GateInit /\ [][GateNext]_gateVars

-----------------------------------------------------------------------------
\* The limit holds under concurrency up to what was already past the check:
\* within one window no client can have more failed attempts recorded than
\* the limit and the other requests in flight allow, however checks, answers
\* and records of different requests interleave (is_rate_limited,
\* auth_middleware).
FailuresAreBounded ==
    \A c \in Clients : Cardinality(Recent(c)) < Limit + Cardinality(Requests)
=============================================================================
