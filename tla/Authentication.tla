--------------------------- MODULE Authentication ---------------------------
(***************************************************************************)
(* Local bearer tokens and passkey ceremonies (packages/auth/src/legacy,   *)
(* apps/core/src/auth/routes.rs).                                          *)
(*                                                                         *)
(* LocalTokenProvider keeps the passphrase hash and the tokens twice: in   *)
(* memory, which answers every read, and in two SQLite tables, which are   *)
(* read only when the process starts.  The two are written one after the   *)
(* other, and either SQL statement may fail.  WebAuthnProvider keeps its   *)
(* challenges and passkeys in memory only, and asks the token provider for *)
(* the session token of a finished ceremony.                               *)
(*                                                                         *)
(* A passphrase hash is modelled by the passphrase it verifies, a token by *)
(* its id, an expiry by the value of the clock it is reached at.           *)
(***************************************************************************)
EXTENDS Integers, FiniteSets

CONSTANTS
    Tokens,        \* ids of the tokens that may be issued (UUIDs in the code)
    Secrets,       \* passphrases typed by people
    Random,        \* the random passphrase of a passkey session request
    NoSecret,      \* no passphrase has been set
    Lifetimes,     \* values of expires_in_days a request may carry
    Credentials,   \* authenticator credential ids
    Challenges,    \* ids of the challenges that may be started
    ChallengeTtl,  \* challenge_ttl
    SessionDays,   \* the lifetime a passkey session asks for
    MaxClock, MaxRestarts   \* bounds

VARIABLES
    hash, tokens,      \* TokenState: passphrase_hash, and expiry by token id
    file,              \* the auth_config and auth_tokens tables of the file
    backed,            \* the open connection is the file, not the in-memory fallback
    challenges,        \* WebAuthnProvider.challenges
    passkeys,          \* InMemoryWebAuthnStore: [user, cred]
    clock, restarts,
    issued,            \* history: ids answered Ok by generate_token
    unsure             \* history: ids whose revoke_token failed at the DELETE

authVars == <<hash, tokens, file, backed, challenges, passkeys, clock, restarts,
              issued, unsure>>

EmptyFile == [hash |-> NoSecret, rows |-> <<>>]
With(f, k, v) == [i \in DOMAIN f \cup {k} |-> IF i = k THEN v ELSE f[i]]
Without(f, k) == [i \in DOMAIN f \ {k} |-> f[i]]

AuthInit ==
    /\ hash = NoSecret /\ tokens = <<>> /\ file = EmptyFile /\ backed = TRUE
    /\ challenges = <<>> /\ passkeys = {}
    /\ clock = 0 /\ restarts = 0
    /\ issued = {} /\ unsure = {}

-----------------------------------------------------------------------------
\* validate_token: known, and not yet at its expiry.
ValidToken(t) == t \in DOMAIN tokens /\ clock < tokens[t]

\* The statement of generate_token that SQLite fails, if any.
Faults == {"none", "config", "row"}

\* The passphrase in force after generate_token has verified s, or adopted it
\* as the master passphrase because there was none.
Established(s, fault) ==
    IF hash # NoSecret THEN hash ELSE IF fault = "config" THEN NoSecret ELSE s

Granted(s, days, fault) == Established(s, fault) = s /\ days >= 1 /\ fault # "row"

\* Mutant: the token is kept in memory although its row could not be written.
GrantInMemory(s, t, days, fault) ==
    LET ok == Granted(s, days, fault)
    IN  /\ hash' = Established(s, fault)
        /\ tokens' = IF Established(s, fault) = s /\ days >= 1 THEN With(tokens, t, clock + days) ELSE tokens
        /\ file' = IF backed THEN [hash |-> hash', rows |-> IF ok THEN With(file.rows, t, clock + days) ELSE file.rows]
                   ELSE file
        /\ issued' = IF ok THEN issued \cup {t} ELSE issued

\* The lifetime is looked at, and the token row written, only after a first
\* passphrase has been adopted: a refused request can still have set it.
Grant(s, t, days, fault) ==
    LET with(f) == IF Granted(s, days, fault) THEN With(f, t, clock + days) ELSE f
    IN  /\ hash' = Established(s, fault)
        /\ tokens' = with(tokens)
        /\ file' = IF backed THEN [hash |-> hash', rows |-> with(file.rows)] ELSE file
        /\ issued' = IF Granted(s, days, fault) THEN issued \cup {t} ELSE issued

Fresh(t) == t \notin issued

GenerateToken(s, t, days, fault) ==
    /\ Fresh(t)
    /\ Grant(s, t, days, fault)
    /\ UNCHANGED <<backed, challenges, passkeys, clock, restarts, unsure>>

\* revoke_token: memory first, then the DELETE, whose failure is returned.
RevokeToken(t, deleted) ==
    /\ t \in DOMAIN tokens
    /\ tokens' = Without(tokens, t)
    /\ file' = IF backed /\ deleted THEN [file EXCEPT !.rows = Without(@, t)] ELSE file
    /\ unsure' = IF deleted THEN unsure ELSE unsure \cup {t}
    /\ UNCHANGED <<hash, backed, challenges, passkeys, clock, restarts, issued>>

\* build_auth_provider and from_connection at start-up.  A file that cannot be
\* opened is replaced by an empty in-memory database.
Restart(opened) ==
    /\ restarts < MaxRestarts
    /\ restarts' = restarts + 1
    /\ backed' = opened
    /\ LET loaded == IF opened THEN file ELSE EmptyFile
       IN  hash' = loaded.hash /\ tokens' = loaded.rows
    /\ challenges' = <<>> /\ passkeys' = {}
    /\ UNCHANGED <<file, clock, issued, unsure>>

-----------------------------------------------------------------------------
\* The user of a local token is its id: AuthIdentity carries no user_id.
PasskeysOf(u) == {p \in passkeys : p.user = u}

StartCeremony(h, kind, u) ==
    /\ h \notin DOMAIN challenges
    /\ challenges' = With(challenges, h, [kind |-> kind, user |-> u, born |-> clock])
    /\ UNCHANGED <<hash, tokens, file, backed, passkeys, clock, restarts,
                   issued, unsure>>

\* Both register routes require a token; the authenticate routes are public.
MayRegister(t) == ValidToken(t)

RegisterStart(t, h) == MayRegister(t) /\ StartCeremony(h, "registration", t)

AuthenticateStart(u, h) == PasskeysOf(u) # {} /\ StartCeremony(h, "authentication", u)

\* finish_*: the challenge is taken out before anything about it is looked at.
Take(h) == h \in DOMAIN challenges /\ challenges' = Without(challenges, h)
Answers(h, kind) ==
    challenges[h].kind = kind /\ clock - challenges[h].born <= ChallengeTtl

\* The passkey belongs to the caller that finishes the ceremony.
RegisterFinish(t, h, c, verified) ==
    /\ ValidToken(t)
    /\ Take(h)
    /\ passkeys' = IF Answers(h, "registration") /\ verified
                   THEN passkeys \cup {[user |-> t, cred |-> c]} ELSE passkeys
    /\ UNCHANGED <<hash, tokens, file, backed, clock, restarts, issued,
                   unsure>>

\* The session token is asked for with a random passphrase.
AuthenticateFinish(h, t, verified, fault) ==
    /\ Fresh(t)
    /\ Take(h)
    /\ IF Answers(h, "authentication") /\ verified
       THEN Grant(Random, t, SessionDays, fault)
       ELSE UNCHANGED <<hash, tokens, file, issued>>
    /\ UNCHANGED <<backed, passkeys, clock, restarts, unsure>>

\* webauthn_delete_passkey, for the owner's passkey.
DeletePasskey(t, p) ==
    /\ ValidToken(t) /\ p \in PasskeysOf(t)
    /\ passkeys' = passkeys \ {p}
    /\ UNCHANGED <<hash, tokens, file, backed, challenges, clock, restarts,
                   issued, unsure>>

AuthTick ==
    /\ clock < MaxClock
    /\ clock' = clock + 1
    /\ UNCHANGED <<hash, tokens, file, backed, challenges, passkeys, restarts,
                   issued, unsure>>

AuthNext ==
    \/ \E s \in Secrets, t \in Tokens, d \in Lifetimes, f \in Faults : GenerateToken(s, t, d, f)
    \/ \E t \in Tokens, ok \in BOOLEAN : RevokeToken(t, ok)
    \/ \E ok \in BOOLEAN : Restart(ok)
    \/ \E t \in Tokens, h \in Challenges : RegisterStart(t, h)
    \/ \E t \in Tokens, h \in Challenges, c \in Credentials, v \in BOOLEAN :
          RegisterFinish(t, h, c, v)
    \/ \E u \in Tokens, h \in Challenges : AuthenticateStart(u, h)
    \/ \E h \in Challenges, t \in Tokens, v \in BOOLEAN, f \in Faults :
          AuthenticateFinish(h, t, v, f)
    \/ \E t \in Tokens, p \in passkeys : DeletePasskey(t, p)
    \/ AuthTick

AuthSpec == AuthInit /\ [][AuthNext]_authVars

-----------------------------------------------------------------------------
\* A restart that opens the file brings back what the process had in memory:
\* the passphrase, and every token with its expiry.  What it adds is only
\* tokens whose revocation was answered with an error: no token that was
\* revoked with Ok, and none that was never handed out, comes back
\* (generate_token and revoke_token against from_connection).
RestartRestoresTokens ==
    backed =>
        /\ hash = file.hash
        /\ \A t \in DOMAIN tokens : t \in DOMAIN file.rows /\ file.rows[t] = tokens[t]
        /\ DOMAIN file.rows \ DOMAIN tokens \subseteq unsure
=============================================================================
