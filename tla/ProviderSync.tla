---------------------------- MODULE ProviderSync ----------------------------
(***************************************************************************)
(* The incremental sync of the Google connectors: events of one calendar   *)
(* (connector-calendar/src/google.rs) or the contacts of an account        *)
(* (connector-contacts/src/google.rs).  A sync fetches page after page,    *)
(* keeps what it gathered in a local vector, and stores the sync token of  *)
(* the last page; the next sync asks for what changed after that token.    *)
(*                                                                         *)
(* A token is the server's moment it was issued for.  The methods take     *)
(* &mut self, so a client runs one of them at a time, but its caller may   *)
(* drop it at any await, the server's data change between two pages, and   *)
(* every request may fail, be rate limited, or be told that its token is   *)
(* gone.                                                                   *)
(***************************************************************************)
EXTENDS Naturals

CONSTANTS
    Entries,    \* the calendar's events, or the contacts
    NoToken,    \* None: the next sync is a full one
    RateTries,  \* MAX_RATE_LIMIT_RETRIES, 3 in the code
    LastEdit    \* bound on the server's moments

VARIABLES
    provider,   \* "calendar" or "contacts"
    access,     \* the cached access token: "none", "valid" or "expired"
    verifier,   \* the calendar's pkce_verifier is Some
    token,      \* the stored sync token
    fetch,      \* the running sync
    revision,   \* the server's moment
    edited,     \* the moment of each entry's last change
    look,       \* what the entry is since then
    received    \* the newest version of each entry a sync returned

server == <<revision, edited, look>>
syncVars == <<provider, access, verifier, token, fetch, server, received>>

Moments == 0 .. LastEdit
TokenType == Moments \cup {NoToken}

\* An event lies in the window of a full sync, lies outside it, or is one that
\* is skipped (cancelled, or impossible to normalise).  A contact is always
\* mapped.
Looks == {"near", "far", "skipped"}

\* The local variables of a sync.  `from` is the token it asks with, `upto`
\* the token the server will answer with, `left` the entries of the pages to
\* come and `got` the versions gathered so far (0 for none); `again` is set in
\* the full sync that follows an expired token.
Fetch == [phase : {"idle", "token", "ask"}, from : TokenType, upto : TokenType,
          left : SUBSET Entries, got : [Entries -> Moments], tries : 0 .. RateTries, again : BOOLEAN]

NothingGot == [e \in Entries |-> 0]
Idle == [phase |-> "idle", from |-> NoToken, upto |-> NoToken, left |-> {},
         got |-> NothingGot, tries |-> 0, again |-> FALSE]
Asking(from, again) == [Idle EXCEPT !.phase = "token", !.from = from, !.again = again]

SyncTypeOK ==
    /\ provider \in {"calendar", "contacts"}
    /\ access \in {"none", "valid", "expired"} /\ verifier \in BOOLEAN
    /\ token \in TokenType /\ fetch \in Fetch
    /\ revision \in Moments
    /\ edited \in [Entries -> Moments] /\ look \in [Entries -> Looks]
    /\ received \in [Entries -> Moments]

SyncInit ==
    /\ provider \in {"calendar", "contacts"}
    /\ access = "none" /\ verifier = FALSE
    /\ token = NoToken /\ fetch = Idle
    /\ revision = 1
    /\ edited = [e \in Entries |-> 1] /\ look = [e \in Entries |-> "near"]
    /\ received = NothingGot

-----------------------------------------------------------------------------
(* The server, from how the clients use it.  An edit is the newest moment.  *)
(* A listing covers what was changed after its token, up to the moment of   *)
(* its first page; a later page shows an entry as it is by then.            *)
Edit(e, s) ==
    /\ revision < LastEdit
    /\ revision' = revision + 1
    /\ edited' = [edited EXCEPT ![e] = revision + 1]
    /\ look' = [look EXCEPT ![e] = s]
    /\ UNCHANGED <<provider, access, verifier, token, fetch, received>>

\* Only a full listing of events has time bounds.
Listed(from) ==
    {e \in Entries : IF from = NoToken THEN provider = "contacts" \/ look[e] # "far"
                                       ELSE edited[e] > from}

-----------------------------------------------------------------------------
(* Authorization: the calendar exchanges a code for its first access token  *)
(* (the verifier is taken whether or not the exchange succeeds); the        *)
(* contacts client is given the refresh token with every call.              *)
AuthUrl ==
    /\ provider = "calendar" /\ fetch = Idle
    /\ verifier' = TRUE
    /\ UNCHANGED <<provider, access, token, fetch, server, received>>

ExchangeCode ==
    /\ provider = "calendar" /\ fetch = Idle /\ verifier
    /\ verifier' = FALSE
    /\ access' \in {access, "valid"}
    /\ UNCHANGED <<provider, token, fetch, server, received>>

Expire ==
    /\ access = "valid"
    /\ access' = "expired"
    /\ UNCHANGED <<provider, verifier, token, fetch, server, received>>

-----------------------------------------------------------------------------
(* A sync.                                                                  *)
StartSync ==
    /\ fetch = Idle
    /\ fetch' = Asking(token, FALSE)
    /\ UNCHANGED <<provider, access, verifier, token, server, received>>

\* ensure_valid_token, before every page.
EnsureToken ==
    /\ fetch.phase = "token"
    /\ access # "none" \/ provider = "contacts"
    /\ access' = "valid"
    /\ fetch' = [fetch EXCEPT !.phase = "ask", !.tries = 0]
    /\ UNCHANGED <<provider, verifier, token, server, received>>

\* A 429 within the budget: wait and ask again.
RateLimited ==
    /\ fetch.phase = "ask" /\ fetch.tries < RateTries
    /\ fetch' = [fetch EXCEPT !.tries = @ + 1]
    /\ UNCHANGED <<provider, access, verifier, token, server, received>>

\* The vector gains the page's entries, skipped events excepted.
Kept(page) == {e \in page : provider = "contacts" \/ look[e] # "skipped"}
\* Mutant: a vector for each page.
GatherOne(got, page) == [e \in Entries |-> IF e \in Kept(page) THEN edited[e] ELSE 0]
Gather(got, page) == [e \in Entries |-> IF e \in Kept(page) THEN edited[e] ELSE got[e]]

\* The first page fixes what the listing covers.
Upto == IF fetch.upto = NoToken THEN revision ELSE fetch.upto
Left == IF fetch.upto = NoToken THEN Listed(fetch.from) ELSE fetch.left

\* A page with a next_page_token.
MorePages(page) ==
    /\ fetch.phase = "ask"
    /\ page \subseteq Left
    /\ fetch' = [fetch EXCEPT !.phase = "token", !.upto = Upto,
                              !.left = Left \ page, !.got = Gather(fetch.got, page)]
    /\ UNCHANGED <<provider, access, verifier, token, server, received>>

\* The last page stores its sync token and the sync returns what it gathered.
\* The server may omit the token: the calendar then forgets the one it has, the
\* contacts client keeps it.
LastPage ==
    /\ fetch.phase = "ask"
    /\ \E next \in {Upto, NoToken} :
          token' = IF next = NoToken /\ provider = "contacts" THEN token ELSE next
    /\ received' = [e \in Entries |->
                       LET version == Gather(fetch.got, Left)[e]
                       IN  IF version > received[e] THEN version ELSE received[e]]
    /\ fetch' = Idle
    /\ UNCHANGED <<provider, access, verifier, server>>

\* A 410: forget the token and sync once more, in full.  The contacts client
\* looks for 410 or Gone in the text of any error.
Gone ==
    /\ fetch.phase = "ask" \/ (provider = "contacts" /\ fetch.phase = "token")
    /\ ~fetch.again
    /\ token' = NoToken
    /\ fetch' = Asking(NoToken, TRUE)
    /\ UNCHANGED <<provider, access, verifier, server, received>>

\* Any other failure (no access token, a failed refresh, the budget of 429s, an
\* error response, a body that is not JSON, a second 410), and a dropped call:
\* what was gathered is lost, the token stays.
Fail ==
    /\ fetch # Idle
    /\ fetch' = Idle
    /\ UNCHANGED <<provider, access, verifier, token, server, received>>

\* on_unload drops the client, and configure_google makes a new one.
Reconfigure ==
    /\ fetch = Idle
    /\ token' = NoToken /\ access' = "none"
    /\ UNCHANGED <<provider, verifier, fetch, server, received>>

SyncNext ==
    \/ \E e \in Entries, s \in Looks : Edit(e, s)
    \/ AuthUrl \/ ExchangeCode \/ Expire \/ Reconfigure
    \/ StartSync \/ EnsureToken \/ RateLimited
    \/ \E page \in SUBSET Entries : MorePages(page)
    \/ LastPage \/ Gone \/ Fail

SyncSpec == SyncInit /\ [][SyncNext]_syncVars
-----------------------------------------------------------------------------
(* What must hold *)

\* The entry's last change is one a sync hands to its caller.
Delivered(e) == provider = "contacts" \/ look[e] = "near"

\* The stored token never runs ahead of what was returned: a change it covers
\* (and that later syncs will therefore not list) was in the result of a sync
\* that succeeded.  Failed and dropped syncs, expired tokens, edits between two
\* pages and last pages without a token lose nothing.  Not covered are events
\* outside the window of the full sync, malformed events and cancellations.
TokenCoversReceived ==
    token # NoToken =>
        \A e \in Entries : edited[e] <= token /\ Delivered(e) => received[e] >= edited[e]
=============================================================================
