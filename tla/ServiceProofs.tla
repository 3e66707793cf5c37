---------------------------- MODULE ServiceProofs ---------------------------
(***************************************************************************)
(* Proofs about the services around the stores, one section for each.      *)
(***************************************************************************)
EXTENDS PluginHost, ProviderSync, ConflictResolution, WebhookSender, FiniteSetTheorems, TLAPS

(***************************************************************************)
(* No request runs in a plugin that has been unloaded, for any plugins and *)
(* any number of requests.                                                 *)
(***************************************************************************)

\* The ids of plugins are none of the marks of the model.
HostConstants ==
    /\ Free \notin Natives
    /\ "idle" \notin Natives /\ "over" \notin Natives

\* What NoCallIntoUnloaded needs to be inductive: the plugin that is being
\* unloaded is held by nobody and only the step that holds the loader lock
\* unloads, an unloaded plugin is not Loaded, and nothing is loaded afterwards.
HostInv ==
    /\ stage \in {Stages[i] : i \in DOMAIN Stages}
    /\ status \in [Natives -> {"registered", "loaded", "failed", "unloaded"}]
    /\ held \in [Syncs -> Natives \cup {"idle", "over"}]
    /\ closed \subseteq Natives
    /\ busy \in Natives \cup {Free}
    /\ busy # Free => stage = "plugins" /\ ~Outstanding(busy)
    /\ stage = "loading" => closed = {}
    /\ \A p \in closed : status[p] = "unloaded"
    /\ visiting \subseteq Natives
    /\ NoCallIntoUnloaded

\* The stages by name, and the one that follows each step of the shutdown.
LEMMA StageNames ==
    /\ {Stages[i] : i \in DOMAIN Stages} =
          {"loading", "serving", "draining", "transports", "plugins",
           "engine", "auth", "storage", "exited"}
    /\ \A s \in {"transports", "engine", "auth", "storage"} :
          After(s) \in {"plugins", "auth", "storage", "exited"}
<1>1. /\ DOMAIN Stages = 1..9
      /\ Stages[1] = "loading" /\ Stages[2] = "serving" /\ Stages[3] = "draining"
      /\ Stages[4] = "transports" /\ Stages[5] = "plugins" /\ Stages[6] = "engine"
      /\ Stages[7] = "auth" /\ Stages[8] = "storage" /\ Stages[9] = "exited"
  BY DEF Stages
<1>2. {Stages[i] : i \in DOMAIN Stages} =
          {"loading", "serving", "draining", "transports", "plugins",
           "engine", "auth", "storage", "exited"}
  <2>1. DOMAIN Stages = {1, 2, 3, 4, 5, 6, 7, 8, 9}  BY <1>1
  <2> QED  BY <1>1, <2>1
<1>3. ASSUME NEW k \in 1..9, NEW s, Stages[k] = s,
             \A i \in 1..9 : Stages[i] = s => i = k
      PROVE  After(s) = Stages[1 + k]
  <2>1. (CHOOSE i \in DOMAIN Stages : Stages[i] = s) = k  BY <1>1, <1>3
  <2> QED  BY <2>1, ZenonT(60) DEF After
<1>4. After("transports") = "plugins"  BY <1>1, <1>3
<1>5. After("engine") = "auth"  BY <1>1, <1>3
<1>6. After("auth") = "storage"  BY <1>1, <1>3
<1>7. After("storage") = "exited"  BY <1>1, <1>3
<1> QED  BY <1>2, <1>4, <1>5, <1>6, <1>7

LEMMA HostInvInit == ASSUME HostConstants, HostInit PROVE HostInv
BY StageNames DEF HostConstants, HostInit, HostInv, Outstanding, NoCallIntoUnloaded

\* Each step preserves HostInv.
LEMMA HostInvNext ==
    ASSUME HostConstants, HostInv, [HostNext]_hostVars
    PROVE  HostInv'
<1> USE StageNames DEF HostConstants, HostInv, Outstanding, NoCallIntoUnloaded
<1>1. ASSUME NEW p \in Natives, NEW ok \in BOOLEAN, LoadPlugin(p, ok)
      PROVE  HostInv'
  BY <1>1 DEF LoadPlugin
<1>2. CASE Serve  BY <1>2 DEF Serve
<1>3. ASSUME NEW r \in Syncs, NEW p \in Natives, TriggerSync(r, p)
      PROVE  HostInv'
  BY <1>3 DEF TriggerSync, LoaderFree
<1>4. ASSUME NEW r \in Syncs, NEW ok \in BOOLEAN, SyncReturns(r, ok)
      PROVE  HostInv'
  BY <1>4 DEF SyncReturns
<1>5. CASE Signal  BY <1>5 DEF Signal
<1>6. ASSUME NEW p \in Natives, BeginUnload(p)
      PROVE  HostInv'
  BY <1>6 DEF BeginUnload
<1>7. ASSUME NEW ok \in BOOLEAN, EndUnload(ok)
      PROVE  HostInv'
  BY <1>7 DEF EndUnload
<1>8. CASE Drained  BY <1>8 DEF Drained
<1>9. CASE RunStep  BY <1>9 DEF RunStep
<1>10. ASSUME NEW t \in BOOLEAN, UnloadStepEnds(t)
       PROVE  HostInv'
  BY <1>10 DEF UnloadStepEnds
<1>11. CASE UNCHANGED hostVars  BY <1>11 DEF hostVars
<1> QED
  BY <1>1, <1>2, <1>3, <1>4, <1>5, <1>6, <1>7, <1>8, <1>9, <1>10, <1>11
     DEF HostNext, Shutdown

\* For any plugins and requests, with TLS or without, no request runs
\* handle_route in a plugin whose on_unload has returned: the invariant rests
\* on get_plugin_arc and unload_plugin sharing the loader lock, and on
\* Arc::get_mut refusing a plugin that is held.
THEOREM HostNeverCallsUnloaded ==
    ASSUME HostConstants PROVE HostSpec => []NoCallIntoUnloaded
<1>1. HostInit => HostInv  BY HostInvInit
<1>2. HostInv /\ [HostNext]_hostVars => HostInv'  BY HostInvNext
<1>3. HostInv => NoCallIntoUnloaded  BY DEF HostInv
<1> QED  BY <1>1, <1>2, <1>3, PTL DEF HostSpec

\* How far main has got.
StageNo(s) == CHOOSE i \in DOMAIN Stages : Stages[i] = s

LEMMA StageNumbers ==
    /\ StageNo("loading") = 1 /\ StageNo("serving") = 2 /\ StageNo("draining") = 3
    /\ StageNo("transports") = 4 /\ StageNo("plugins") = 5 /\ StageNo("engine") = 6
    /\ StageNo("auth") = 7 /\ StageNo("storage") = 8 /\ StageNo("exited") = 9
    /\ \A s \in {"transports", "engine", "auth", "storage"} : StageNo(After(s)) = StageNo(s) + 1
<1>1. /\ DOMAIN Stages = 1..9
      /\ Stages[1] = "loading" /\ Stages[2] = "serving" /\ Stages[3] = "draining"
      /\ Stages[4] = "transports" /\ Stages[5] = "plugins" /\ Stages[6] = "engine"
      /\ Stages[7] = "auth" /\ Stages[8] = "storage" /\ Stages[9] = "exited"
  BY DEF Stages
<1>2. ASSUME NEW k \in 1..9, NEW s, Stages[k] = s, \A i \in 1..9 : Stages[i] = s => i = k
      PROVE  StageNo(s) = k
  BY <1>1, <1>2 DEF StageNo
<1>3. /\ StageNo("loading") = 1 /\ StageNo("serving") = 2 /\ StageNo("draining") = 3
      /\ StageNo("transports") = 4 /\ StageNo("plugins") = 5
  BY <1>1, <1>2
<1>4. /\ StageNo("engine") = 6 /\ StageNo("auth") = 7 /\ StageNo("storage") = 8 /\ StageNo("exited") = 9
  BY <1>1, <1>2
<1>5. ASSUME NEW s, NEW k \in 1..8, StageNo(s) = k PROVE After(s) = Stages[1 + k]
  BY <1>5, ZenonT(60) DEF After, StageNo
<1>6. /\ After("transports") = "plugins" /\ After("engine") = "auth" /\ After("auth") = "storage"
      /\ After("storage") = "exited"
  BY <1>1, <1>3, <1>4, <1>5
<1> QED
  BY <1>3, <1>4, <1>6

\* A step of the shutdown is never repeated and none is skipped: main never goes
\* back, and each step of graceful_shutdown leads to the very next one, whatever
\* requests and plugins do meanwhile.  So after the signal there are at most
\* seven steps to the end, and the timeouts see to it that each is taken; this
\* is ShutdownEnds but for the fairness of the scheduler.
THEOREM ShutdownOnlyAdvances ==
    ASSUME HostConstants
    PROVE  HostSpec => [][/\ StageNo(stage') \in {StageNo(stage), StageNo(stage) + 1}
                             \/ (stage = "serving" /\ stage' = "transports")
                          /\ Shutdown => StageNo(stage') = StageNo(stage) + 1]_hostVars
<1> DEFINE Forward == /\ StageNo(stage') \in {StageNo(stage), StageNo(stage) + 1}
                         \/ (stage = "serving" /\ stage' = "transports")
                      /\ Shutdown => StageNo(stage') = StageNo(stage) + 1
<1>1. ASSUME HostNext PROVE Forward
  <2> USE StageNumbers
  <2>1. CASE Shutdown
    <3>1. StageNo(stage') = StageNo(stage) + 1
      BY <2>1 DEF Shutdown, Drained, RunStep, UnloadStepEnds
    <3> QED
      BY <3>1
  <2>2. CASE ~Shutdown
    <3>1. CASE Serve
      BY <2>2, <3>1 DEF Serve
    <3>2. CASE Signal
      BY <2>2, <3>2 DEF Signal
    <3>3. CASE stage' = stage
      BY <2>2, <3>3
    <3> QED
      BY <1>1, <2>2, <3>1, <3>2, <3>3
      DEF HostNext, LoadPlugin, TriggerSync, SyncReturns, BeginUnload, EndUnload
  <2> QED
    BY <2>1, <2>2
<1>2. [HostNext]_hostVars => [Forward]_hostVars
  BY <1>1
<1> HIDE DEF Forward
<1>3. HostSpec => [][Forward]_hostVars
  BY <1>2, PTL DEF HostSpec
<1> QED
  BY <1>3 DEF Forward

-----------------------------------------------------------------------------
(***************************************************************************)
(* The stored sync token never covers a change that no sync returned, for  *)
(* any number of entries, edits, pages and failures.                       *)
(***************************************************************************)

\* The absent token is not a moment; there is a first one.
SyncConstants ==
    /\ LastEdit \in Nat \ {0} /\ RateTries \in Nat
    /\ NoToken \notin Nat

\* What a listing owes: every change its token will cover is still to come, has
\* been gathered, or was covered by the token the sync asked with.
ListingComplete(upto, left) ==
    \A e \in Entries :
        edited[e] <= upto /\ Delivered(e) =>
            \/ e \in left
            \/ fetch.got[e] >= edited[e]
            \/ fetch.from # NoToken /\ edited[e] <= fetch.from

\* TokenCoversReceived says nothing of a running sync; this does.
SyncInv ==
    /\ SyncTypeOK
    /\ \A e \in Entries : edited[e] <= revision
    /\ token # NoToken => token <= revision
    /\ fetch.phase # "idle" => fetch.from = token
    /\ fetch.phase = "idle" => fetch.upto = NoToken
    /\ fetch.upto # NoToken => fetch.upto <= revision /\ ListingComplete(fetch.upto, fetch.left)
    /\ TokenCoversReceived

\* The records of a sync that is not running and of one that begins.
LEMMA FetchRecords ==
    ASSUME SyncConstants
    PROVE  /\ Idle \in Fetch /\ Idle.phase = "idle" /\ Idle.upto = NoToken
           /\ \A from \in TokenType, again \in BOOLEAN :
                 /\ Asking(from, again) \in Fetch
                 /\ Asking(from, again).phase = "token"
                 /\ Asking(from, again).from = from
                 /\ Asking(from, again).upto = NoToken
<1>1. NothingGot \in [Entries -> Moments] /\ 0 \in 0 .. RateTries /\ NoToken \in TokenType
  BY DEF SyncConstants, NothingGot, TokenType, Moments
<1> HIDE DEF NothingGot
<1>2. Idle \in Fetch /\ Idle.phase = "idle" /\ Idle.upto = NoToken
  BY <1>1 DEF Idle, Fetch
<1>3. ASSUME NEW from \in TokenType, NEW again \in BOOLEAN
      PROVE  /\ Asking(from, again) \in Fetch
             /\ Asking(from, again).phase = "token"
             /\ Asking(from, again).from = from
             /\ Asking(from, again).upto = NoToken
  BY <1>2, ZenonT(60) DEF Asking, Fetch
<1> QED  BY <1>2, <1>3

LEMMA SyncInvInit == ASSUME SyncConstants, SyncInit PROVE SyncInv
<1>1. SyncTypeOK
  <2>1. verifier \in BOOLEAN  BY Zenon DEF SyncInit
  <2>2. revision \in Moments /\ NothingGot \in [Entries -> Moments] /\ edited \in [Entries -> Moments]
    BY DEF SyncConstants, SyncInit, Moments, NothingGot
  <2>3. look \in [Entries -> Looks]  BY DEF SyncInit, Looks
  <2> QED  BY <2>1, <2>2, <2>3, FetchRecords DEF SyncInit, SyncTypeOK, TokenType
<1> QED
  BY <1>1, FetchRecords DEF SyncConstants, SyncInit, SyncInv, TokenCoversReceived

\* Before a page is asked for, the listing is complete with what the page may
\* bring: on the first page because the server lists all the token covers.
LEMMA PageCovers ==
    ASSUME SyncConstants, SyncInv, fetch.phase = "ask"
    PROVE  /\ Upto \in Moments /\ Upto <= revision
           /\ Left \subseteq Entries
           /\ ListingComplete(Upto, Left)
<1> USE DEF SyncConstants, SyncInv, SyncTypeOK, Fetch, TokenType, Moments
<1>1. CASE fetch.upto = NoToken
  BY <1>1 DEF Upto, Left, Listed, ListingComplete, Delivered
<1>2. CASE fetch.upto # NoToken  BY <1>2 DEF Upto, Left
<1> QED  BY <1>1, <1>2

\* Gathering a page keeps a version for everything the page was to bring.
LEMMA GatherKeeps ==
    ASSUME SyncConstants, SyncInv, fetch.phase = "ask", NEW page \in SUBSET Left
    PROVE  /\ Gather(fetch.got, page) \in [Entries -> Moments]
           /\ \A e \in Entries :
                 /\ e \in page /\ Delivered(e) => Gather(fetch.got, page)[e] = edited[e]
                 /\ fetch.got[e] >= edited[e] => Gather(fetch.got, page)[e] >= edited[e]
BY DEF SyncConstants, SyncInv, SyncTypeOK, Fetch, TokenType, Moments, Gather, Kept, Delivered

LEMMA LastPageKeeps ==
    ASSUME SyncConstants, SyncInv, LastPage
    PROVE  SyncInv'
<1> USE DEF SyncConstants, SyncInv
<1>0. fetch.phase = "ask" /\ fetch.from = token  BY DEF LastPage
<1> DEFINE got == Gather(fetch.got, Left)
<1>1. /\ Upto \in Moments /\ Upto <= revision
      /\ ListingComplete(Upto, Left)
  BY <1>0, PageCovers
<1>2. /\ got \in [Entries -> Moments]
      /\ \A e \in Entries :
            /\ e \in Left /\ Delivered(e) => got[e] = edited[e]
            /\ fetch.got[e] >= edited[e] => got[e] >= edited[e]
  BY <1>0, GatherKeeps
<1> HIDE DEF got
<1>3. /\ received' \in [Entries -> Moments]
      /\ \A e \in Entries : received'[e] >= received[e] /\ received'[e] >= got[e]
  BY <1>2 DEF LastPage, got, SyncTypeOK, Moments
<1>4. token' = token \/ token' = NoToken \/ token' = Upto  BY DEF LastPage
<1>5. UNCHANGED <<provider, access, verifier, revision, edited, look>> /\ fetch' = Idle
  BY DEF LastPage, server
<1>6. TokenCoversReceived'
  <2> SUFFICES ASSUME token' # NoToken, NEW e \in Entries, edited[e] <= token', Delivered(e)
               PROVE  received'[e] >= edited[e]
    BY <1>5 DEF TokenCoversReceived, Delivered
  <2> USE DEF SyncTypeOK, TokenType, Moments, Fetch
  <2>1. CASE token' = token
    <3>1. received[e] >= edited[e]  BY <2>1 DEF TokenCoversReceived
    <3> QED  BY <3>1, <1>3
  <2>2. CASE token' = Upto
    <3>1. CASE e \in Left  BY <3>1, <1>2, <1>3
    <3>2. CASE fetch.got[e] >= edited[e]  BY <3>2, <1>2, <1>3
    <3>3. CASE fetch.from # NoToken /\ edited[e] <= fetch.from
      <4>1. received[e] >= edited[e]  BY <3>3, <1>0 DEF TokenCoversReceived
      <4> QED  BY <4>1, <1>3
    <3> QED  BY <2>2, <3>1, <3>2, <3>3, <1>1 DEF ListingComplete
  <2> QED  BY <2>1, <2>2, <1>4
<1> QED
  BY <1>1, <1>3, <1>4, <1>5, <1>6, FetchRecords DEF SyncTypeOK, TokenType, Moments

\* Each step preserves SyncInv.
LEMMA SyncInvNext ==
    ASSUME SyncConstants, SyncInv, [SyncNext]_syncVars
    PROVE  SyncInv'
<1> USE DEF SyncConstants, SyncInv
<1>1. ASSUME NEW e \in Entries, NEW s \in Looks, Edit(e, s)
      PROVE  SyncInv'
  <2>1. SyncTypeOK'  BY <1>1 DEF Edit, SyncTypeOK, Moments
  <2>2. /\ \A x \in Entries : edited'[x] <= revision'
        /\ revision' = revision + 1 /\ revision \in Nat
        /\ UNCHANGED <<provider, token, fetch, received>>
        /\ \A x \in Entries : x # e => edited'[x] = edited[x] /\ look'[x] = look[x]
        /\ edited'[e] = revision + 1
    BY <1>1 DEF Edit, SyncTypeOK, Moments
  <2>3. fetch.upto # NoToken => ListingComplete(fetch.upto, fetch.left)'
    BY <2>2 DEF ListingComplete, Delivered, SyncTypeOK, Fetch, TokenType, Moments
  <2>4. TokenCoversReceived'
    BY <2>2 DEF TokenCoversReceived, Delivered, SyncTypeOK, TokenType, Moments
  <2> QED  BY <2>1, <2>2, <2>3, <2>4 DEF SyncTypeOK, Fetch, TokenType, Moments
<1>2. CASE AuthUrl
  BY <1>2 DEF AuthUrl, server, SyncTypeOK, ListingComplete, TokenCoversReceived, Delivered
<1>3. CASE ExchangeCode
  BY <1>3, ZenonT(60) DEF ExchangeCode, server, SyncTypeOK, ListingComplete, TokenCoversReceived, Delivered
<1>4. CASE Expire
  BY <1>4 DEF Expire, server, SyncTypeOK, ListingComplete, TokenCoversReceived, Delivered
<1>5. CASE Reconfigure
  BY <1>5 DEF Reconfigure, server, SyncTypeOK, TokenType, ListingComplete, TokenCoversReceived, Delivered, Idle
<1>6. CASE StartSync
  BY <1>6, FetchRecords, ZenonT(60) DEF StartSync, server, SyncTypeOK, TokenCoversReceived, Delivered
<1>7. CASE EnsureToken
  <2>1. /\ fetch' \in Fetch
        /\ fetch'.phase = "ask" /\ fetch'.upto = fetch.upto /\ fetch'.left = fetch.left
        /\ fetch'.got = fetch.got /\ fetch'.from = fetch.from
        /\ fetch.phase = "token"
    <3>1. 0 \in 0 .. RateTries  OBVIOUS
    <3> DEFINE Tries == 0 .. RateTries
    <3> HIDE DEF Tries
    <3>2. fetch \in [phase : {"idle", "token", "ask"}, from : TokenType, upto : TokenType,
                     left : SUBSET Entries, got : [Entries -> Moments], tries : Tries, again : BOOLEAN]
      BY DEF SyncTypeOK, Fetch, Tries
    <3>3. fetch' \in [phase : {"idle", "token", "ask"}, from : TokenType, upto : TokenType,
                      left : SUBSET Entries, got : [Entries -> Moments], tries : Tries, again : BOOLEAN]
      BY <1>7, <3>1, <3>2, ZenonT(60) DEF EnsureToken, Tries
    <3> QED  BY <1>7, <3>2, <3>3 DEF EnsureToken, Fetch, Tries
  <2>2. UNCHANGED <<provider, verifier, token, revision, edited, look, received>> /\ access' = "valid"
    BY <1>7 DEF EnsureToken, server
  <2> QED
    BY <2>1, <2>2 DEF SyncTypeOK, ListingComplete, TokenCoversReceived, Delivered
<1>8. CASE RateLimited
  BY <1>8 DEF RateLimited, server, SyncTypeOK, Fetch, ListingComplete, TokenCoversReceived, Delivered
<1>9. ASSUME NEW page \in SUBSET Entries, MorePages(page)
      PROVE  SyncInv'
  <2>0. fetch.phase = "ask" /\ page \in SUBSET Left  BY <1>9 DEF MorePages
  <2> DEFINE got == Gather(fetch.got, page)
  <2>1. /\ Upto \in Moments /\ Upto <= revision /\ Upto # NoToken
        /\ Left \subseteq Entries
        /\ ListingComplete(Upto, Left)
    BY <2>0, PageCovers DEF Moments
  <2>2. /\ got \in [Entries -> Moments]
        /\ \A e \in Entries :
              /\ e \in page /\ Delivered(e) => got[e] = edited[e]
              /\ fetch.got[e] >= edited[e] => got[e] >= edited[e]
    BY <2>0, GatherKeeps
  <2>3. fetch' = [fetch EXCEPT !.phase = "token", !.upto = Upto, !.left = Left \ page, !.got = got]
    BY <1>9 DEF MorePages
  <2>4. UNCHANGED <<provider, access, verifier, token, revision, edited, look, received>>
    BY <1>9 DEF MorePages, server
  <2> HIDE DEF got
  <2>5. /\ fetch' \in Fetch
        /\ fetch'.phase = "token" /\ fetch'.upto = Upto /\ fetch'.left = Left \ page
        /\ fetch'.got = got /\ fetch'.from = fetch.from
    BY <2>1, <2>2, <2>3, ZenonT(60) DEF SyncTypeOK, Fetch, TokenType
  <2>6. ListingComplete(fetch.upto, fetch.left)'
    BY <2>1, <2>2, <2>4, <2>5 DEF ListingComplete, Delivered, SyncTypeOK, Moments
  <2> QED
    BY <2>0, <2>1, <2>4, <2>5, <2>6 DEF SyncTypeOK, TokenCoversReceived, Delivered
<1>10. CASE LastPage  BY <1>10, LastPageKeeps
<1>11. CASE Gone
  BY <1>11, FetchRecords, ZenonT(60) DEF Gone, server, SyncTypeOK, TokenType, TokenCoversReceived
<1>12. CASE Fail
  BY <1>12, FetchRecords DEF Fail, server, SyncTypeOK, TokenCoversReceived, Delivered
<1>13. CASE UNCHANGED syncVars
  BY <1>13 DEF syncVars, server, SyncTypeOK, ListingComplete, TokenCoversReceived, Delivered
<1> QED
  BY <1>1, <1>2, <1>3, <1>4, <1>5, <1>6, <1>7, <1>8, <1>9, <1>10, <1>11, <1>12, <1>13, ZenonT(60)
     DEF SyncNext

\* For any entries and any history of edits, failures, drops, rate limits and
\* expired tokens, a change covered by the stored sync token was returned by a
\* sync that succeeded.  The argument is about the running sync: what its
\* listing covers is to come, gathered, or covered by the token it asked with.
THEOREM SyncLosesNothing ==
    ASSUME SyncConstants PROVE SyncSpec => []TokenCoversReceived
<1>1. SyncInit => SyncInv  BY SyncInvInit
<1>2. SyncInv /\ [SyncNext]_syncVars => SyncInv'  BY SyncInvNext
<1>3. SyncInv => TokenCoversReceived  BY DEF SyncInv
<1> QED  BY <1>1, <1>2, <1>3, PTL DEF SyncSpec

-----------------------------------------------------------------------------
(***************************************************************************)
(* A field merge of ConflictResolution loses no edit that only one side    *)
(* made, for any fields and values.                                        *)
(***************************************************************************)

Objects == [Fields -> Absentable]
Copies == [data : Objects, version : Nat, at : Nat]

\* The marker of a missing value is no JSON object.
MergeConstants == Missing \notin Objects

MergeInv == base \in Copies /\ mine \in Copies /\ theirs \in Copies /\ moment \in Nat

\* Where a merge that does not give up takes the value of each field from.
LEMMA MergedField ==
    ASSUME MergeConstants, NEW a \in Copies, NEW b \in Copies, NEW o \in Objects,
           FieldMerge(a, b, o) # Missing, NEW f \in Fields
    PROVE  /\ FieldMerge(a, b, o) \in Objects
           /\ a.data[f] # o[f] => FieldMerge(a, b, o)[f] = a.data[f]
           /\ b.data[f] # o[f] => FieldMerge(a, b, o)[f] = b.data[f]
           /\ a.data[f] = o[f] /\ b.data[f] = o[f] => FieldMerge(a, b, o)[f] = o[f]
<1> DEFINE m == FieldMerge(a, b, o)
<1>1. a.data \in Objects /\ b.data \in Objects
  BY DEF Copies
<1>2. \A g \in EitherKeys(a, b) :
         ~(a.data[g] # o[g] /\ b.data[g] # o[g] /\ a.data[g] # b.data[g])
  BY DEF FieldMerge
<1> DEFINE v(g) == IF g \notin EitherKeys(a, b) THEN Missing
                     ELSE IF a.data[g] # o[g] THEN a.data[g]
                     ELSE IF b.data[g] # o[g] THEN b.data[g]
                     ELSE o[g]
<1>3. m = [g \in Fields |-> v(g)]
  BY <1>2 DEF FieldMerge
<1> HIDE DEF m, v
<1>4. ASSUME NEW g \in Fields
      PROVE  /\ g \notin EitherKeys(a, b) => m[g] = Missing
             /\ g \in EitherKeys(a, b) /\ a.data[g] # o[g] => m[g] = a.data[g]
             /\ g \in EitherKeys(a, b) /\ b.data[g] # o[g] => m[g] = b.data[g]
             /\ g \in EitherKeys(a, b) /\ a.data[g] = o[g] /\ b.data[g] = o[g] => m[g] = o[g]
  <2>1. m[g] = v(g)
    BY <1>3
  <2>2. CASE g \notin EitherKeys(a, b)
    BY <2>1, <2>2 DEF v
  <2>3. CASE g \in EitherKeys(a, b) /\ a.data[g] # o[g]
    <3>1. v(g) = a.data[g]
      BY <2>3 DEF v
    <3> QED
      BY <1>2, <2>1, <2>3, <3>1
  <2>4. CASE g \in EitherKeys(a, b) /\ a.data[g] = o[g]
    BY <2>1, <2>4 DEF v
  <2> QED
    BY <2>2, <2>3, <2>4
<1>5. \A g \in Fields : g \notin EitherKeys(a, b) => a.data[g] = Missing /\ b.data[g] = Missing
  BY DEF EitherKeys
<1>6. m \in Objects
  <2>1. ASSUME NEW g \in Fields PROVE m[g] \in Absentable
    <3>1. a.data[g] \in Absentable /\ b.data[g] \in Absentable /\ o[g] \in Absentable
      BY <1>1 DEF Objects
    <3> QED
      BY <1>4, <3>1 DEF Absentable
  <2> QED
    BY <1>3, <2>1 DEF Objects
<1>7. /\ a.data[f] # o[f] => m[f] = a.data[f]
      /\ b.data[f] # o[f] => m[f] = b.data[f]
      /\ a.data[f] = o[f] /\ b.data[f] = o[f] => m[f] = o[f]
  BY <1>2, <1>4, <1>5
<1> QED
  BY <1>6, <1>7 DEF m

\* A merge gives up only when both sides changed a field to different values.
LEMMA GivesUp ==
    ASSUME MergeConstants, NEW a \in Copies, NEW b \in Copies, NEW o \in Objects
    PROVE  FieldMerge(a, b, o) = Missing <=>
              \E f \in EitherKeys(a, b) :
                 a.data[f] # o[f] /\ b.data[f] # o[f] /\ a.data[f] # b.data[f]
<1> DEFINE overlap == \E f \in EitherKeys(a, b) :
                 a.data[f] # o[f] /\ b.data[f] # o[f] /\ a.data[f] # b.data[f]
           merged == [g \in Fields |->
              IF g \notin EitherKeys(a, b) THEN Missing
                ELSE IF a.data[g] # o[g] THEN a.data[g]
                ELSE IF b.data[g] # o[g] THEN b.data[g]
                ELSE o[g]]
<1>1. FieldMerge(a, b, o) = IF overlap THEN Missing ELSE merged
  BY DEF FieldMerge
<1>2. merged \in Objects
  <2>1. a.data \in Objects /\ b.data \in Objects
    BY DEF Copies
  <2>2. ASSUME NEW g \in Fields
        PROVE (IF g \notin EitherKeys(a, b) THEN Missing
                ELSE IF a.data[g] # o[g] THEN a.data[g]
                ELSE IF b.data[g] # o[g] THEN b.data[g]
                ELSE o[g]) \in Absentable
    BY <2>1 DEF Objects, Absentable
  <2> QED
    BY <2>2 DEF Objects
<1> HIDE DEF merged
<1> QED
  BY <1>1, <1>2 DEF MergeConstants

\* resolve_field_merge is a three-way merge of any two copies with any ancestor.
LEMMA ThreeWay ==
    ASSUME MergeConstants, MergeInv
    PROVE  MergeIsThreeWay
<1> DEFINE o == base.data
           m == FieldMerge(mine, theirs, o)
           w == FieldMerge(theirs, mine, o)
<1>1. mine \in Copies /\ theirs \in Copies /\ o \in Objects
  BY DEF MergeInv, Copies
<1>2. EitherKeys(mine, theirs) = EitherKeys(theirs, mine) /\ EitherKeys(mine, theirs) \subseteq Fields
  BY DEF EitherKeys
<1>3. m = Missing <=> w = Missing
  BY <1>1, <1>2, GivesUp
<1>4. m = Missing => \E f \in Fields : /\ mine.data[f] # theirs.data[f]
                                       /\ o[f] \notin {mine.data[f], theirs.data[f]}
  BY <1>1, <1>2, GivesUp
<1>5. ASSUME m # Missing, NEW f \in Fields
      PROVE  /\ m \in Objects /\ w \in Objects /\ m[f] = w[f]
             /\ mine.data[f] # o[f] => m[f] = mine.data[f]
             /\ theirs.data[f] # o[f] => m[f] = theirs.data[f]
             /\ mine.data[f] = o[f] /\ theirs.data[f] = o[f] => m[f] = o[f]
  <2>1. w # Missing
    BY <1>3, <1>5
  <2>2. /\ m \in Objects
        /\ mine.data[f] # o[f] => m[f] = mine.data[f]
        /\ theirs.data[f] # o[f] => m[f] = theirs.data[f]
        /\ mine.data[f] = o[f] /\ theirs.data[f] = o[f] => m[f] = o[f]
    BY <1>1, <1>5, MergedField
  <2>3. /\ w \in Objects
        /\ mine.data[f] # o[f] => w[f] = mine.data[f]
        /\ theirs.data[f] # o[f] => w[f] = theirs.data[f]
        /\ mine.data[f] = o[f] /\ theirs.data[f] = o[f] => w[f] = o[f]
    BY <1>1, <2>1, MergedField
  <2> HIDE DEF m, w
  <2> QED
    BY <2>2, <2>3
<1>6. m = w
  <2>1. CASE m = Missing
    BY <1>3, <2>1
  <2>2. CASE m # Missing /\ Fields # {}
    <3>1. m \in Objects /\ w \in Objects /\ \A f \in Fields : m[f] = w[f]
      BY <1>5, <2>2
    <3> HIDE DEF m, w
    <3> QED
      BY <3>1 DEF Objects
  <2>3. CASE Fields = {}
    <3>1. EitherKeys(mine, theirs) = {} /\ EitherKeys(theirs, mine) = {}
      BY <1>2, <2>3
    <3> QED
      BY <2>3, <3>1 DEF FieldMerge
  <2> QED
    BY <2>1, <2>2, <2>3
<1> HIDE DEF m, w
<1> QED
  BY <1>4, <1>5, <1>6 DEF MergeIsThreeWay, m, w

LEMMA MergeInitInv == MergeInit => MergeInv
BY DEF MergeInit, MergeInv, Copies, Objects

LEMMA MergeNextInv == MergeInv /\ [MergeNext]_mergeVars => MergeInv'
<1> SUFFICES ASSUME MergeInv, [MergeNext]_mergeVars PROVE MergeInv'
  OBVIOUS
<1>1. ASSUME NEW f \in Fields, NEW v \in Absentable, EditField(f, v) PROVE MergeInv'
  <2>1. moment' \in Nat
    BY <1>1 DEF EditField, MergeInv
  <2>2. \A copy \in Copies : Edited(copy, f, v) \in Copies
    BY <2>1 DEF Edited, Copies, Objects
  <2> QED
    BY <1>1, <2>1, <2>2 DEF EditField, MergeInv
<1>2. CASE UNCHANGED <<base, mine, theirs, moment>>
  BY <1>2 DEF MergeInv
<1> QED
  BY <1>1, <1>2, ZenonT(60) DEF MergeNext, Detect, Dismiss, Resolve, mergeVars

\* Whatever the two copies of a record have been edited to, in however many fields, the
\* field-level merge keeps every edit of either side, makes none up, treats the sides
\* alike, and gives up only when both changed a field to different values.
THEOREM MergeKeepsEveryEdit ==
    ASSUME MergeConstants
    PROVE  MergeSpec => []MergeIsThreeWay
<1>1. MergeInv => MergeIsThreeWay
  BY ThreeWay
<1> QED
  BY <1>1, MergeInitInv, MergeNextInv, PTL DEF MergeSpec

-----------------------------------------------------------------------------
(***************************************************************************)
(* WebhookSender is done with an event in bounded time, for any            *)
(* subscriptions, timeouts and number of retries.                          *)
(***************************************************************************)

\* The numbers of the configuration are unsigned; the cap on a pause is a constant of
\* the code and not zero.
HookConstants ==
    /\ TotalTimeout \in Nat
    /\ RequestTimeout \in Nat
    /\ BackoffMax \in Nat \ {0}
    /\ MaxRetries \in Nat

\* A request goes out only before the deadline.
HookInv ==
    /\ elapsed \in Nat /\ failed \in Nat
    /\ step \in {"idle", "acquire", "attempt", "send"}
    /\ step = "send" => elapsed < TotalTimeout
    /\ EventHandledInTime

\* A power of two is a number: that of the subsets of a set.
LEMMA PowerOfTwo ==
    ASSUME NEW n \in Nat
    PROVE  2 ^ n \in Nat
<1>1. IsFiniteSet(1 .. n) /\ Cardinality(1 .. n) = n
  BY FS_Interval
<1>2. IsFiniteSet(SUBSET (1 .. n)) /\ Cardinality(SUBSET (1 .. n)) = 2 ^ Cardinality(1 .. n)
  BY <1>1, FS_SUBSET, ZenonT(60)
<1> QED
  BY <1>1, <1>2, FS_CardinalityType

\* No pause is longer than the cap.
LEMMA BackoffIsCapped ==
    ASSUME HookConstants, NEW n \in Nat
    PROVE  compute_backoff(n + 1) \in Nat /\ compute_backoff(n + 1) <= BackoffMax
<1> DEFINE p == 2 ^ n
<1>1. p \in Nat
  BY PowerOfTwo
<1>2. compute_backoff(n + 1) = CHOOSE x \in {BackoffMax, p} : \A y \in {BackoffMax, p} : x <= y
  <2>1. (n + 1) - 1 = n
    OBVIOUS
  <2> QED
    BY <2>1 DEF compute_backoff, Min
<1> HIDE DEF p
<1>3. BackoffMax \in Nat
  BY DEF HookConstants
<1>4. \E x \in {BackoffMax, p} : \A y \in {BackoffMax, p} : x <= y
  BY <1>1, <1>3
<1>5. /\ compute_backoff(n + 1) \in {BackoffMax, p}
      /\ \A y \in {BackoffMax, p} : compute_backoff(n + 1) <= y
  BY <1>2, <1>4
<1> QED
  BY <1>1, <1>3, <1>5

LEMMA HookNextInv ==
    ASSUME HookConstants
    PROVE  HookInv /\ [HookNext]_hookVars => HookInv'
<1> SUFFICES ASSUME HookInv, [HookNext]_hookVars PROVE HookInv'
  OBVIOUS
<1> USE DEF HookInv, EventHandledInTime, HookConstants
<1>1. CASE UNCHANGED <<step, failed, elapsed>>
  BY <1>1
<1>2. ASSUME NEW matching, HandleEvent(matching) PROVE HookInv'
  BY <1>2 DEF HandleEvent
<1>3. CASE Acquire
  <2>1. UNCHANGED elapsed /\ failed' \in {0, failed} /\ step' \in {"idle", "acquire", "attempt"}
    BY <1>3 DEF Acquire, NextSub
  <2> QED
    BY <1>3, <2>1 DEF Acquire
<1>4. CASE Attempt
  BY <1>4 DEF Attempt, NextSub
<1>5. ASSUME NEW took \in 0 .. RequestTimeout, HookDelivered(took) PROVE HookInv'
  <2>1. elapsed' = elapsed + took /\ UNCHANGED failed /\ step' \in {"idle", "acquire"}
    BY <1>5 DEF HookDelivered, NextSub
  <2> QED
    BY <1>5, <2>1 DEF HookDelivered
<1>6. ASSUME NEW took \in 0 .. RequestTimeout, DeliveryFailed(took) PROVE HookInv'
  <2>1. /\ step = "send" /\ failed' = failed + 1 /\ step' \in {"idle", "acquire", "attempt"}
        /\ elapsed' \in {elapsed + took, elapsed + took + compute_backoff(failed + 1)}
    BY <1>6 DEF DeliveryFailed, NextSub
  <2>2. compute_backoff(failed + 1) \in Nat /\ compute_backoff(failed + 1) <= BackoffMax
    BY BackoffIsCapped
  <2> QED
    BY <2>1, <2>2
<1> QED
  BY <1>1, <1>2, <1>3, <1>4, <1>5, <1>6 DEF HookNext, hookVars, Subscribe, Unsubscribe

\* However many subscriptions match an event and however their attempts time out, its
\* handling outlasts total_timeout_secs by less than one request and one capped pause.
THEOREM EventsAreHandledInTime ==
    ASSUME HookConstants
    PROVE  HookSpec => []EventHandledInTime
<1>1. HookInit => HookInv
  BY DEF HookInit, HookInv, EventHandledInTime
<1>2. HookInv => EventHandledInTime
  BY DEF HookInv
<1> QED
  BY <1>1, <1>2, HookNextInv, PTL DEF HookSpec
=============================================================================
