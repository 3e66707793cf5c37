----------------------------- MODULE MCServices -----------------------------
(***************************************************************************)
(* The services of the core that share no state with one another, checked  *)
(* in one run.  A behaviour is a behaviour of one of them: `which` is      *)
(* chosen once, and the variables of the others keep their initial values. *)
(* The services are extended, so that the run and the theorems are about   *)
(* one definition.                                                         *)
(*                                                                         *)
(* The services take the values of their symmetric sets from two pools     *)
(* that they share, p1, p2 and q1, q2, so that one small group of          *)
(* permutations serves all of them.  None of these sets is the plugin      *)
(* host's: a permutation fixes every state in which `which` is "host", the *)
(* only states the liveness property has a condition in, so the reduction  *)
(* is sound for it too.                                                    *)
(***************************************************************************)
EXTENDS DocumentStore, PluginData, PluginHost, ProviderSync, SchemaVersioning, Authentication,
        BlobStore, Quarantine, BackupVault, Households, ConflictResolution, WebhookSender,
        IdentityStore, AuthGate, TLC

CONSTANT plugin

VARIABLE which

-----------------------------------------------------------------------------
\* The plugin declares the credentials collection, has a schema for it and may
\* write; it may not delete.
MCMayWrite == {plugin}
MCMayDelete == {}
MCDeclared == plugin :> {"credentials"}
MCSchemas == {<<plugin, "credentials">>}

\* The document calls: every operation by the core itself, writes of a
\* credential by the plugin with the right id, another id and none.
Ask(who, op, scope, ids, body) == [who |-> who, op |-> op, scope |-> scope, ids |-> ids, body |-> body]
one == CHOOSE i \in DocIds : TRUE
two == CHOOSE i \in DocIds : i # one
MCWanted ==
    {Ask("system", "create", "credentials", {one}, one), Ask("system", "delete", "credentials", {one}, NoId),
     Ask("system", "update", "credentials", {one}, two), Ask("system", "patch", "credentials", {one}, NoId),
     Ask(plugin, "delete", "credentials", {one}, NoId)}
    \cup {Ask(plugin, "update", "credentials", {one}, body) : body \in {one, two, NoId}}
    \cup {Ask("system", op, "notes", DocIds, NoId) : op \in {"batch_create", "batch_update", "batch_delete"}}

\* Schemas that accept either item, or both.
MCSchemaSets == {s \in SUBSET Items : s # {}}

-----------------------------------------------------------------------------
Services == {"auth", "gate", "docs", "blobs", "data", "host", "quarantine", "vault", "homes", "merge",
             "sync", "schema", "hooks", "identity"}

all == <<which, authVars, gateVars, docVars, blobVars, recVars, hostVars, quarVars, vaultVars,
         homeVars, mergeVars, syncVars, schemaVars, hookVars, idVars>>

\* The services with several initial states have one of them when they are
\* not the one that runs.
Init ==
    /\ which \in Services
    /\ AuthInit /\ DocInit /\ BlobInit /\ RecInit /\ VaultInit
    /\ HomeInit /\ HookInit /\ IdInit
    /\ GateInit /\ (which = "gate" \/ mode = "local")
    /\ HostInit /\ (which = "host" \/ ~tls)
    /\ QuarInit /\ (which = "quarantine" \/ accepts = Items)
    /\ MergeInit /\ (which = "merge" \/ (coll = "tasks" /\ base.data = NoAncestor))
    /\ SyncInit /\ (which = "sync" \/ provider = "calendar")
    /\ SchemaInit /\ (which = "schema" \/ schema = [field |-> NoField, required |-> FALSE])

AStep == /\ which = "auth" /\ AuthNext
         /\ UNCHANGED <<which, gateVars, docVars, blobVars, recVars, hostVars, quarVars, vaultVars,
                        homeVars, mergeVars, syncVars, schemaVars, hookVars, idVars>>
GStep == /\ which = "gate" /\ GateNext
         /\ UNCHANGED <<which, authVars, docVars, blobVars, recVars, hostVars, quarVars, vaultVars,
                        homeVars, mergeVars, syncVars, schemaVars, hookVars, idVars>>
DStep == /\ which = "docs" /\ DocNext
         /\ UNCHANGED <<which, authVars, gateVars, blobVars, recVars, hostVars, quarVars, vaultVars,
                        homeVars, mergeVars, syncVars, schemaVars, hookVars, idVars>>
BStep == /\ which = "blobs" /\ BlobNext
         /\ UNCHANGED <<which, authVars, gateVars, docVars, recVars, hostVars, quarVars, vaultVars,
                        homeVars, mergeVars, syncVars, schemaVars, hookVars, idVars>>
RStep == /\ which = "data" /\ RecNext
         /\ UNCHANGED <<which, authVars, gateVars, docVars, blobVars, hostVars, quarVars, vaultVars,
                        homeVars, mergeVars, syncVars, schemaVars, hookVars, idVars>>
HStep == /\ which = "host" /\ HostNext
         /\ UNCHANGED <<which, authVars, gateVars, docVars, blobVars, recVars, quarVars, vaultVars,
                        homeVars, mergeVars, syncVars, schemaVars, hookVars, idVars>>
QStep == /\ which = "quarantine" /\ QuarNext
         /\ UNCHANGED <<which, authVars, gateVars, docVars, blobVars, recVars, hostVars, vaultVars,
                        homeVars, mergeVars, syncVars, schemaVars, hookVars, idVars>>
VStep == /\ which = "vault" /\ VaultNext
         /\ UNCHANGED <<which, authVars, gateVars, docVars, blobVars, recVars, hostVars, quarVars,
                        homeVars, mergeVars, syncVars, schemaVars, hookVars, idVars>>
MStep == /\ which = "homes" /\ HomeNext
         /\ UNCHANGED <<which, authVars, gateVars, docVars, blobVars, recVars, hostVars, quarVars,
                        vaultVars, mergeVars, syncVars, schemaVars, hookVars, idVars>>
CStep == /\ which = "merge" /\ MergeNext
         /\ UNCHANGED <<which, authVars, gateVars, docVars, blobVars, recVars, hostVars, quarVars,
                        vaultVars, homeVars, syncVars, schemaVars, hookVars, idVars>>
SStep == /\ which = "sync" /\ SyncNext
         /\ UNCHANGED <<which, authVars, gateVars, docVars, blobVars, recVars, hostVars, quarVars,
                        vaultVars, homeVars, mergeVars, schemaVars, hookVars, idVars>>
EStep == /\ which = "schema" /\ SchemaNext
         /\ UNCHANGED <<which, authVars, gateVars, docVars, blobVars, recVars, hostVars, quarVars,
                        vaultVars, homeVars, mergeVars, syncVars, hookVars, idVars>>
WStep == /\ which = "hooks" /\ HookNext
         /\ UNCHANGED <<which, authVars, gateVars, docVars, blobVars, recVars, hostVars, quarVars,
                        vaultVars, homeVars, mergeVars, syncVars, schemaVars, idVars>>
IStep == /\ which = "identity" /\ IdNext
         /\ UNCHANGED <<which, authVars, gateVars, docVars, blobVars, recVars, hostVars, quarVars,
                        vaultVars, homeVars, mergeVars, syncVars, schemaVars, hookVars>>

Next == AStep \/ GStep \/ DStep \/ BStep \/ RStep \/ HStep \/ QStep \/ VStep \/ MStep \/ CStep
        \/ SStep \/ EStep \/ WStep \/ IStep

\* Every step of the shutdown sequence runs under a timeout.
ShutdownStep == /\ which = "host" /\ Shutdown
                /\ UNCHANGED <<which, authVars, gateVars, docVars, blobVars, recVars, quarVars,
                               vaultVars, homeVars, mergeVars, syncVars, schemaVars, hookVars,
                               idVars>>

Spec == Init /\ [][Next]_all /\ WF_all(ShutdownStep)

Symmetry == Permutations(Secrets) \cup Permutations(Tokens)

=============================================================================
