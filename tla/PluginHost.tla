----------------------------- MODULE PluginHost -----------------------------
(***************************************************************************)
(* The native plugin loader of apps/core, the connector route that calls   *)
(* into a plugin, and the shutdown sequence that unloads the plugins:      *)
(* apps/core/src/plugin_loader.rs, routes/connectors.rs, shutdown.rs and   *)
(* the two serve loops of main.rs.                                         *)
(*                                                                         *)
(* `trigger_sync` clones the plugin's Arc under the loader lock and calls  *)
(* `handle_route` after it has released the lock; `held` is that clone.    *)
(* `unload_all` keeps the loader lock for all of shutdown step 2, so while *)
(* `stage` is "plugins" no request gets a handle.  Without TLS the server  *)
(* waits for its in-flight requests before the shutdown sequence starts;   *)
(* `serve_tls` spawns its connections and waits for none of them.          *)
(***************************************************************************)
EXTENDS Naturals, Sequences, FiniteSets, SequencesExt

CONSTANTS Natives,        \* the ids of the registered plugins
          Syncs,          \* the POST /api/connectors/{id}/sync requests
          Syncing,        \* the plugins that declare a POST /sync route
          Free            \* no plugin

VARIABLES tls,            \* config.network.tls.enabled
          status,         \* PluginLoader.statuses
          stage,          \* where main is, one of Stages
          visiting,       \* what load_all / unload_all has still to visit
          busy,           \* the plugin whose on_unload is running, or Free
          held,           \* the handle a request holds: "idle", a plugin, "over"
          closed,         \* the plugins whose on_unload has returned
          bus             \* what the loader and the route have published

hostVars == <<tls, status, stage, visiting, busy, held, closed, bus>>

\* main from step 8 of the startup to the end of graceful_shutdown.
Stages == <<"loading", "serving", "draining", "transports", "plugins",
            "engine", "auth", "storage", "exited">>

After(s) == Stages[1 + CHOOSE i \in DOMAIN Stages : Stages[i] = s]

\* register: every plugin has its own id, its status is Registered.
HostInit ==
    /\ tls \in BOOLEAN
    /\ status = [p \in Natives |-> "registered"]
    /\ stage = "loading"
    /\ visiting = Natives
    /\ busy = Free
    /\ held = [r \in Syncs |-> "idle"]
    /\ closed = {}
    /\ bus = {}

\* Mutant: clones of the Arc are not looked for.
NoOutstanding(p) == FALSE

\* Arc::get_mut fails: somebody else holds a clone of the plugin's Arc.
Outstanding(p) == \E r \in Syncs : held[r] = p

\* load_plugin, for one plugin of load_all: one failure stops nobody else.
LoadPlugin(p, ok) ==
    /\ stage = "loading" /\ p \in visiting
    /\ visiting' = visiting \ {p}
    /\ IF Outstanding(p)
       THEN UNCHANGED <<status, bus>>
       ELSE /\ status' = [status EXCEPT ![p] = IF ok THEN "loaded" ELSE "failed"]
            /\ bus' = bus \cup {<<IF ok THEN "PluginLoaded" ELSE "PluginError", p>>}
    /\ UNCHANGED <<tls, stage, busy, held, closed>>

Serve ==
    /\ stage = "loading" /\ visiting = {}
    /\ stage' = "serving"
    /\ UNCHANGED <<tls, status, visiting, busy, held, closed, bus>>

\* Requests are answered while the server drains; a TLS connection is served by
\* a task of its own until the process is gone.
Answering == stage \in {"serving", "draining"} \/ (tls /\ stage \notin {"loading", "exited"})

\* The loader mutex is held by unload_all for the whole of its step.
LoaderFree == stage # "plugins"

\* get_plugin_info and get_plugin_arc, under one hold of the loader lock.
TriggerSync(r, p) ==
    /\ Answering /\ LoaderFree
    /\ held[r] = "idle"
    /\ held' = [held EXCEPT ![r] = IF status[p] = "loaded" /\ p \in Syncing THEN p ELSE "over"]
    /\ UNCHANGED <<tls, status, stage, visiting, busy, closed, bus>>

\* handle_route returns; the handle is dropped with the request.
SyncReturns(r, ok) ==
    /\ stage # "exited"
    /\ held[r] \in Natives
    /\ held' = [held EXCEPT ![r] = "over"]
    /\ bus' = IF ok THEN bus \cup {<<"SyncComplete", held[r]>>} ELSE bus
    /\ UNCHANGED <<tls, status, stage, visiting, busy, closed>>

\* SIGINT or SIGTERM: serve_tls breaks out of its loop, axum starts to drain.
Signal ==
    /\ stage = "serving"
    /\ stage' = IF tls THEN "transports" ELSE "draining"
    /\ UNCHANGED <<tls, status, visiting, busy, held, closed, bus>>

Drained ==
    /\ stage = "draining"
    /\ \A r \in Syncs : held[r] \notin Natives
    /\ stage' = "transports"
    /\ UNCHANGED <<tls, status, visiting, busy, held, closed, bus>>

\* run_step of steps 1, 3, 4 and 5: finished or timed out, the next one starts.
RunStep ==
    /\ stage \in {"transports", "engine", "auth", "storage"}
    /\ stage' = After(stage)
    /\ visiting' = IF stage' = "plugins" THEN Natives ELSE {}
    /\ UNCHANGED <<tls, status, busy, held, closed, bus>>

\* unload_plugin up to its await: a plugin somebody holds is skipped.
BeginUnload(p) ==
    /\ stage = "plugins" /\ busy = Free /\ p \in visiting
    /\ visiting' = visiting \ {p}
    /\ busy' = IF Outstanding(p) THEN Free ELSE p
    /\ UNCHANGED <<tls, status, stage, held, closed, bus>>

\* on_unload returns: Unloaded whatever it returned, the event only if Ok.
EndUnload(ok) ==
    /\ stage = "plugins" /\ busy # Free
    /\ status' = [status EXCEPT ![busy] = "unloaded"]
    /\ closed' = closed \cup {busy}
    /\ bus' = IF ok THEN bus \cup {<<"PluginUnloaded", busy>>} ELSE bus
    /\ busy' = Free
    /\ UNCHANGED <<tls, stage, visiting, held>>

\* Mutant: step 2 waits for every on_unload.
NoUnloadTimeout(timedOut) ==
    /\ stage = "plugins" /\ visiting = {} /\ busy = Free
    /\ stage' = "engine"
    /\ UNCHANGED <<tls, status, visiting, busy, held, closed, bus>>

\* Step 2 ends when everything was visited, or when its timeout drops the
\* future: an on_unload that was running is abandoned, its plugin stays Loaded.
UnloadStepEnds(timedOut) ==
    /\ stage = "plugins"
    /\ timedOut \/ (visiting = {} /\ busy = Free)
    /\ stage' = "engine"
    /\ visiting' = {}
    /\ busy' = Free
    /\ UNCHANGED <<tls, status, held, closed, bus>>

\* What the shutdown itself does once the signal has come.
Shutdown ==
    \/ Drained
    \/ RunStep
    \/ \E t \in BOOLEAN : UnloadStepEnds(t)

HostNext ==
    \/ \E p \in Natives, ok \in BOOLEAN : LoadPlugin(p, ok)
    \/ Serve
    \/ \E r \in Syncs, p \in Natives : TriggerSync(r, p)
    \/ \E r \in Syncs, ok \in BOOLEAN : SyncReturns(r, ok)
    \/ Signal
    \/ \E p \in Natives : BeginUnload(p)
    \/ \E ok \in BOOLEAN : EndUnload(ok)
    \/ Shutdown

\* Every step of the shutdown sequence runs under a timeout.
HostSpec == HostInit /\ [][HostNext]_hostVars /\ WF_hostVars(Shutdown)

-----------------------------------------------------------------------------
(* A request never runs handle_route in a plugin whose on_unload has       *)
(* returned: get_plugin_arc hands out loaded plugins only, and             *)
(* unload_plugin leaves a plugin alone while a clone of its Arc is out     *)
(* (plugin_loader.rs:372).  With TLS requests run all through the shutdown.*)
NoCallIntoUnloaded == \A r \in Syncs : held[r] \notin closed

(* Once the signal has come the process ends, whatever the plugins do: a   *)
(* transport, an on_unload or a checkpoint that hangs is left behind by    *)
(* the timeout of its step (shutdown.rs:85).  The one thing that can hold  *)
(* the shutdown up is axum's drain, which waits without a deadline for a   *)
(* request that is inside a plugin.                                        *)
ShutdownEnds ==
    stage \notin {"loading", "serving"} ~>
        (stage = "exited" \/ (stage = "draining" /\ \E p \in Natives : Outstanding(p)))

=============================================================================
