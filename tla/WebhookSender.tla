---------------------------- MODULE WebhookSender ----------------------------
(***************************************************************************)
(* The webhook sender (plugins/engine/webhook-sender/src/lib.rs) with the  *)
(* retry state of the plugin SDK (packages/plugin-sdk-rs/src/retry.rs):    *)
(* one call of handle_event posts an event to the matching subscriptions   *)
(* one after the other, retrying each with a growing pause, under a rate   *)
(* limit per URL and one deadline for the whole call.                      *)
(*                                                                         *)
(* handle_event borrows the plugin, so the subscriptions change only       *)
(* between two events.  Time is counted in seconds from the start of the   *)
(* call.  What is signed and posted is left out, and so is the delivery    *)
(* log, which handle_event does not write.                                 *)
(***************************************************************************)
EXTENDS Naturals, Sequences, FiniteSetsExt

CONSTANTS
    Urls,
    MaxSubs,        \* bound on the subscriptions
    MaxRetries,     \* max_retries, 5 by default
    RequestTimeout, \* request_timeout_secs, 30 by default
    TotalTimeout,   \* total_timeout_secs, 300 by default
    BackoffMax,     \* 60 in the code; the first pause is 1
    Rate, Burst     \* tokens per second and the capacity of a bucket, 10 and 20

VARIABLES
    subs,       \* the subscriptions' URLs, in order
    queue,      \* the matching subscriptions still to be served
    step,       \* "idle", "acquire", "attempt" or "send"
    failed,     \* retry_state.failure_count of the first in the queue
    elapsed,    \* time since handle_event began
    buckets     \* the rate limiter: tokens and last refill of each URL

hookVars == <<subs, queue, step, failed, elapsed, buckets>>

FullBuckets == [u \in Urls |-> [tokens |-> Burst, refilled |-> 0]]

HookInit ==
    /\ subs = <<>> /\ queue = {} /\ step = "idle"
    /\ failed = 0 /\ elapsed = 0
    /\ buckets = FullBuckets

-----------------------------------------------------------------------------
Subscribe(u) ==
    /\ step = "idle" /\ Len(subs) < MaxSubs
    /\ subs' = Append(subs, u)
    /\ UNCHANGED <<queue, step, failed, elapsed, buckets>>

Unsubscribe(i) ==
    /\ step = "idle"
    /\ subs' = SubSeq(subs, 1, i - 1) \o SubSeq(subs, i + 1, Len(subs))
    /\ UNCHANGED <<queue, step, failed, elapsed, buckets>>

\* matching_subscriptions: the active ones with the event's type.
HandleEvent(matching) ==
    /\ step = "idle" /\ matching # {}
    /\ queue' = matching /\ step' = "acquire"
    /\ failed' = 0 /\ elapsed' = 0 /\ buckets' = FullBuckets
    /\ UNCHANGED subs

\* The subscription at hand, and the step to the next one or out of the call.
Current == Min(queue)
NextSub ==
    /\ queue' = queue \ {Current}
    /\ step' = IF queue = {Current} THEN "idle" ELSE "acquire"

\* RateLimiter::acquire: refill lazily, take a token or skip the subscription.
Acquire ==
    /\ step = "acquire"
    /\ LET url == subs[Current]
           filled == Min({Burst, buckets[url].tokens + (elapsed - buckets[url].refilled) * Rate})
       IN  IF filled >= 1
           THEN /\ buckets' = [buckets EXCEPT ![url] = [tokens |-> filled - 1, refilled |-> elapsed]]
                /\ step' = "attempt" /\ failed' = 0
                /\ UNCHANGED queue
           ELSE /\ buckets' = [buckets EXCEPT ![url] = [tokens |-> filled, refilled |-> elapsed]]
                /\ NextSub
                /\ UNCHANGED failed
    /\ UNCHANGED <<subs, elapsed>>

\* The deadline is tested before every attempt.
Attempt ==
    /\ step = "attempt"
    /\ IF elapsed >= TotalTimeout THEN NextSub ELSE step' = "send" /\ UNCHANGED queue
    /\ UNCHANGED <<subs, failed, elapsed, buckets>>

\* Mutant: the pause is not capped.
UncappedBackoff(failures) == 2 ^ (failures - 1)
compute_backoff(failures) == Min({BackoffMax, 2 ^ (failures - 1)})

\* deliver: a 2xx answer within the client's timeout.
HookDelivered(took) ==
    /\ step = "send"
    /\ elapsed' = elapsed + took
    /\ NextSub
    /\ UNCHANGED <<subs, failed, buckets>>

\* Any other answer or none: pause and try again while retries are left.
DeliveryFailed(took) ==
    /\ step = "send"
    /\ failed' = failed + 1
    /\ IF failed + 1 < MaxRetries
       THEN /\ elapsed' = elapsed + took + compute_backoff(failed + 1)
            /\ step' = "attempt"
            /\ UNCHANGED queue
       ELSE /\ elapsed' = elapsed + took
            /\ NextSub
    /\ UNCHANGED <<subs, buckets>>

HookNext ==
    \/ \E u \in Urls : Subscribe(u)
    \/ \E i \in DOMAIN subs : Unsubscribe(i)
    \/ \E matching \in SUBSET DOMAIN subs : HandleEvent(matching)
    \/ Acquire \/ Attempt
    \/ \E took \in 0 .. RequestTimeout : HookDelivered(took) \/ DeliveryFailed(took)

HookSpec == HookInit /\ [][HookNext]_hookVars

-----------------------------------------------------------------------------
(* What must hold *)

\* However many subscriptions an event matches, and however their attempts
\* time out, the call outlasts its deadline by at most one request and one
\* pause: after the deadline every remaining subscription is passed over
\* without waiting, and no pause is longer than the cap.
EventHandledInTime ==
    step # "idle" => elapsed < TotalTimeout + RequestTimeout + BackoffMax
=============================================================================
