----------------------------- MODULE HttpFetch -----------------------------
(***************************************************************************)
(* The download scheduler, src/src/httpfetch.c.                            *)
(*                                                                         *)
(* A reload cycle walks the URL list in batches of at most npara parallel  *)
(* transfers.  The whole scheduler is one re-entrant function, handle_urls,*)
(* which the select loop and the reload-all key call over and over: a call *)
(* starts a cycle when none is running, lets libcurl advance the current   *)
(* batch, and once the whole batch is over settles it and loads the next   *)
(* one.  The cycle is over when no URL is left to load; the call that      *)
(* finds that out tells its caller whether unread articles came in.        *)
(*                                                                         *)
(* libcurl (not under src/) is the choice of what curl_multi_perform made  *)
(* of each transfer of the batch; what xmlproc_finish makes of a complete  *)
(* body is part of that choice.                                            *)
(***************************************************************************)
EXTENDS Integers, FiniteSets

CONSTANTS
    NUrls,           \* length of the URL list (urlparse)
    ParallelReload,  \* global_config.parallel_reload, "reload-threads"
    DlRetries        \* global_config.dl_retries, "download-retries"

ASSUME ConfigAssumption ==
    /\ NUrls \in Nat
    /\ ParallelReload \in Int
    /\ DlRetries \in Nat

VARIABLES
    cm,          \* data->cm # NULL: a cycle is running
    n_httperr,   \* per URL: -1 untried, 0 loaded or imported, k > 0 failures
    xfer,        \* per URL: its transfer in the current batch
    newentry,    \* data->newentry: unread articles came in during the cycle
    frees,       \* how often the buffers xh, ce and ula of the cycle were freed
    ret,         \* what the last handle_urls call returned
    tries,       \* history: downloads of each URL in the cycle, up to MaxTries
    got          \* history: the URLs imported in the cycle

vars == <<cm, n_httperr, xfer, newentry, frees, ret, tries, got>>

Urls == 1 .. NUrls

(* http_fetch_init falls back to 5 for the allocations only: data->npara,  *)
(* which load_new_handles reads, keeps its zero of http_init.              *)
npara == IF ParallelReload > 0 THEN ParallelReload ELSE 0

(* How a transfer ends: the connection timed out, libcurl reported another *)
(* error, the body was empty or no well-formed XML, or the feed was        *)
(* imported without or with unread articles that were not there before.    *)
Outcome == {"timeout", "error", "malformed", "nothing_new", "unread"}
Imported == {"nothing_new", "unread"}

(* Bound of the history variable tries: more than any count the code may   *)
(* reach for a URL it never imports.                                       *)
MaxTries == DlRetries + 2

(* The URLs whose transfer is in the current batch (slots 0 .. anp-1).     *)
Batch(x) == {u \in Urls : x[u] # "none"}

TypeOK ==
    /\ cm \in BOOLEAN
    /\ n_httperr \in [Urls -> Int]
    /\ xfer \in [Urls -> {"none", "running"} \cup Outcome]
    /\ newentry \in BOOLEAN
    /\ frees \in Nat
    /\ ret \in {-1, 0, 1}
    /\ tries \in [Urls -> 0 .. MaxTries]
    /\ got \subseteq Urls

-----------------------------------------------------------------------------

(* Neither imported nor given up: load_new_handles walks past the others.  *)
Eligible_Imported(err) == {u \in Urls : err[u] < DlRetries}   \* mutant: no test for 0
Eligible_NoRetry(err) == {u \in Urls : err[u] < 0}           \* mutant: failures left out
Eligible(err) == {u \in Urls : err[u] < 0 \/ (err[u] # 0 /\ err[u] < DlRetries)}

(* load_new_handles takes the first npara eligible URLs in list order, or  *)
(* all of them when there are fewer.                                       *)
IsNextBatch_All(B, err) == B = Eligible(err)     \* mutant: no limit
IsNextBatch(B, err) ==
    /\ B \subseteq Eligible(err)
    /\ Cardinality(B) <= npara
    /\ B = Eligible(err) \/ Cardinality(B) = npara
    /\ \A u \in B, v \in Eligible(err) : v < u => v \in B

(* The error counts and transfers after B was loaded.                      *)
Loaded_Untouched(B, err) == err                  \* mutant: still untried
Loaded(B, err) == [u \in Urls |-> IF u \in B /\ err[u] < 0 THEN 0 ELSE err[u]]
Handles(B) == [u \in Urls |-> IF u \in B THEN "running" ELSE "none"]

(* curl_multi_perform may end any of the running transfers, in any way.    *)
Performed(x) ==
    LET active == {u \in Urls : x[u] = "running"}
    IN {[u \in Urls |-> IF u \in active THEN f[u] ELSE x[u]] :
            f \in [active -> {"running"} \cup Outcome]}

BatchOver(x) == \A u \in Urls : x[u] # "running"

(* finish_batch: what the end of its transfer makes of a URL's count.      *)
Settled_Once(x, err) ==                          \* mutant: never above 1
    [u \in Urls |-> IF x[u] \in {"timeout", "malformed"} THEN 1 ELSE err[u]]
Settled(x, err) ==
    [u \in Urls |->
        CASE x[u] \in {"timeout", "malformed"} -> IF err[u] < 0 THEN 1 ELSE err[u] + 1
          [] x[u] = "error" -> DlRetries
          [] OTHER -> err[u]]

Ended(x, how) == {u \in Urls : x[u] \in how}

CountTries(B, t) == [u \in Urls |-> IF u \in B /\ t[u] < MaxTries THEN t[u] + 1 ELSE t[u]]

(* cleanup_handles frees the buffers, after f times before.                *)
CleanupHandles(f) == f + 1

(* load_new_handles; when it loads nothing it calls cleanup_handles.       *)
LoadNewHandles(err, f, t) ==
    \E B \in SUBSET Urls :
        /\ IsNextBatch(B, err)
        /\ n_httperr' = Loaded(B, err)
        /\ xfer' = Handles(B)
        /\ tries' = CountTries(B, t)
        /\ cm' = (B # {})
        /\ frees' = IF B = {} THEN CleanupHandles(f) ELSE f

Returns == ret' = IF cm' THEN -1 ELSE IF newentry' THEN 1 ELSE 0

(* The rest of a handle_urls call, from a batch x with counts err on: the  *)
(* transfers advance, and some are still running ...                       *)
BatchRuns(x, err, new, f, t, g) ==
    \E y \in Performed(x) :
        /\ ~BatchOver(y)
        /\ cm' = TRUE
        /\ n_httperr' = err
        /\ xfer' = y
        /\ newentry' = new
        /\ frees' = f
        /\ tries' = t
        /\ got' = g
        /\ Returns

(* ... or the batch is over: finish_batch settles it, the next is loaded.  *)
BatchEnds_LastNews(x, err, new, f, t, g) ==      \* mutant: = for |=
    \E y \in Performed(x) :
        /\ BatchOver(y)
        /\ newentry' = (Ended(y, {"unread"}) # {})
        /\ got' = g \cup Ended(y, Imported)
        /\ LoadNewHandles(Settled(y, err), f, t)
        /\ Returns
BatchEnds(x, err, new, f, t, g) ==
    \E y \in Performed(x) :
        /\ BatchOver(y)
        /\ newentry' = (new \/ Ended(y, {"unread"}) # {})
        /\ got' = g \cup Ended(y, Imported)
        /\ LoadNewHandles(Settled(y, err), f, t)
        /\ Returns

(* http_fetch_init: every URL is to be downloaded again.                   *)
Untried_Kept == n_httperr                     \* mutant: no reset
Untried == [u \in Urls |-> -1]

(* handle_urls with no cycle running: http_fetch_init, load_new_handles.   *)
(* An empty first batch has already been cleaned up when it is processed:  *)
(* libcurl has no transfer for the NULL multi handle, so the batch is over *)
(* and loading the next one cleans up a second time.                       *)
StartCycle ==
    /\ ~cm
    /\ \E B \in SUBSET Urls :
          /\ IsNextBatch(B, Untried)
          /\ LET err == Loaded(B, Untried)
                 f == IF B = {} THEN CleanupHandles(0) ELSE 0
                 t == CountTries(B, [u \in Urls |-> 0])
             IN \/ BatchRuns(Handles(B), err, FALSE, f, t, {})
                \/ BatchEnds(Handles(B), err, FALSE, f, t, {})

(* handle_urls while a cycle is running.                                   *)
StillRunning == cm /\ BatchRuns(xfer, n_httperr, newentry, frees, tries, got)
NextBatch == cm /\ BatchEnds(xfer, n_httperr, newentry, frees, tries, got)

HandleUrls == StartCycle \/ StillRunning \/ NextBatch

(* http_init: no cycle yet; urlparse leaves every count at -1.             *)
Init ==
    /\ cm = FALSE
    /\ n_httperr = [u \in Urls |-> -1]
    /\ xfer = [u \in Urls |-> "none"]
    /\ newentry = FALSE
    /\ frees = 0
    /\ ret = 0
    /\ tries = [u \in Urls |-> 0]
    /\ got = {}

Next == HandleUrls

Spec == Init /\ [][Next]_vars

-----------------------------------------------------------------------------

(* The configurations the scheduler works in: a URL list that is not empty *)
(* and a positive reload-threads.                                          *)
UsableConfig == NUrls > 0 /\ ParallelReload > 0

(* A URL counts as loaded only when it was downloaded in this cycle, and   *)
(* without an error only while its transfer runs or once it was imported   *)
(* (for DlRetries = 0 an error leaves no trace in the count).              *)
Accounted(x, err, t, g) ==
    \A u \in Urls : err[u] >= 0 =>
        /\ t[u] > 0
        /\ err[u] = 0 => u \in g \cup Batch(x) \/ DlRetries = 0

(* The downloads of a URL that was not imported are bounded by its errors. *)
Counted(x, err, t, g) ==
    \A u \in Urls \ g :
        IF u \in Batch(x)
        THEN t[u] <= err[u] + 1 /\ (err[u] = 0 \/ err[u] < DlRetries)
        ELSE /\ err[u] < 0 => t[u] = 0
             /\ err[u] >= 0 /\ err[u] < DlRetries => t[u] <= err[u]
             /\ t[u] <= IF DlRetries > 1 THEN DlRetries ELSE 1

(* What loading, advancing and settling a batch keep of it.                *)
Sound(x, err, t, g) ==
    /\ Cardinality(Batch(x)) <= npara
    /\ \A u \in Batch(x) : err[u] >= 0
    /\ Accounted(x, err, t, g)
    /\ Counted(x, err, t, g)

(* The buffers the transfers write to are alive while a cycle runs, and    *)
(* cleanup_handles frees them once per cycle: the reset in http_fetch_init *)
(* makes the first batch of a cycle non-empty.                             *)
FreedOnce ==
    UsableConfig => frees <= 1 /\ (cm => frees = 0)

(* The inductive invariant: a cycle runs exactly while handles are in use, *)
(* at most reload-threads of them, the error counts of the URL list agree  *)
(* with the downloads made, and the buffers are alive.                     *)
Inv ==
    /\ cm <=> Batch(xfer) # {}
    /\ Sound(xfer, n_httperr, tries, got)
    /\ FreedOnce

(* handle_urls reports the end of a cycle only when every URL of the list  *)
(* was downloaded in it, and was imported or used up its retries.          *)
CycleOver ==
    UsableConfig /\ ~cm' =>
        \A u \in Urls : tries'[u] > 0 /\ (u \in got' \/ n_httperr'[u] >= DlRetries)
CycleComplete == [][CycleOver]_vars

(* A URL that is never imported is downloaded at most DlRetries times (but *)
(* once for DlRetries = 0): each failed download is counted exactly once.  *)
RetriesBounded ==
    \A u \in Urls \ got : tries[u] <= IF DlRetries > 1 THEN DlRetries ELSE 1

(* Only failed downloads are retried: what was imported in this cycle is   *)
(* not downloaded again in it (share/config.sample, download-retries).     *)
OnlyFailuresRetried == \A u \in got : xfer[u] = "none"

(* With one download per URL every batch but the first takes some of the   *)
(* URLs that were not tried before it, and gives none back: load after     *)
(* load, the cycle comes closer to its end.                                *)
NotTried == {u \in Urls : n_httperr[u] < 0}
BatchesProgress ==
    [][DlRetries <= 1 /\ NextBatch /\ cm'
        => NotTried' \subseteq NotTried /\ NotTried' # NotTried]_vars
=============================================================================
