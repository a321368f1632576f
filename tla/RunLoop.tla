------------------------------ MODULE RunLoop ------------------------------
(***************************************************************************)
(* The select loop of src/src/ui/view.c (run_ui, refresh_all) around the   *)
(* download scheduler of HttpFetch.                                        *)
(*                                                                         *)
(* One thread does everything: it waits in select for a key, a socket of   *)
(* libcurl or a time-out, works off the key, and then calls handle_urls if *)
(* select returned for anything else as well.  The time-out is short while *)
(* a cycle runs (http_get_fds, http_get_timeout), the rest of reload-time  *)
(* when none does and auto-reload is set, and infinite otherwise.  The     *)
(* reload-all key calls handle_urls itself, and the exit key may block the *)
(* loop in getch for an answer.                                            *)
(*                                                                         *)
(* The other keys change the list only (MainWindow); with respect to the   *)
(* variables here a return of select for them is Woken or a stutter.  So   *)
(* is the return with EINTR when the terminal is resized.                  *)
(***************************************************************************)
EXTENDS HttpFetch

CONSTANTS
    AutoReload,     \* global_config.auto_reload
    ConfirmExit,    \* global_config.confirm_exit
    NotifyBeep,     \* global_config.notify_beep
    WaitTime        \* waittime: reload-time, in units of the model's clock

ASSUME LoopAssumption ==
    /\ AutoReload \in BOOLEAN
    /\ ConfirmExit \in BOOLEAN
    /\ NotifyBeep \in BOOLEAN
    /\ WaitTime \in Nat

VARIABLES
    phase,      \* where run_ui is: before its loop, in select, before the
                \* call of handle_urls, in the getch of the exit question, gone
    ready,      \* sret-found > 0, kept while the exit question is asked
    elapsed,    \* time since last_time, up to WaitTime
    beep        \* the last step made the terminal beep

loopvars == <<vars, phase, ready, elapsed, beep>>

LoopTypeOK ==
    /\ TypeOK
    /\ phase \in {"start", "select", "confirm", "fetch", "exit"}
    /\ ready \in BOOLEAN
    /\ elapsed \in 0 .. WaitTime
    /\ beep \in BOOLEAN

-----------------------------------------------------------------------------

(* http_get_fds and the time-out of select: without a cycle the loop only  *)
(* waits for keys, and for the end of reload-time with auto-reload.        *)
TimerDue_Manual == ~AutoReload /\ elapsed >= WaitTime    \* mutant: inverted test
TimerDue == AutoReload /\ elapsed >= WaitTime
Wakes == cm \/ TimerDue

(* After the key: handle_urls only if select returned for more than it.    *)
AfterKey(more) == IF more THEN "fetch" ELSE "select"

(* A call of handle_urls that ends a cycle beeps if there is news; one     *)
(* that does not returns -1.                                               *)
Beeps == beep' = (ret' > 0 /\ NotifyBeep)

(* Before the loop: auto-reload calls handle_urls, its result is dropped.  *)
Start ==
    /\ phase = "start"
    /\ IF AutoReload THEN HandleUrls ELSE UNCHANGED vars
    /\ phase' = "select"
    /\ elapsed' = 0
    /\ UNCHANGED <<ready, beep>>

(* select returns without a key, or with one that only changes the list    *)
(* and a socket that is ready as well.                                     *)
Woken ==
    /\ phase = "select"
    /\ Wakes
    /\ phase' = "fetch"
    /\ beep' = FALSE
    /\ UNCHANGED <<vars, ready, elapsed>>

(* The key reload-all (refresh_all).  Sockets are ready beside it only     *)
(* while a cycle runs; last_time is not set when its call ends the cycle.  *)
RefreshAll ==
    /\ phase = "select"
    /\ HandleUrls
    /\ Beeps
    /\ \E more \in {FALSE, cm} : phase' = AfterKey(more)
    /\ UNCHANGED <<ready, elapsed>>

(* The exit key, and the answer to its question.                           *)
ExitKey ==
    /\ phase = "select"
    /\ phase' = IF ConfirmExit THEN "confirm" ELSE "exit"
    /\ ready' \in {FALSE, cm}
    /\ beep' = FALSE
    /\ UNCHANGED <<vars, elapsed>>

Answer ==
    /\ phase = "confirm"
    /\ phase' \in {"exit", AfterKey(ready)}
    /\ ready' = FALSE
    /\ beep' = FALSE
    /\ UNCHANGED <<vars, elapsed>>

(* The call of handle_urls at the end of a pass of the loop.               *)
FetchBy(call) ==
    /\ phase = "fetch"
    /\ call
    /\ Beeps
    /\ elapsed' = IF ret' >= 0 THEN 0 ELSE elapsed
    /\ phase' = "select"
    /\ UNCHANGED ready
Fetch == FetchBy(HandleUrls)

(* The clock.  It only matters up to WaitTime.                             *)
Tick ==
    /\ AutoReload /\ phase \notin {"start", "exit"}
    /\ elapsed < WaitTime
    /\ elapsed' = elapsed + 1
    /\ beep' = FALSE
    /\ UNCHANGED <<vars, phase, ready>>

LoopInit ==
    /\ Init
    /\ phase = "start"
    /\ ready = FALSE
    /\ elapsed = 0
    /\ beep = FALSE

LoopNext == Start \/ Woken \/ RefreshAll \/ ExitKey \/ Answer \/ Fetch \/ Tick

LoopSpec == LoopInit /\ [][LoopNext]_loopvars

(* The program keeps running, time passes, and a question is answered.     *)
(* select does not return for keys alone for ever: a socket that is ready  *)
(* or a time-out that is over gets its turn between keys.  Every transfer  *)
(* ends some day, so that some call finds the whole batch over; the code   *)
(* sets no transfer time-out, this is assumed of the servers.              *)
FetchEndsBatch == FetchBy(NextBatch)

LoopFairness ==
    /\ WF_loopvars(Start) /\ WF_loopvars(Fetch)
    /\ WF_loopvars(Tick) /\ WF_loopvars(Answer)
    /\ SF_loopvars(Woken)
    /\ SF_loopvars(FetchEndsBatch)

LoopFairSpec == LoopSpec /\ LoopFairness

-----------------------------------------------------------------------------

(* A cycle ends, whatever keys are pressed meanwhile and however many of   *)
(* the calls that advance it come from the reload-all key, unless the user *)
(* leaves the program first.                                               *)
ReloadEnds == cm ~> (~cm \/ phase = "exit")

(* With auto-reload, handle_urls is called again and again: a cycle runs,  *)
(* or the loop is about to start one (view.c, the time-out of select), as  *)
(* long as the user does not leave the program.                            *)
ReloadsRecur == AutoReload => []<>(cm \/ phase \in {"fetch", "exit"})

(* Unread articles that came in with any batch of a cycle make the         *)
(* terminal beep when it is over (notify-beep), if the cycle outlives the  *)
(* call that started it.                                                   *)
NewsAnnounced ==
    NotifyBeep => ((cm /\ newentry) ~> (beep \/ phase = "exit"))

(* The loop itself starts a cycle only when auto-reload is on and its time *)
(* has come (share/config.sample, auto-reload and reload-time).            *)
ReloadsAsked == [][Fetch /\ ~cm => TimerDue]_loopvars

-----------------------------------------------------------------------------

(* How far the scheduler is with a URL, read off its handle and its count. *)
StatusOf(u) ==
    CASE xfer[u] # "none" -> "loading"
      [] xfer[u] = "none" /\ n_httperr[u] < 0 -> "waiting"
      [] xfer[u] = "none" /\ n_httperr[u] = 0 -> "imported"
      [] OTHER -> "failed"

Cycle == INSTANCE ReloadCycle WITH
    Parallel <- ParallelReload,
    running <- cm /\ phase # "exit",
    quit <- phase = "exit",
    status <- [u \in Urls |-> StatusOf(u)]

(* With the default of one download per URL the select loop and its        *)
(* scheduler implement the abstract reload: once per URL, in bounded       *)
(* parallel, and to its end unless the program ends.                       *)
ImplementsReloadCycle == Cycle!Spec
=============================================================================
