--------------------------- MODULE RunLoopProofs ---------------------------
(***************************************************************************)
(* What the select loop does to the download scheduler: it only calls      *)
(* handle_urls, so whatever holds of the scheduler under any sequence of   *)
(* calls (HttpFetchProofs) holds in the program, for every list of URLs,   *)
(* every setting and every sequence of keys.                               *)
(***************************************************************************)
EXTENDS RunLoop, HttpFetchProofs

(* A step of the loop calls handle_urls once or leaves the scheduler alone.*)
LEMMA LoopStep == [LoopNext]_loopvars => [Next]_vars
  <1> SUFFICES ASSUME [LoopNext]_loopvars
               PROVE  HandleUrls \/ UNCHANGED vars
    BY DEF Next
  <1>1. CASE Start
    BY <1>1 DEF Start
  <1>2. CASE Woken \/ ExitKey \/ Answer \/ Tick
    BY <1>2 DEF Woken, ExitKey, Answer, Tick
  <1>3. CASE RefreshAll \/ Fetch
    BY <1>3 DEF RefreshAll, Fetch, FetchBy
  <1>4. CASE UNCHANGED loopvars
    BY <1>4 DEF loopvars
  <1> QED
    BY <1>1, <1>2, <1>3, <1>4 DEF LoopNext

(* The program implements the specification of its scheduler.              *)
THEOREM LoopImplementsFetch == LoopSpec => Spec
  <1>1. LoopInit => Init
    BY DEF LoopInit
  <1> QED
    BY <1>1, LoopStep, PTL DEF LoopSpec, Spec

(* The clock of the loop stays within reload-time.                         *)
LEMMA LoopClock ==
  ASSUME elapsed \in 0 .. WaitTime, [LoopNext]_loopvars
  PROVE  elapsed' \in 0 .. WaitTime
  <1>1. WaitTime \in Nat
    BY LoopAssumption
  <1>2. CASE Start \/ Fetch
    BY <1>1, <1>2 DEF Start, Fetch, FetchBy
  <1>3. CASE Woken \/ RefreshAll \/ ExitKey \/ Answer
    BY <1>3 DEF Woken, RefreshAll, ExitKey, Answer
  <1>4. CASE Tick
    BY <1>1, <1>4 DEF Tick
  <1>5. CASE UNCHANGED loopvars
    BY <1>5 DEF loopvars
  <1> QED
    BY <1>2, <1>3, <1>4, <1>5 DEF LoopNext

(* Its flags stay Boolean.                                                 *)
LEMMA LoopFlags ==
  ASSUME cm \in BOOLEAN, ready \in BOOLEAN, beep \in BOOLEAN,
         [LoopNext]_loopvars
  PROVE  ready' \in BOOLEAN /\ beep' \in BOOLEAN
  <1>1. Beeps => beep' \in BOOLEAN
    BY LoopAssumption DEF Beeps
  <1>2. CASE Start
    BY <1>2, Zenon DEF Start
  <1>3. CASE Woken \/ Tick
    BY <1>3, Zenon DEF Woken, Tick
  <1>4. CASE RefreshAll \/ Fetch
    BY <1>1, <1>4, Zenon DEF RefreshAll, Fetch, FetchBy
  <1>5. CASE ExitKey
    BY <1>5, Zenon DEF ExitKey
  <1>6. CASE Answer
    BY <1>6, Zenon DEF Answer
  <1>7. CASE UNCHANGED loopvars
    BY <1>7 DEF loopvars
  <1> QED
    BY <1>2, <1>3, <1>4, <1>5, <1>6, <1>7 DEF LoopNext

(* And it stays at one of its places.                                      *)
LEMMA LoopPlaces ==
  ASSUME phase \in {"start", "select", "confirm", "fetch", "exit"},
         [LoopNext]_loopvars
  PROVE  phase' \in {"start", "select", "confirm", "fetch", "exit"}
  <1>1. \A more : AfterKey(more) \in {"select", "fetch"}
    BY DEF AfterKey
  <1>2. CASE Start \/ Fetch \/ Tick
    BY <1>2 DEF Start, Fetch, FetchBy, Tick
  <1>3. CASE Woken \/ RefreshAll \/ ExitKey \/ Answer
    BY <1>1, <1>3 DEF Woken, RefreshAll, ExitKey, Answer
  <1>4. CASE UNCHANGED loopvars
    BY <1>4 DEF loopvars
  <1> QED
    BY <1>2, <1>3, <1>4 DEF LoopNext

(* The state of the loop is well typed.                                    *)
THEOREM LoopTypeCorrect == LoopSpec => []LoopTypeOK
  <1>1. ASSUME LoopInit
        PROVE  LoopTypeOK
    <2>1. TypeOK
      BY <1>1, InitInv DEF LoopInit
    <2>2. elapsed \in 0 .. WaitTime
      BY <1>1, LoopAssumption DEF LoopInit
    <2>3. ready \in BOOLEAN /\ beep \in BOOLEAN
      BY <1>1, Zenon DEF LoopInit
    <2> QED
      BY <1>1, <2>1, <2>2, <2>3 DEF LoopInit, LoopTypeOK
  <1>2. ASSUME LoopTypeOK, TypeOK', [LoopNext]_loopvars
        PROVE  LoopTypeOK'
    <2>1. cm \in BOOLEAN
      BY <1>2 DEF LoopTypeOK, TypeOK
    <2> QED
      BY <1>2, <2>1, LoopClock, LoopFlags, LoopPlaces DEF LoopTypeOK
  <1> QED
    BY <1>1, <1>2, LoopImplementsFetch, TypeCorrect, PTL DEF LoopSpec

(* In the program, too, the buffers of a cycle are freed once and never    *)
(* while they are in use, whichever of its three places calls handle_urls. *)
THEOREM LoopFreesOnce == LoopSpec => []FreedOnce
  BY LoopImplementsFetch, BuffersFreedOnce, PTL

(* And no cycle is over, for the user, with a URL that was neither         *)
(* imported nor given up.                                                  *)
THEOREM LoopCyclesComplete == LoopSpec => CycleComplete
  BY LoopImplementsFetch, CyclesComplete, PTL

(* Nor does a cycle load a batch in vain, whoever asked for it.            *)
THEOREM LoopBatchesAdvance == LoopSpec => BatchesProgress
  BY LoopImplementsFetch, BatchesAdvance, PTL

-----------------------------------------------------------------------------

(* Before the loop no cycle runs.                                          *)
NoneYet == phase = "start" => ~cm

(* The loop is never back at its start.                                    *)
LEMMA NoneYetStep ==
  ASSUME NoneYet, [LoopNext]_loopvars
  PROVE  NoneYet'
  <1>1. \A more : AfterKey(more) # "start"
    BY DEF AfterKey
  <1>2. CASE Start \/ Fetch \/ Woken
    BY <1>2 DEF Start, Fetch, FetchBy, Woken, NoneYet
  <1>3. CASE RefreshAll \/ ExitKey \/ Answer
    BY <1>1, <1>3 DEF RefreshAll, ExitKey, Answer, NoneYet
  <1>4. CASE Tick \/ UNCHANGED loopvars
    BY <1>4 DEF Tick, loopvars, vars, NoneYet
  <1> QED
    BY <1>2, <1>3, <1>4 DEF LoopNext

(* A call during a cycle with news keeps the news, and returns them with   *)
(* the end of the cycle.                                                   *)
LEMMA CallKeepsNews ==
  ASSUME cm, newentry, HandleUrls
  PROVE  newentry' /\ (cm' \/ ret' = 1)
  <1>1. CASE StillRunning
    BY <1>1 DEF StillRunning, BatchRuns
  <1>2. CASE NextBatch
    <2>1. newentry' /\ Returns
      BY <1>2 DEF NextBatch, BatchEnds
    <2> QED
      BY <2>1 DEF Returns
  <1> QED
    BY <1>1, <1>2 DEF HandleUrls, StartCycle

(* So the news of a cycle stay with it until the terminal beeps or the     *)
(* user leaves.                                                            *)
News == cm /\ newentry /\ phase # "exit"
LEMMA NewsStep ==
  ASSUME NotifyBeep, NoneYet, News, [LoopNext]_loopvars
  PROVE  News' \/ beep' \/ phase' = "exit"
  <1>1. phase # "start"
    BY DEF NoneYet, News
  <1>2. CASE Woken \/ ExitKey \/ Answer \/ Tick
    BY <1>2 DEF Woken, ExitKey, Answer, Tick, vars, News
  <1>3. CASE RefreshAll \/ Fetch
    <2>1. HandleUrls /\ Beeps
      BY <1>3 DEF RefreshAll, Fetch, FetchBy
    <2>2. newentry' /\ (cm' \/ ret' = 1)
      BY <2>1, CallKeepsNews DEF News
    <2>3. ret' = 1 => beep' = (ret' > 0 /\ NotifyBeep)
      BY <2>1 DEF Beeps
    <2>4. ret' = 1 => ret' > 0
      OBVIOUS
    <2>5. ret' = 1 => beep'
      BY <2>3, <2>4, Zenon
    <2> QED
      BY <2>2, <2>5 DEF News
  <1>4. CASE UNCHANGED loopvars
    BY <1>4 DEF loopvars, vars, News
  <1> QED
    BY <1>1, <1>2, <1>3, <1>4 DEF LoopNext, Start

(* Where cycles end, the news of a cycle are announced, whichever batch    *)
(* brought them and whichever call finds the cycle over.                   *)
THEOREM EndedNewsAnnounced == LoopSpec /\ ReloadEnds => NewsAnnounced
  <1>1. LoopInit => NoneYet
    BY DEF LoopInit, Init, NoneYet
  <1>2. NoneYet /\ [LoopNext]_loopvars => NoneYet'
    BY NoneYetStep
  <1>3. NotifyBeep /\ NoneYet /\ News /\ [LoopNext]_loopvars
          => News' \/ (beep \/ phase = "exit")'
    BY NewsStep
  <1>4. /\ cm /\ newentry => News \/ phase = "exit"
        /\ News => cm /\ phase # "exit"
    BY DEF News
  <1>5. NotifyBeep => [](NotifyBeep)
    <2>1. NotifyBeep => NotifyBeep'
      OBVIOUS
    <2> QED
      BY <2>1, PTL
  <1> QED
    BY <1>1, <1>2, <1>3, <1>4, <1>5, PTL DEF LoopSpec, ReloadEnds, NewsAnnounced

-----------------------------------------------------------------------------

(* The select loop and its scheduler against the reload that ReloadCycle   *)
(* promises: every step is one of its steps or changes nothing it can see. *)

(* What the mapping makes of a URL.                                        *)
Far == [u \in Urls |-> StatusOf(u)]
FarIs(far, x, err) ==
    \A u \in Urls :
        /\ far[u] \in {"waiting", "loading", "imported", "failed"}
        /\ far[u] = "loading" <=> x[u] # "none"
        /\ far[u] = "waiting" <=> x[u] = "none" /\ err[u] < 0
        /\ far[u] = "imported" <=> x[u] = "none" /\ ~(err[u] < 0) /\ err[u] = 0

(* How far each URL is, in this state and the next.                        *)
LEMMA FarFacts ==
  /\ Far \in [Urls -> Cycle!Status] /\ FarIs(Far, xfer, n_httperr)
  /\ Far' \in [Urls -> Cycle!Status] /\ FarIs(Far', xfer', n_httperr')
  <1>1. Far \in [Urls -> Cycle!Status] /\ FarIs(Far, xfer, n_httperr)
    BY DEF Far, FarIs, StatusOf, Cycle!Status, Cycle!Final
  <1>2. Far' \in [Urls -> Cycle!Status] /\ FarIs(Far', xfer', n_httperr')
    BY DEF Far, FarIs, StatusOf, Cycle!Status, Cycle!Final
  <1> QED
    BY <1>1, <1>2

(* A call that advances or ends a batch moves every URL onward from where  *)
(* it was with that batch, and ends the cycle only when all are through.   *)
LEMMA CallMoves ==
  ASSUME NEW x \in Transfers, NEW err \in Errors, NEW new, NEW f, NEW t, NEW g,
         NEW from, FarIs(from, x, err), DlRetries = 1, UsableConfig,
         \A u \in Batch(x) : err[u] >= 0, Inv', n_httperr' \in Errors,
         BatchRuns(x, err, new, f, t, g) \/ BatchEnds(x, err, new, f, t, g)
  PROVE  /\ \A u \in Urls : Far'[u] \in Cycle!Onward(from[u])
         /\ ~cm' => \A u \in Urls : Far'[u] \in Cycle!Final
  <1>1. FarIs(Far', xfer', n_httperr')
    BY FarFacts
  <1>2. \A u \in Urls : err[u] \in Int /\ n_httperr'[u] \in Int
    BY DEF Errors
  <1>3. CASE BatchRuns(x, err, new, f, t, g)
    <2>1. PICK y \in Performed(x) : xfer' = y /\ n_httperr' = err /\ cm'
      BY <1>3 DEF BatchRuns
    <2>2. \A u \in Urls : xfer'[u] = "none" <=> x[u] = "none"
      <3>1. y \in Transfers /\ Batch(y) = Batch(x)
        BY PerformedBatch
      <3> QED
        BY <2>1, <3>1 DEF Batch
    <2>3. \A u \in Urls : Far'[u] = from[u]
      BY <1>1, <2>1, <2>2 DEF FarIs
    <2> QED
      BY <1>1, <2>1, <2>3 DEF FarIs, Cycle!Onward, Cycle!Status, Cycle!Final
  <1>4. CASE BatchEnds(x, err, new, f, t, g)
    <2>1. \A u \in Urls :
            /\ u \in Batch(x) => xfer'[u] = "none" /\ n_httperr'[u] >= 0
            /\ u \notin Batch(x) /\ err[u] >= 0 => xfer'[u] = "none" /\ n_httperr'[u] = err[u]
            /\ ~cm' => xfer'[u] = "none" /\ n_httperr'[u] >= 0
      BY <1>4, BatchEndsOnward
    <2>2. ASSUME NEW u \in Urls
          PROVE  Far'[u] \in Cycle!Onward(from[u])
      <3>1. CASE from[u] = "waiting"
        BY <1>1, <3>1 DEF FarIs, Cycle!Onward, Cycle!Status, Cycle!Final
      <3>2. CASE from[u] = "loading"
        <4>1. u \in Batch(x)
          BY <3>2 DEF FarIs, Batch
        <4>2. Far'[u] # "waiting"
          BY <1>1, <1>2, <2>1, <4>1 DEF FarIs
        <4> QED
          BY <1>1, <3>2, <4>2 DEF FarIs, Cycle!Onward, Cycle!Status, Cycle!Final
      <3>3. CASE from[u] \notin {"waiting", "loading"}
        <4>1. u \notin Batch(x) /\ err[u] >= 0
          BY <1>2, <3>3 DEF FarIs, Batch
        <4>2. xfer'[u] = x[u] /\ n_httperr'[u] = err[u]
          BY <2>1, <4>1 DEF Batch
        <4>3. Far'[u] = from[u]
          BY <1>1, <4>2 DEF FarIs
        <4> QED
          BY <3>3, <4>3 DEF Cycle!Onward
      <3> QED
        BY <3>1, <3>2, <3>3
    <2>3. ASSUME ~cm', NEW u \in Urls
          PROVE  Far'[u] \in Cycle!Final
      BY <1>1, <1>2, <2>1, <2>3 DEF FarIs, Cycle!Final
    <2> QED
      BY <2>2, <2>3
  <1> QED
    BY <1>3, <1>4

(* The transfers that are running are what the cycle has loading.          *)
LEMMA LoadingIsBatch ==
  ASSUME Inv', UsableConfig
  PROVE  LET loading == {u \in Urls : Far'[u] = "loading"}
         IN  Cardinality(loading) <= ParallelReload /\ (cm' <=> loading # {})
  <1>1. {u \in Urls : Far'[u] = "loading"} = Batch(xfer')
    BY FarFacts DEF FarIs, Batch
  <1>2. Cardinality(Batch(xfer')) <= npara
    BY DEF Inv, Sound, Batch
  <1>3. cm' <=> Batch(xfer') # {}
    BY DEF Inv, Batch
  <1>4. npara = ParallelReload
    BY DEF npara, UsableConfig
  <1> QED
    BY <1>1, <1>2, <1>3, <1>4

(* A call of handle_urls in the loop is a step of the cycle.               *)
LEMMA CallIsStep ==
  ASSUME TypeOK, Inv, TypeOK', Inv', DlRetries = 1, UsableConfig,
         phase # "exit", phase' # "exit", HandleUrls
  PROVE  Cycle!Begin \/ Cycle!Progress
  <1>1. xfer \in Transfers /\ n_httperr \in Errors /\ n_httperr' \in Errors
    BY DEF TypeOK, Transfers, Errors
  <1>2. ASSUME NEW from,
               \A u \in Urls : Far'[u] \in Cycle!Onward(from[u]),
               ~cm' => \A u \in Urls : Far'[u] \in Cycle!Final
        PROVE  Cycle!Move(from)
    <2> DEFINE loading == {u \in Urls : Far'[u] = "loading"}
    <2>1. Far' \in [Urls -> Cycle!Status]
      BY FarFacts
    <2>2. Cardinality(loading) <= ParallelReload /\ (cm' <=> loading # {})
      BY LoadingIsBatch
    <2>3. (cm /\ phase # "exit")' = (loading # {})
      BY <2>2
    <2>4. phase # "exit" /\ UNCHANGED (phase = "exit")
      OBVIOUS
    <2>5. ~(cm /\ phase # "exit")' => \A u \in Urls : Far'[u] \in Cycle!Final
      BY <1>2, <2>2, <2>3
    <2>6. Cycle!Cardinality(loading) <= ParallelReload
      <3>1. Cycle!Cardinality(loading) = Cardinality(loading)
        BY Zenon DEF Cycle!Cardinality, Cardinality, Cycle!IsFiniteSet, IsFiniteSet
      <3> QED
        BY <2>2, <3>1
    <2> HIDE DEF loading
    <2> QED
      BY <1>2, <2>1, <2>6, <2>3, <2>4, <2>5 DEF Cycle!Move, Far, loading
  <1>3. CASE StartCycle
    <2> DEFINE err(B) == Loaded(B, Untried)
               t(B) == CountTries(B, [u \in Urls |-> 0])
               f(B) == IF B = {} THEN CleanupHandles(0) ELSE 0
               from == [u \in Urls |-> "waiting"]
    <2>1. PICK B \in SUBSET Urls :
            \/ BatchRuns(Handles(B), err(B), FALSE, f(B), t(B), {})
            \/ BatchEnds(Handles(B), err(B), FALSE, f(B), t(B), {})
      BY <1>3 DEF StartCycle
    <2>2. err(B) \in Errors /\ \A u \in B : err(B)[u] >= 0
      BY DEF Loaded, Untried, Errors
    <2>3. Handles(B) \in Transfers /\ Batch(Handles(B)) = B
      BY BatchOfHandles
    <2>4. PICK loaded : loaded = [u \in Urls |-> IF u \in B THEN "loading" ELSE "waiting"]
      OBVIOUS
    <2>5. FarIs(loaded, Handles(B), err(B))
      BY <2>4 DEF FarIs, Handles, Loaded, Untried
    <2> HIDE DEF err, t, f
    <2>6. /\ \A u \in Urls : Far'[u] \in Cycle!Onward(loaded[u])
          /\ ~cm' => \A u \in Urls : Far'[u] \in Cycle!Final
      BY <1>1, <2>1, <2>2, <2>3, <2>5, CallMoves
    <2>7. \A u \in Urls : Far'[u] \in Cycle!Onward(from[u])
      BY FarFacts DEF Cycle!Onward
    <2>8. Cycle!Move(from)
      BY <1>2, <2>6, <2>7
    <2>9. ~cm
      BY <1>3 DEF StartCycle
    <2> QED
      BY <2>8, <2>9 DEF Cycle!Begin
  <1>4. CASE StillRunning \/ NextBatch
    <2>1. cm /\ \A u \in Batch(xfer) : n_httperr[u] >= 0
      BY <1>4 DEF StillRunning, NextBatch, Inv, Sound
    <2>2. \/ BatchRuns(xfer, n_httperr, newentry, frees, tries, got)
          \/ BatchEnds(xfer, n_httperr, newentry, frees, tries, got)
      BY <1>4 DEF StillRunning, NextBatch
    <2>3. PICK far : far = Far
      OBVIOUS
    <2>4. FarIs(far, xfer, n_httperr)
      BY <2>3, FarFacts
    <2>5. /\ \A u \in Urls : Far'[u] \in Cycle!Onward(far[u])
          /\ ~cm' => \A u \in Urls : Far'[u] \in Cycle!Final
      BY <1>1, <2>1, <2>2, <2>4, CallMoves
    <2>6. Cycle!Move(far)
      BY <1>2, <2>5
    <2> QED
      BY <2>1, <2>3, <2>6 DEF Cycle!Progress, Far
  <1> QED
    BY <1>3, <1>4 DEF HandleUrls

(* Each step of the loop is one of ReloadCycle, or nothing happens there.  *)
LEMMA LoopStepIsCycleStep ==
  ASSUME TypeOK, Inv, TypeOK', Inv', DlRetries = 1, UsableConfig, [LoopNext]_loopvars
  PROVE  \/ Cycle!Next
         \/ UNCHANGED <<cm /\ phase # "exit", phase = "exit", [u \in Urls |-> StatusOf(u)]>>
  <1>1. ASSUME UNCHANGED vars
        PROVE  UNCHANGED [u \in Urls |-> StatusOf(u)]
    BY <1>1 DEF vars, StatusOf
  <1>2. CASE (phase = "start" /\ HandleUrls /\ Start) \/ RefreshAll \/ Fetch
    <2>1. HandleUrls /\ phase # "exit" /\ phase' # "exit"
      BY <1>2 DEF Start, RefreshAll, Fetch, FetchBy, AfterKey
    <2> QED
      BY <2>1, CallIsStep DEF Cycle!Next
  <1>3. CASE (Start /\ UNCHANGED vars) \/ Woken \/ Tick \/ UNCHANGED loopvars
    <2>1. UNCHANGED vars
      BY <1>3 DEF Woken, Tick, loopvars
    <2>2. phase' = "exit" <=> phase = "exit"
      BY <1>3 DEF Start, Woken, Tick, loopvars
    <2>3. UNCHANGED cm
      BY <2>1 DEF vars
    <2> QED
      BY <1>1, <2>1, <2>2, <2>3
  <1>4. CASE ExitKey \/ Answer
    <2>1. UNCHANGED vars /\ phase # "exit"
      BY <1>4 DEF ExitKey, Answer
    <2>2. UNCHANGED cm
      BY <2>1 DEF vars
    <2>3. CASE phase' = "exit"
      BY <1>1, <2>1, <2>3 DEF Cycle!Next, Cycle!Quit
    <2>4. CASE phase' # "exit"
      BY <1>1, <2>1, <2>2, <2>4
    <2> QED
      BY <2>3, <2>4
  <1>5. Start => phase = "start" /\ (HandleUrls \/ UNCHANGED vars)
    BY DEF Start
  <1> QED
    BY <1>2, <1>3, <1>4, <1>5 DEF LoopNext

(* In a usable configuration with the default of one download per URL the  *)
(* program makes no step that the abstract reload forbids; that a reload   *)
(* ends is the only thing left to assume for the whole of its promise.     *)
THEOREM LoopImplementsSteps == DlRetries = 1 /\ UsableConfig => (LoopSpec => Cycle!Steps)
  <1>1. LoopInit => Cycle!Init
    BY DEF LoopInit, Init, StatusOf, Cycle!Init
  <1>2. DlRetries = 1 /\ UsableConfig => [](DlRetries = 1 /\ UsableConfig)
    <2>1. DlRetries = 1 /\ UsableConfig => (DlRetries = 1 /\ UsableConfig)'
      BY DEF UsableConfig
    <2> QED
      BY <2>1, PTL
  <1>3. DlRetries = 1 /\ UsableConfig /\ TypeOK /\ TypeOK' /\ Inv /\ Inv' /\ [LoopNext]_loopvars
          => [Cycle!Next]_<<cm /\ phase # "exit", phase = "exit", [u \in Urls |-> StatusOf(u)]>>
    BY LoopStepIsCycleStep
  <1> QED
    BY <1>1, <1>2, <1>3, LoopImplementsFetch, TypeCorrect, Invariance, PTL
       DEF LoopSpec, Cycle!Steps

(* If reloads end, which is for TLC, the program implements ReloadCycle.   *)
THEOREM LoopImplementsCycle ==
  DlRetries = 1 /\ UsableConfig => (LoopSpec /\ ReloadEnds => ImplementsReloadCycle)
  <1>1. /\ cm /\ phase # "exit" => cm
        /\ ~cm \/ phase = "exit" => ~(cm /\ phase # "exit")
    OBVIOUS
  <1>2. ReloadEnds => Cycle!Ends
    BY <1>1, PTL DEF ReloadEnds, Cycle!Ends
  <1> QED
    BY <1>2, LoopImplementsSteps, PTL DEF ImplementsReloadCycle, Cycle!Spec
=============================================================================
