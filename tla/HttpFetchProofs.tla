-------------------------- MODULE HttpFetchProofs --------------------------
(***************************************************************************)
(* Invariants of the download scheduler for every URL list and every       *)
(* setting of reload-threads and download-retries.                         *)
(*                                                                         *)
(* Every call of handle_urls does some of the same three things: it loads  *)
(* a batch, lets it advance, and settles it.  Each has a lemma that says   *)
(* what it keeps of a batch (Sound); the calls are compositions of them.   *)
(***************************************************************************)
EXTENDS HttpFetch, FiniteSetTheorems, TLAPS

(* Where the arguments of BatchRuns and BatchEnds live.                    *)
Transfers == [Urls -> {"none", "running"} \cup Outcome]
Errors == [Urls -> Int]
Tries == [Urls -> 0 .. MaxTries]

(* npara counts something.                                                 *)
LEMMA NparaNat == npara \in Nat /\ (UsableConfig => npara > 0)
  BY ConfigAssumption DEF npara, UsableConfig

(* A batch of no handles is empty, and the handles of B are those of B.    *)
LEMMA BatchOfHandles ==
  ASSUME NEW B \in SUBSET Urls
  PROVE  Handles(B) \in Transfers /\ Batch(Handles(B)) = B
  BY DEF Handles, Batch, Transfers, Outcome

(* While transfers advance, the batch is the same.                         *)
LEMMA PerformedBatch ==
  ASSUME NEW x \in Transfers, NEW y \in Performed(x)
  PROVE  y \in Transfers /\ Batch(y) = Batch(x)
  <1> DEFINE active == {u \in Urls : x[u] = "running"}
  <1>1. PICK f \in [active -> {"running"} \cup Outcome] :
          y = [u \in Urls |-> IF u \in active THEN f[u] ELSE x[u]]
    BY DEF Performed
  <1>2. \A u \in active : f[u] \in {"running"} \cup Outcome
    BY <1>1
  <1>3. \A u \in Urls : y[u] \in {"none", "running"} \cup Outcome
    BY <1>1, <1>2 DEF Transfers
  <1>4. y \in Transfers
    BY <1>1, <1>3 DEF Transfers
  <1>5. \A u \in Urls : y[u] = "none" <=> x[u] = "none"
    BY <1>1, <1>2 DEF Outcome
  <1> QED
    BY <1>4, <1>5 DEF Batch

(* Nothing is loaded only when nothing is eligible: npara is positive.     *)
LEMMA EmptyBatch ==
  ASSUME NEW err \in Errors, UsableConfig, IsNextBatch({}, err)
  PROVE  Eligible(err) = {}
  <1>1. Cardinality({}) # npara
    BY NparaNat, FS_EmptySet
  <1> QED
    BY <1>1 DEF IsNextBatch

(* Loading a batch out of no batch keeps Sound.                            *)
LEMMA LoadSound ==
  ASSUME NEW err \in Errors, NEW t \in Tries, NEW g \in SUBSET Urls,
         NEW B \in SUBSET Urls, IsNextBatch(B, err),
         Accounted(Handles({}), err, t, g), Counted(Handles({}), err, t, g)
  PROVE  /\ Loaded(B, err) \in Errors
         /\ CountTries(B, t) \in Tries
         /\ Sound(Handles(B), Loaded(B, err), CountTries(B, t), g)
  <1> DEFINE x == Handles(B)
             e == Loaded(B, err)
             c == CountTries(B, t)
  <1>1. Batch(x) = B /\ Batch(Handles({})) = {}
    BY BatchOfHandles
  <1>2. e \in Errors
    BY DEF Loaded, Errors
  <1>3. MaxTries \in Nat /\ MaxTries >= DlRetries + 2 /\ DlRetries \in Nat
    BY ConfigAssumption DEF MaxTries
  <1>4. c \in Tries
    BY <1>3 DEF CountTries, Tries
  <1>5. \A u \in B : /\ err[u] < 0 \/ (err[u] # 0 /\ err[u] < DlRetries)
                     /\ e[u] = IF err[u] < 0 THEN 0 ELSE err[u]
    BY DEF IsNextBatch, Eligible, Loaded
  <1>6. \A u \in Urls \ B : e[u] = err[u] /\ c[u] = t[u]
    BY DEF Loaded, CountTries
  <1>7. \A u \in B : c[u] > 0 /\ c[u] <= t[u] + 1
    BY <1>3 DEF CountTries, Tries
  <1>8. \A u \in Batch(x) : e[u] >= 0
    BY <1>1, <1>5 DEF Errors
  <1>9. Accounted(x, e, c, g)
    BY <1>1, <1>6, <1>7 DEF Accounted
  <1>10. Counted(x, e, c, g)
    <2> SUFFICES ASSUME NEW u \in Urls \ g
                 PROVE  IF u \in B
                        THEN c[u] <= e[u] + 1 /\ (e[u] = 0 \/ e[u] < DlRetries)
                        ELSE /\ e[u] < 0 => c[u] = 0
                             /\ e[u] >= 0 /\ e[u] < DlRetries => c[u] <= e[u]
                             /\ c[u] <= IF DlRetries > 1 THEN DlRetries ELSE 1
      BY <1>1 DEF Counted
    <2>1. /\ err[u] < 0 => t[u] = 0
          /\ err[u] >= 0 /\ err[u] < DlRetries => t[u] <= err[u]
          /\ t[u] <= IF DlRetries > 1 THEN DlRetries ELSE 1
      BY <1>1 DEF Counted
    <2>4. err[u] \in Int /\ t[u] \in Nat /\ c[u] \in Nat
      BY <1>3, <1>4 DEF Errors, Tries
    <2>5. CASE u \in B /\ err[u] < 0
      <3>1. e[u] = 0 /\ c[u] <= 1
        BY <2>1, <2>4, <2>5, <1>5, <1>7
      <3> QED
        BY <2>4, <2>5, <3>1
    <2>6. CASE u \in B /\ ~(err[u] < 0)
      <3>1. e[u] = err[u] /\ err[u] < DlRetries /\ c[u] <= t[u] + 1
        BY <2>6, <1>5, <1>7
      <3>2. t[u] <= err[u]
        BY <2>1, <2>4, <2>6, <3>1
      <3> HIDE DEF e, c
      <3> QED
        BY <2>4, <2>6, <3>1, <3>2
    <2>3. CASE u \notin B
      BY <2>1, <2>3, <1>6
    <2> QED
      BY <2>3, <2>5, <2>6
  <1> QED
    BY <1>1, <1>2, <1>4, <1>8, <1>9, <1>10 DEF Sound, IsNextBatch

(* Settling a batch that is over leaves counts from which one can load.    *)
LEMMA SettleSound ==
  ASSUME NEW y \in Transfers, NEW err \in Errors, NEW t \in Tries,
         NEW g \in SUBSET Urls, Sound(y, err, t, g), BatchOver(y)
  PROVE  LET e == Settled(y, err)
             n == g \cup Ended(y, Imported)
         IN /\ e \in Errors
            /\ n \in SUBSET Urls
            /\ Accounted(Handles({}), e, t, n)
            /\ Counted(Handles({}), e, t, n)
  <1> DEFINE e == Settled(y, err)
             n == g \cup Ended(y, Imported)
  <1>1. DlRetries \in Nat
    BY ConfigAssumption
  <1>2. e \in Errors
    BY <1>1 DEF Settled, Errors
  <1>3. n \in SUBSET Urls
    BY DEF Ended
  <1>4. Batch(Handles({})) = {}
    BY BatchOfHandles
  <1>5. \A u \in Urls \ Batch(y) : e[u] = err[u]
    BY DEF Batch, Settled
  <1>6. \A u \in Batch(y) :
          \/ u \in n /\ e[u] = err[u]
          \/ e[u] = err[u] + 1
          \/ e[u] = DlRetries
    BY DEF Settled, Batch, Sound, BatchOver, Transfers, Outcome, Ended, Imported, Errors
  <1>7. \A u \in Batch(y) : err[u] >= 0 /\ t[u] > 0
    BY DEF Sound, Accounted, Batch
  <1>8. Accounted(Handles({}), e, t, n)
    <2> SUFFICES ASSUME NEW u \in Urls, e[u] >= 0
                 PROVE  t[u] > 0 /\ (e[u] = 0 => u \in n \/ DlRetries = 0)
      BY <1>4 DEF Accounted
    <2>1. CASE u \in Batch(y)
      BY <2>1, <1>1, <1>6, <1>7 DEF Errors
    <2>2. CASE u \notin Batch(y)
      BY <2>2, <1>5 DEF Sound, Accounted
    <2> QED
      BY <2>1, <2>2
  <1>9. Counted(Handles({}), e, t, n)
    <2> SUFFICES ASSUME NEW u \in Urls \ n
                 PROVE  /\ e[u] < 0 => t[u] = 0
                        /\ e[u] >= 0 /\ e[u] < DlRetries => t[u] <= e[u]
                        /\ t[u] <= IF DlRetries > 1 THEN DlRetries ELSE 1
      BY <1>4 DEF Counted
    <2>1. CASE u \in Batch(y)
      <3>1. t[u] <= err[u] + 1 /\ (err[u] = 0 \/ err[u] < DlRetries)
        BY <2>1 DEF Sound, Counted
      <3>2. e[u] = err[u] + 1 \/ e[u] = DlRetries
        BY <2>1, <1>6
      <3> QED
        BY <2>1, <3>1, <3>2, <1>1, <1>7 DEF Errors, Tries, MaxTries
    <2>2. CASE u \notin Batch(y)
      BY <2>2, <1>5 DEF Sound, Counted
    <2> QED
      BY <2>1, <2>2
  <1> QED
    BY <1>2, <1>3, <1>8, <1>9

(* A sound batch is sound while it advances.                               *)
LEMMA PerformSound ==
  ASSUME NEW x \in Transfers, NEW y \in Performed(x),
         NEW err, NEW t, NEW g, Sound(x, err, t, g)
  PROVE  Sound(y, err, t, g)
  <1>1. Batch(y) = Batch(x)
    BY PerformedBatch
  <1> QED
    BY <1>1 DEF Sound, Accounted, Counted
-----------------------------------------------------------------------------

(* A call that leaves the batch running keeps the invariants.              *)
LEMMA BatchRunsInv ==
  ASSUME NEW x \in Transfers, NEW err \in Errors, NEW new \in BOOLEAN,
         NEW f \in Nat, NEW t \in Tries, NEW g \in SUBSET Urls,
         Sound(x, err, t, g), UsableConfig => f = 0,
         BatchRuns(x, err, new, f, t, g)
  PROVE  TypeOK' /\ Inv'
  <1>1. PICK y \in Performed(x) :
          /\ ~BatchOver(y) /\ cm' = TRUE /\ n_httperr' = err /\ xfer' = y
          /\ newentry' = new /\ frees' = f /\ tries' = t /\ got' = g /\ Returns
    BY DEF BatchRuns
  <1>2. y \in Transfers
    BY PerformedBatch
  <1>3. Batch(y) # {}
    BY <1>1 DEF BatchOver, Batch
  <1>4. Sound(y, err, t, g)
    BY PerformSound
  <1>5. TypeOK'
    BY <1>1, <1>2 DEF TypeOK, Returns, Transfers, Errors, Tries
  <1>6. (cm <=> Batch(xfer) # {})' /\ FreedOnce'
    BY <1>1, <1>3 DEF FreedOnce, Batch
  <1>7. Sound(xfer, n_httperr, tries, got)'
    BY <1>1, <1>4 DEF Sound, Accounted, Counted, Batch
  <1> QED
    BY <1>5, <1>6, <1>7 DEF Inv

(* A call that ends the batch keeps them, and ends the cycle only when no  *)
(* URL is left.                                                            *)
LEMMA BatchEndsInv ==
  ASSUME NEW x \in Transfers, NEW err \in Errors, NEW new \in BOOLEAN,
         NEW f \in Nat, NEW t \in Tries, NEW g \in SUBSET Urls,
         Sound(x, err, t, g), UsableConfig => f = 0,
         BatchEnds(x, err, new, f, t, g)
  PROVE  TypeOK' /\ Inv' /\ CycleOver
  <1>1. PICK y \in Performed(x) :
          /\ BatchOver(y)
          /\ newentry' = (new \/ Ended(y, {"unread"}) # {})
          /\ got' = g \cup Ended(y, Imported)
          /\ LoadNewHandles(Settled(y, err), f, t)
          /\ Returns
    BY DEF BatchEnds
  <1> DEFINE e == Settled(y, err)
             n == g \cup Ended(y, Imported)
  <1>2. y \in Transfers /\ Sound(y, err, t, g)
    BY PerformedBatch, PerformSound
  <1>3. /\ e \in Errors /\ n \in SUBSET Urls
        /\ Accounted(Handles({}), e, t, n) /\ Counted(Handles({}), e, t, n)
    BY <1>1, <1>2, SettleSound
  <1>4. PICK B \in SUBSET Urls :
          /\ IsNextBatch(B, e) /\ n_httperr' = Loaded(B, e) /\ xfer' = Handles(B)
          /\ tries' = CountTries(B, t) /\ cm' = (B # {})
          /\ frees' = IF B = {} THEN f + 1 ELSE f
    BY <1>1 DEF LoadNewHandles, CleanupHandles
  <1> HIDE DEF e, n
  <1>5. /\ Loaded(B, e) \in Errors /\ CountTries(B, t) \in Tries
        /\ Sound(Handles(B), Loaded(B, e), CountTries(B, t), n)
    BY <1>3, <1>4, LoadSound
  <1>6. Handles(B) \in Transfers /\ Batch(Handles(B)) = B
    BY BatchOfHandles
  <1>7. got' = n
    BY <1>1 DEF n
  <1>8. TypeOK'
    <2>1. newentry' \in BOOLEAN /\ ret' \in {-1, 0, 1} /\ cm' \in BOOLEAN
      BY <1>1, <1>4 DEF Returns
    <2> QED
      BY <2>1, <1>3, <1>4, <1>5, <1>6, <1>7 DEF TypeOK, Transfers, Errors, Tries
  <1>9. (cm <=> Batch(xfer) # {})' /\ FreedOnce'
    <2>1. Batch(xfer)' = B
      BY <1>4, <1>6 DEF Batch
    <2>2. f \in Nat /\ (UsableConfig => f = 0)
      OBVIOUS
    <2>3. (cm <=> Batch(xfer) # {})'
      BY <1>4, <2>1
    <2>4. ASSUME UsableConfig
          PROVE  frees' <= 1 /\ (cm' => frees' = 0)
      <3>1. f = 0 /\ (frees' = IF B = {} THEN f + 1 ELSE f)
        BY <1>4, <2>2, <2>4
      <3>2. frees' = 0 \/ (frees' = 1 /\ B = {})
        BY <3>1
      <3>3. B = {} => ~cm'
        BY <1>4, Zenon
      <3> QED
        BY <3>2, <3>3
    <2>5. UsableConfig' <=> UsableConfig
      BY DEF UsableConfig
    <2> QED
      BY <2>3, <2>4, <2>5 DEF FreedOnce
  <1>10. Sound(xfer, n_httperr, tries, got)'
    BY <1>4, <1>5, <1>7 DEF Sound, Accounted, Counted, Batch
  <1>11. CycleOver
    <2> SUFFICES ASSUME UsableConfig, ~cm', NEW u \in Urls
                 PROVE  tries'[u] > 0 /\ (u \in got' \/ n_httperr'[u] >= DlRetries)
      BY DEF CycleOver
    <2>1. B = {} /\ Eligible(e) = {}
      BY <1>3, <1>4, EmptyBatch
    <2>2. ~(e[u] < 0 \/ (e[u] # 0 /\ e[u] < DlRetries))
      BY <2>1 DEF Eligible
    <2>3. n_httperr'[u] = e[u] /\ e[u] \in Int /\ DlRetries \in Nat
      BY <2>1, <1>3, <1>4, ConfigAssumption DEF Loaded, Errors
    <2>4. tries'[u] > 0 /\ (e[u] = 0 => u \in got' \/ DlRetries = 0)
      BY <1>4, <1>7, <1>10, <2>1, <2>2, <2>3, <1>6 DEF Sound, Accounted
    <2> QED
      BY <2>2, <2>3, <2>4
  <1> QED
    BY <1>8, <1>9, <1>10, <1>11 DEF Inv
-----------------------------------------------------------------------------

(* Starting a cycle: the counts are reset, so nothing is accounted for yet *)
(* and the first batch is not empty in a usable configuration.             *)
LEMMA FreshCounts ==
  LET untried == [u \in Urls |-> 0]
  IN /\ Untried \in Errors /\ untried \in Tries
     /\ Accounted(Handles({}), Untried, untried, {})
     /\ Counted(Handles({}), Untried, untried, {})
     /\ UsableConfig => Eligible(Untried) # {}
  <1>1. Batch(Handles({})) = {} /\ DlRetries \in Nat
    BY BatchOfHandles, ConfigAssumption
  <1>2. UsableConfig => 1 \in Urls
    BY ConfigAssumption DEF UsableConfig, Urls
  <1> QED
    BY <1>1, <1>2 DEF Untried, Errors, Tries, MaxTries, Accounted, Counted, Eligible

(* The first states.                                                       *)
LEMMA InitInv == Init => TypeOK /\ Inv
  <1> SUFFICES ASSUME Init
               PROVE  TypeOK /\ Inv
    OBVIOUS
  <1>1. MaxTries \in Nat /\ npara \in Nat
    BY ConfigAssumption, NparaNat DEF MaxTries
  <1>2. TypeOK
    <2>1. cm \in BOOLEAN /\ newentry \in BOOLEAN
      BY DEF Init
    <2>2. /\ n_httperr \in [Urls -> Int]
          /\ xfer \in [Urls -> {"none", "running"} \cup Outcome]
          /\ tries \in [Urls -> 0 .. MaxTries]
      BY <1>1 DEF Init
    <2>3. frees \in Nat /\ ret \in {-1, 0, 1} /\ got \subseteq Urls
      BY DEF Init
    <2> QED
      BY <2>1, <2>2, <2>3 DEF TypeOK
  <1>3. xfer = Handles({}) /\ Batch(xfer) = {} /\ Cardinality(Batch(xfer)) = 0
    BY BatchOfHandles, FS_EmptySet DEF Init, Handles
  <1>4. Sound(xfer, n_httperr, tries, got)
    BY <1>1, <1>3, FreshCounts DEF Init, Untried, Sound
  <1> QED
    BY <1>2, <1>3, <1>4 DEF Init, Inv, FreedOnce

(* Every call of handle_urls keeps the invariants, and is right about the  *)
(* end of the cycle.                                                       *)
LEMMA NextInv ==
  ASSUME TypeOK, Inv, [Next]_vars
  PROVE  TypeOK' /\ Inv' /\ [CycleOver]_vars
  <1> DEFINE untried == [u \in Urls |-> 0]
  <1>1. CASE StartCycle
    <2> DEFINE err(B) == Loaded(B, Untried)
               t(B) == CountTries(B, untried)
               f(B) == IF B = {} THEN CleanupHandles(0) ELSE 0
    <2>1. PICK B \in SUBSET Urls :
            /\ IsNextBatch(B, Untried)
            /\ \/ BatchRuns(Handles(B), err(B), FALSE, f(B), t(B), {})
               \/ BatchEnds(Handles(B), err(B), FALSE, f(B), t(B), {})
      BY <1>1 DEF StartCycle
    <2>2. /\ Untried \in Errors /\ untried \in Tries
          /\ Accounted(Handles({}), Untried, untried, {})
          /\ Counted(Handles({}), Untried, untried, {})
          /\ UsableConfig => Eligible(Untried) # {}
      BY FreshCounts
    <2> HIDE DEF untried
    <2>3. /\ err(B) \in Errors /\ t(B) \in Tries
          /\ Sound(Handles(B), err(B), t(B), {})
      BY <2>1, <2>2, LoadSound
    <2>4. UsableConfig => B # {}
      BY <2>1, <2>2, EmptyBatch
    <2>5. Handles(B) \in Transfers
      BY BatchOfHandles
    <2>6. /\ f(B) \in Nat /\ (UsableConfig => f(B) = 0)
          /\ FALSE \in BOOLEAN /\ {} \in SUBSET Urls
      BY <2>4 DEF CleanupHandles
    <2> HIDE DEF err, t, f
    <2>7. CASE BatchRuns(Handles(B), err(B), FALSE, f(B), t(B), {})
      <3>1. TypeOK' /\ Inv'
        BY <2>3, <2>5, <2>6, <2>7, BatchRunsInv
      <3>2. cm'
        BY <2>7 DEF BatchRuns
      <3> QED
        BY <3>1, <3>2 DEF CycleOver
    <2>8. CASE BatchEnds(Handles(B), err(B), FALSE, f(B), t(B), {})
      BY <2>3, <2>5, <2>6, <2>8, BatchEndsInv
    <2> QED
      BY <2>1, <2>7, <2>8
  <1>2. ASSUME cm
        PROVE  /\ xfer \in Transfers /\ n_httperr \in Errors /\ tries \in Tries
               /\ newentry \in BOOLEAN /\ frees \in Nat /\ got \in SUBSET Urls
               /\ Sound(xfer, n_httperr, tries, got) /\ (UsableConfig => frees = 0)
    BY <1>2 DEF TypeOK, Inv, FreedOnce, Transfers, Errors, Tries
  <1>3. CASE StillRunning
    <2>1. cm /\ BatchRuns(xfer, n_httperr, newentry, frees, tries, got) /\ cm'
      BY <1>3 DEF StillRunning, BatchRuns
    <2>2. TypeOK' /\ Inv'
      BY <1>2, <2>1, BatchRunsInv
    <2> QED
      BY <2>1, <2>2 DEF CycleOver
  <1>4. CASE NextBatch
    BY <1>2, <1>4, BatchEndsInv DEF NextBatch
  <1>5. CASE UNCHANGED vars
    BY <1>5 DEF vars, TypeOK, Inv, FreedOnce, Sound, Accounted, Counted, Batch
  <1> QED
    BY <1>1, <1>3, <1>4, <1>5 DEF Next, HandleUrls

(* The state of the scheduler is well typed whatever the configuration.    *)
THEOREM TypeCorrect == Spec => []TypeOK
  <1>1. Init => TypeOK /\ Inv
    BY InitInv
  <1>2. TypeOK /\ Inv /\ [Next]_vars => (TypeOK /\ Inv)'
    BY NextInv
  <1> QED
    BY <1>1, <1>2, PTL DEF Spec

(* The inductive invariant: a cycle runs exactly while handles are in use, *)
(* and the error counts agree with the downloads made.                     *)
THEOREM Invariance == Spec => []Inv
  <1>1. Init => TypeOK /\ Inv
    BY InitInv
  <1>2. TypeOK /\ Inv /\ [Next]_vars => (TypeOK /\ Inv)'
    BY NextInv
  <1> QED
    BY <1>1, <1>2, PTL DEF Spec

(* cleanup_handles frees the buffers of a cycle once, never while they are *)
(* in use, if there is a URL and reload-threads is positive.               *)
THEOREM BuffersFreedOnce == Spec => []FreedOnce
  <1>1. Inv => FreedOnce
    BY DEF Inv
  <1> QED
    BY <1>1, Invariance, PTL

(* A URL that is never imported is downloaded download-retries times at    *)
(* most (once for download-retries 0), for any number of URLs.             *)
THEOREM FailuresBounded == Spec => []RetriesBounded
  <1>1. TypeOK /\ Inv => RetriesBounded
    <2> SUFFICES ASSUME TypeOK, Inv, NEW u \in Urls \ got
                 PROVE  tries[u] <= IF DlRetries > 1 THEN DlRetries ELSE 1
      BY DEF RetriesBounded
    <2>1. tries[u] \in Nat /\ n_httperr[u] \in Int /\ DlRetries \in Nat
      BY ConfigAssumption DEF TypeOK, MaxTries
    <2>2. CASE u \in Batch(xfer)
      BY <2>1, <2>2 DEF Inv, Sound, Counted
    <2>3. CASE u \notin Batch(xfer)
      BY <2>3 DEF Inv, Sound, Counted
    <2> QED
      BY <2>2, <2>3
  <1> QED
    BY <1>1, TypeCorrect, Invariance, PTL

(* When handle_urls reports a cycle over, every URL of the list has been   *)
(* downloaded in it and was imported or used up its retries.               *)
THEOREM CyclesComplete == Spec => CycleComplete
  <1>1. TypeOK /\ Inv /\ [Next]_vars => [CycleOver]_vars
    BY NextInv
  <1> QED
    BY <1>1, TypeCorrect, Invariance, PTL DEF Spec, CycleComplete
-----------------------------------------------------------------------------

(* With at most one download per URL a batch that is over is over for good:*)
(* what was in it, and what was accounted for before, is not loaded again, *)
(* and the cycle ends only when no URL is untried.                         *)
LEMMA BatchEndsOnward ==
  ASSUME NEW x \in Transfers, NEW err \in Errors, NEW new, NEW f, NEW t, NEW g,
         \A u \in Batch(x) : err[u] >= 0, DlRetries <= 1,
         BatchEnds(x, err, new, f, t, g)
  PROVE  \A u \in Urls :
           /\ u \in Batch(x) => xfer'[u] = "none" /\ n_httperr'[u] >= 0
           /\ u \notin Batch(x) /\ err[u] >= 0 => xfer'[u] = "none" /\ n_httperr'[u] = err[u]
           /\ UsableConfig /\ ~cm' => xfer'[u] = "none" /\ n_httperr'[u] >= 0
           /\ u \in got' => u \in g \cup Batch(x)
  <1>1. PICK y \in Performed(x) :
          BatchOver(y) /\ got' = g \cup Ended(y, Imported) /\ LoadNewHandles(Settled(y, err), f, t)
    BY DEF BatchEnds
  <1> DEFINE e == Settled(y, err)
  <1>2. y \in Transfers /\ Batch(y) = Batch(x)
    BY PerformedBatch
  <1>3. DlRetries \in Nat
    BY ConfigAssumption
  <1>4. e \in Errors
    BY <1>3 DEF Settled, Errors
  <1>5. \A u \in Urls \ Batch(x) : e[u] = err[u]
    BY <1>2 DEF Batch, Settled
  <1>6. \A u \in Batch(x) : e[u] >= 0
    BY <1>3 DEF Settled, Errors, Batch
  <1>7. \A u \in got' : u \in g \cup Batch(x)
    BY <1>1, <1>2 DEF Ended, Imported, Batch
  <1>8. PICK B \in SUBSET Urls :
          IsNextBatch(B, e) /\ n_httperr' = Loaded(B, e) /\ xfer' = Handles(B) /\ cm' = (B # {})
    BY <1>1 DEF LoadNewHandles
  <1> HIDE DEF e
  <1>9. \A u \in Urls : e[u] >= 0 => u \notin B
    BY <1>3, <1>4, <1>8 DEF IsNextBatch, Eligible, Errors
  <1>10. \A u \in Urls \ B : xfer'[u] = "none" /\ n_httperr'[u] = e[u]
    BY <1>8 DEF Handles, Loaded
  <1>11. ASSUME UsableConfig, ~cm', NEW u \in Urls
         PROVE  xfer'[u] = "none" /\ n_httperr'[u] >= 0
    <2>1. B = {} /\ Eligible(e) = {}
      BY <1>4, <1>8, <1>11, EmptyBatch
    <2>2. ~(e[u] < 0) /\ e[u] \in Int
      BY <1>4, <2>1 DEF Eligible, Errors
    <2> QED
      BY <1>10, <2>1, <2>2
  <1> QED
    BY <1>5, <1>6, <1>7, <1>9, <1>10, <1>11

(* What was imported is done with.                                         *)
Retired == \A u \in got : xfer[u] = "none" /\ n_httperr[u] >= 0

(* The end of a batch is the end of what was imported, in it or before.    *)
LEMMA BatchEndsRetires ==
  ASSUME NEW x \in Transfers, NEW err \in Errors, NEW new, NEW f, NEW t,
         NEW g \in SUBSET Urls,
         \A u \in Batch(x) : err[u] >= 0, \A u \in g : err[u] >= 0, DlRetries <= 1,
         got' \subseteq Urls, BatchEnds(x, err, new, f, t, g)
  PROVE  Retired'
  <1>1. \A u \in Urls :
           /\ u \in Batch(x) => xfer'[u] = "none" /\ n_httperr'[u] >= 0
           /\ u \notin Batch(x) /\ err[u] >= 0 => xfer'[u] = "none" /\ n_httperr'[u] = err[u]
           /\ u \in got' => u \in g \cup Batch(x)
    BY BatchEndsOnward
  <1>2. ASSUME NEW u \in got'
        PROVE  xfer'[u] = "none" /\ n_httperr'[u] >= 0
    BY <1>1, <1>2
  <1> QED
    BY <1>2 DEF Retired

(* No step makes an imported URL eligible again.                           *)
LEMMA NextRetires ==
  ASSUME TypeOK, Inv, Retired, DlRetries <= 1, TypeOK', [Next]_vars
  PROVE  Retired'
  <1>1. xfer \in Transfers /\ n_httperr \in Errors /\ got \in SUBSET Urls /\ got' \subseteq Urls
    BY DEF TypeOK, Transfers, Errors
  <1>2. \A u \in Batch(xfer) : n_httperr[u] >= 0
    BY DEF Inv, Sound
  <1>3. CASE StartCycle
    <2> DEFINE err(B) == Loaded(B, Untried)
               t(B) == CountTries(B, [u \in Urls |-> 0])
               f(B) == IF B = {} THEN CleanupHandles(0) ELSE 0
    <2>1. PICK B \in SUBSET Urls :
            \/ BatchRuns(Handles(B), err(B), FALSE, f(B), t(B), {})
            \/ BatchEnds(Handles(B), err(B), FALSE, f(B), t(B), {})
      BY <1>3 DEF StartCycle
    <2>2. err(B) \in Errors /\ \A u \in B : err(B)[u] >= 0
      BY DEF Loaded, Untried, Errors
    <2>3. Handles(B) \in Transfers /\ Batch(Handles(B)) = B
      BY BatchOfHandles
    <2> HIDE DEF err, t, f
    <2>4. CASE BatchRuns(Handles(B), err(B), FALSE, f(B), t(B), {})
      BY <2>4 DEF BatchRuns, Retired
    <2>5. CASE BatchEnds(Handles(B), err(B), FALSE, f(B), t(B), {})
      <3>1. PICK g : g = {}
        OBVIOUS
      <3>2. g \in SUBSET Urls /\ \A u \in g : err(B)[u] >= 0
        BY <3>1
      <3>3. BatchEnds(Handles(B), err(B), FALSE, f(B), t(B), g)
        BY <2>5, <3>1
      <3> QED
        BY <1>1, <2>2, <2>3, <3>2, <3>3, BatchEndsRetires
    <2> QED
      BY <2>1, <2>4, <2>5
  <1>4. CASE StillRunning
    <2>1. PICK y \in Performed(xfer) : xfer' = y /\ n_httperr' = n_httperr /\ got' = got
      BY <1>4 DEF StillRunning, BatchRuns
    <2>2. \A u \in Urls : xfer[u] = "none" => y[u] = "none"
      <3>1. y \in Transfers /\ Batch(y) = Batch(xfer)
        BY <1>1, PerformedBatch
      <3> QED
        BY <3>1 DEF Batch
    <2> QED
      BY <1>1, <2>1, <2>2 DEF Retired
  <1>5. CASE NextBatch
    <2>1. \A u \in got : n_httperr[u] >= 0
      BY DEF Retired
    <2>2. BatchEnds(xfer, n_httperr, newentry, frees, tries, got)
      BY <1>5 DEF NextBatch
    <2> QED
      BY <1>1, <1>2, <2>1, <2>2, BatchEndsRetires
  <1>6. CASE UNCHANGED vars
    BY <1>6 DEF vars, Retired
  <1> QED
    BY <1>3, <1>4, <1>5, <1>6 DEF Next, HandleUrls

(* With download-retries 1, the default, or 0 the documentation is right:  *)
(* what was imported is not downloaded again in the same cycle.            *)
THEOREM NothingRedone == DlRetries <= 1 => (Spec => []OnlyFailuresRetried)
  <1>1. Init => Retired
    BY DEF Init, Retired
  <1>2. DlRetries <= 1 /\ TypeOK /\ TypeOK' /\ Inv /\ Retired /\ [Next]_vars => Retired'
    BY NextRetires
  <1>3. Retired => OnlyFailuresRetried
    BY DEF Retired, OnlyFailuresRetried
  <1>4. DlRetries <= 1 => [](DlRetries <= 1)
    <2>1. DlRetries <= 1 => (DlRetries <= 1)'
      OBVIOUS
    <2> QED
      BY <2>1, PTL
  <1> QED
    BY <1>1, <1>2, <1>3, <1>4, TypeCorrect, Invariance, PTL DEF Spec
-----------------------------------------------------------------------------

(* With at most one download per URL what is eligible is what was not      *)
(* tried, so a batch that is loaded leaves fewer such URLs than before.    *)
LEMMA BatchEndsProgress ==
  ASSUME NEW x \in Transfers, NEW err \in Errors, NEW new, NEW f, NEW t, NEW g,
         \A u \in Batch(x) : err[u] >= 0, DlRetries <= 1, cm',
         BatchEnds(x, err, new, f, t, g)
  PROVE  /\ \A u \in Urls : n_httperr'[u] < 0 => err[u] < 0
         /\ \E u \in Urls : err[u] < 0 /\ ~(n_httperr'[u] < 0)
  <1>1. PICK y \in Performed(x) : LoadNewHandles(Settled(y, err), f, t)
    BY DEF BatchEnds
  <1> DEFINE e == Settled(y, err)
  <1>2. y \in Transfers /\ Batch(y) = Batch(x)
    BY PerformedBatch
  <1>3. DlRetries \in Nat
    BY ConfigAssumption
  <1>4. e \in Errors
    BY <1>3 DEF Settled, Errors
  <1>5. \A u \in Urls \ Batch(x) : e[u] = err[u]
    BY <1>2 DEF Batch, Settled
  <1>6. \A u \in Batch(x) : e[u] >= 0
    BY <1>3 DEF Settled, Errors, Batch
  <1>7. PICK B \in SUBSET Urls :
          IsNextBatch(B, e) /\ n_httperr' = Loaded(B, e) /\ cm' = (B # {})
    BY <1>1 DEF LoadNewHandles
  <1> HIDE DEF e
  <1>8. \A u \in B : e[u] < 0
    BY <1>3, <1>4, <1>7 DEF IsNextBatch, Eligible, Errors
  <1>9. \A u \in Urls : n_httperr'[u] = IF u \in B THEN 0 ELSE e[u]
    BY <1>7, <1>8 DEF Loaded
  <1>10. \A u \in Urls : e[u] < 0 => err[u] < 0
    BY <1>4, <1>5, <1>6 DEF Errors
  <1>11. \A u \in Urls : n_httperr'[u] < 0 => err[u] < 0
    BY <1>9, <1>10
  <1>12. PICK u \in B : TRUE
    BY <1>7, Zenon
  <1>13. err[u] < 0 /\ ~(n_httperr'[u] < 0)
    BY <1>8, <1>9, <1>10
  <1> QED
    BY <1>11, <1>13

(* With download-retries 0 or 1 every batch but the first takes some of    *)
(* the URLs not tried yet, however many there are and however the          *)
(* transfers end: a cycle has no more loads than it has URLs.              *)
THEOREM BatchesAdvance == Spec => BatchesProgress
  <1>1. ASSUME TypeOK, Inv, DlRetries <= 1, NextBatch, cm'
        PROVE  NotTried' \subseteq NotTried /\ NotTried' # NotTried
    <2>1. xfer \in Transfers /\ n_httperr \in Errors
      BY <1>1 DEF TypeOK, Transfers, Errors
    <2>2. \A u \in Batch(xfer) : n_httperr[u] >= 0
      BY <1>1 DEF Inv, Sound
    <2>3. BatchEnds(xfer, n_httperr, newentry, frees, tries, got)
      BY <1>1 DEF NextBatch
    <2>4. /\ \A u \in Urls : n_httperr'[u] < 0 => n_httperr[u] < 0
          /\ \E u \in Urls : n_httperr[u] < 0 /\ ~(n_httperr'[u] < 0)
      BY <1>1, <2>1, <2>2, <2>3, BatchEndsProgress
    <2> QED
      BY <2>4 DEF NotTried
  <1>2. TypeOK /\ Inv
          => [DlRetries <= 1 /\ NextBatch /\ cm'
                => NotTried' \subseteq NotTried /\ NotTried' # NotTried]_vars
    BY <1>1
  <1> QED
    BY <1>2, TypeCorrect, Invariance, PTL DEF BatchesProgress
=============================================================================
