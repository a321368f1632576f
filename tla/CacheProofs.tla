---------------------------- MODULE CacheProofs ----------------------------
(***************************************************************************)
(* Invariants of the article cache for every set of feeds and articles and *)
(* every setting, whatever sqlite fails and wherever the program ends; and *)
(* that the tables and the import implement ArticleStore.                  *)
(***************************************************************************)
EXTENDS Cache, FiniteSetTheorems, SequenceTheorems, TLAPS

(* How far the import is, and what its variables are then.                 *)
ImportState ==
    /\ at = "create" => tables < Len(Created)
    /\ at \in {"create", "idle"} => feedid = 0
    /\ at # "entries" => listed = {}

(* create_db creates six tables and views.                                 *)
LEMMA CreatedLen == Len(Created) = 6
  BY DEF Created

(* The rows are finitely many, so the unread ones can be counted.          *)
LEMMA FiniteRows ==
  ASSUME NEW e, DOMAIN e \subseteq 1 .. MaxEntryID
  PROVE  /\ IsFiniteSet(DOMAIN e) /\ IsFiniteSet(Unread(e))
         /\ Cardinality(Unread(e)) \in Nat
  <1>1. IsFiniteSet(1 .. MaxEntryID)
    BY CacheAssumption, FS_Interval
  <1>2. IsFiniteSet(DOMAIN e)
    BY <1>1, FS_Subset
  <1>3. Unread(e) \in SUBSET DOMAIN e
    BY DEF Unread
  <1>4. IsFiniteSet(Unread(e))
    BY <1>2, <1>3, FS_Subset
  <1> QED
    BY <1>2, <1>4, FS_CardinalityType

(* The type and the state of an import are kept by every step.             *)
LEMMA TypeInit == Init => TypeOK /\ ImportState
  <1> SUFFICES ASSUME Init PROVE TypeOK /\ ImportState
    OBVIOUS
  <1>1. << >> \in Seq(Urls)
    BY EmptySeq
  <1>2. EntryIDs = {} /\ entry \in [EntryIDs -> Row] /\ missed \in [EntryIDs -> 0 .. CyclesUntilDelete]
    BY DEF Init, EntryIDs
  <1>3. feed \in Seq(Urls)
    BY <1>1 DEF Init
  <1>4. /\ now \in 0 .. MaxNow
        /\ tables \in 0 .. Len(Created)
        /\ feedid \in Nat /\ n_unr \in Nat
    BY CreatedLen, CacheAssumption DEF Init
  <1>6. at = "create" /\ newentry \in BOOLEAN
    BY Zenon DEF Init
  <1>7. /\ listed \subseteq Articles /\ known \subseteq Articles
        /\ disturbed \subseteq {"exit", "fail"}
    BY DEF Init
  <1>5. TypeOK
    BY <1>2, <1>3, <1>4, <1>6, <1>7 DEF TypeOK
  <1> QED
    BY <1>5, CreatedLen DEF Init, ImportState

(* TypeOK in three parts: the rows, what the import returned, and the rest.*)
RowsTyped ==
    /\ EntryIDs \subseteq 1 .. MaxEntryID
    /\ entry \in [EntryIDs -> Row]
    /\ missed \in [EntryIDs -> 0 .. CyclesUntilDelete]

StateTyped ==
    /\ feed \in Seq(Urls) /\ now \in 0 .. MaxNow /\ tables \in 0 .. Len(Created)
    /\ at \in {"create", "idle", "init_cleanup", "entries"}
    /\ feedid \in Nat /\ n_unr \in Nat
    /\ listed \subseteq Articles /\ known \subseteq Articles
    /\ disturbed \subseteq {"exit", "fail"}

(* TypeOK in the parts the proofs take it in.                              *)
LEMMA TypeParts ==
  /\ TypeOK <=> RowsTyped /\ StateTyped /\ newentry \in BOOLEAN
  /\ TypeOK' <=> RowsTyped' /\ StateTyped' /\ newentry' \in BOOLEAN
  BY DEF TypeOK, RowsTyped, StateTyped

(* A step that leaves the rows alone.                                      *)
LEMMA RowsUnchanged ==
  ASSUME RowsTyped, UNCHANGED <<entry, missed>>
  PROVE  RowsTyped'
  BY DEF RowsTyped, EntryIDs

(* Creating a table keeps the types.                                       *)
LEMMA CreateTableType ==
  ASSUME TypeOK, ImportState, CreateTable
  PROVE  TypeOK' /\ ImportState'
  <1>1. RowsTyped'
    BY TypeParts, RowsUnchanged DEF CreateTable, history
  <1>2. StateTyped'
    BY TypeParts, CreatedLen DEF CreateTable, history, StateTyped, ImportState
  <1>3. newentry' \in BOOLEAN
    BY TypeParts DEF CreateTable
  <1>4. ImportState'
    BY CreatedLen DEF CreateTable, history, ImportState, TypeOK
  <1> QED
    BY <1>1, <1>2, <1>3, <1>4, TypeParts

(* So does storing the feed, whose id then is that of a row.               *)
LEMMA UpdateFeedType ==
  ASSUME TypeOK, ImportState, NEW u \in Urls, UpdateFeed(u)
  PROVE  TypeOK' /\ ImportState' /\ feedid' \in FeedIDs'
  <1>1. RowsTyped'
    BY TypeParts, RowsUnchanged DEF UpdateFeed
  <1>2. n_unr' \in Nat
    BY FiniteRows DEF UpdateFeed, TypeOK, EntryIDs
  <1>3. feed' \in Seq(Urls) /\ feedid' \in FeedIDs' /\ feedid' \in Nat
    <2>1. CASE \E f \in FeedIDs : feed[f] = u /\ feedid' = f /\ UNCHANGED feed
      BY <2>1, LenProperties DEF TypeOK, FeedIDs
    <2>2. CASE feed' = Append(feed, u) /\ feedid' = LastInsertRowid
      BY <2>2, AppendProperties, LenProperties DEF TypeOK, FeedIDs, LastInsertRowid
    <2> QED
      BY <2>1, <2>2 DEF UpdateFeed
  <1>4. known' \subseteq Articles
    <2>1. UNCHANGED entry /\ known' = ArticlesOf(feedid')
      BY DEF UpdateFeed
    <2> QED
      BY <2>1 DEF ArticlesOf, EntriesOf, TypeOK, Row
  <1>5. StateTyped'
    BY <1>2, <1>3, <1>4 DEF UpdateFeed, StateTyped, TypeOK
  <1>6. newentry' \in BOOLEAN
    BY Zenon DEF UpdateFeed
  <1>7. ImportState'
    BY DEF UpdateFeed, ImportState
  <1> QED
    BY <1>1, <1>3, <1>5, <1>6, <1>7, TypeParts

(* So does counting its articles as missing, which keeps all rows.         *)
LEMMA InitCleanupType ==
  ASSUME TypeOK, ImportState, InitCleanup
  PROVE  TypeOK' /\ ImportState' /\ EntryIDs' = EntryIDs
  <1>1. RowsTyped' /\ EntryIDs' = EntryIDs
    <2>1. CASE UNCHANGED entry
      BY <2>1, TypeParts, RowsUnchanged DEF InitCleanup, EntryIDs
    <2>2. CASE entry' = [i \in EntryIDs |-> IF i \in EntriesOf(feedid)
                                           THEN [entry[i] EXCEPT !.Current = Aged(@)]
                                           ELSE entry[i]]
      <3>1. \A c \in -CyclesUntilDelete .. 1 : Aged(c) \in -CyclesUntilDelete .. 1
        BY CacheAssumption DEF Aged
      <3>2. \A r \in Row : [r EXCEPT !.Current = Aged(@)] \in Row
        BY <3>1 DEF Row
      <3>3. EntryIDs' = EntryIDs
        BY <2>2 DEF EntryIDs
      <3>4. UNCHANGED missed
        BY DEF InitCleanup
      <3> QED
        BY <2>2, <3>2, <3>3, <3>4, TypeParts DEF RowsTyped
    <2> QED
      BY <2>1, <2>2 DEF InitCleanup
  <1>2. StateTyped'
    BY TypeParts DEF InitCleanup, StateTyped, Fails
  <1>3. newentry' \in BOOLEAN
    BY TypeParts DEF InitCleanup
  <1>4. ImportState'
    BY DEF InitCleanup, ImportState
  <1> QED
    BY <1>1, <1>2, <1>3, <1>4, TypeParts

(* So does storing an article in the row found for it or a new one.        *)
LEMMA UpdateEntryType ==
  ASSUME TypeOK, ImportState, NEW a \in Articles, NEW d \in 0 .. MaxNow, UpdateEntry(a, d)
  PROVE  TypeOK' /\ ImportState'
  <1> DEFINE old == Found(feedid, a)
             row == [FeedID |-> feedid, article |-> a, Viewed |-> ViewedBefore(old),
                     PubDate |-> d, Current |-> 1]
  <1>1. PICK id \in 1 .. MaxEntryID :
          /\ entry' = [i \in EntryIDs \cup {id} |-> IF i = id THEN row ELSE entry[i]]
          /\ missed' = [i \in EntryIDs \cup {id} |-> IF i = id THEN 0 ELSE missed[i]]
    BY DEF UpdateEntry
  <1>2. row \in Row
    <2>1. ViewedBefore(old) \in BOOLEAN
      BY DEF ViewedBefore
    <2> QED
      BY <2>1, CacheAssumption DEF Row, TypeOK
  <1>3. EntryIDs' = EntryIDs \cup {id}
    BY <1>1 DEF EntryIDs
  <1>4. RowsTyped'
    <2> HIDE DEF row
    <2> QED
      BY <1>1, <1>2, <1>3, TypeParts, CacheAssumption DEF RowsTyped
  <1>5. StateTyped'
    BY TypeParts DEF UpdateEntry, StateTyped
  <1>6. newentry' \in BOOLEAN
    BY TypeParts DEF UpdateEntry
  <1>7. ImportState'
    BY DEF UpdateEntry, ImportState
  <1> QED
    BY <1>4, <1>5, <1>6, <1>7, TypeParts

(* So does the deletion at the end of an import.                           *)
LEMMA FinishImportType ==
  ASSUME TypeOK, ImportState, FinishImport
  PROVE  TypeOK' /\ ImportState'
  <1>1. PICK gone : CleanupOld(gone)
    BY DEF FinishImport
  <1>2. EntryIDs' = EntryIDs \ gone
    BY <1>1 DEF CleanupOld, EntryIDs
  <1>3. RowsTyped'
    BY <1>1, <1>2, TypeParts, CacheAssumption DEF CleanupOld, RowsTyped
  <1>4. StateTyped'
    BY TypeParts DEF FinishImport, StateTyped, Fails
  <1>5. newentry' \in BOOLEAN
    <2>1. News(n_unr, Cardinality(Unread(entry'))) \in BOOLEAN
      BY DEF News
    <2> QED
      BY <2>1, Zenon DEF FinishImport
  <1>6. ImportState'
    BY DEF FinishImport, ImportState
  <1> QED
    BY <1>3, <1>4, <1>5, <1>6, TypeParts

(* So does the end of the program between two statements.                  *)
LEMMA ExitType ==
  ASSUME TypeOK, ImportState, Exit
  PROVE  TypeOK' /\ ImportState'
  <1>1. RowsTyped'
    BY TypeParts, RowsUnchanged DEF Exit
  <1>2. StateTyped'
    BY TypeParts DEF Exit, StateTyped
  <1>3. newentry' \in BOOLEAN
    BY Zenon DEF Exit
  <1>4. ImportState'
    BY DEF Exit, ImportState
  <1> QED
    BY <1>1, <1>2, <1>3, <1>4, TypeParts

(* So does a read mark.                                                    *)
LEMMA MarkType ==
  ASSUME TypeOK, ImportState, NEW ids, NEW v \in BOOLEAN, Mark(ids, v)
  PROVE  TypeOK' /\ ImportState'
  <1>1. EntryIDs' = EntryIDs /\ UNCHANGED missed
    BY DEF Mark, EntryIDs, history
  <1>2. RowsTyped'
    <2>1. \A r \in Row : [r EXCEPT !.Viewed = v] \in Row
      BY DEF Row
    <2> QED
      BY <1>1, <2>1, TypeParts DEF Mark, RowsTyped
  <1>3. StateTyped'
    BY TypeParts DEF Mark, StateTyped, history
  <1>4. newentry' \in BOOLEAN
    BY TypeParts DEF Mark
  <1>5. ImportState'
    BY DEF Mark, ImportState, history
  <1> QED
    BY <1>2, <1>3, <1>4, <1>5, TypeParts

(* So does the clock.                                                      *)
LEMMA TickType ==
  ASSUME TypeOK, ImportState, Tick
  PROVE  TypeOK' /\ ImportState'
  <1>1. RowsTyped'
    BY TypeParts, RowsUnchanged DEF Tick, history
  <1>2. StateTyped'
    BY TypeParts, CacheAssumption DEF Tick, StateTyped, history
  <1>3. newentry' \in BOOLEAN
    BY TypeParts DEF Tick
  <1>4. ImportState'
    BY DEF Tick, ImportState, history
  <1> QED
    BY <1>1, <1>2, <1>3, <1>4, TypeParts

(* The user's marks are changes of Viewed in some rows.                    *)
LEMMA MarksAreMark ==
  ASSUME TypeOK, Marks
  PROVE  \E ids, v : v \in BOOLEAN /\ Mark(ids, v)
  <1>1. CASE \E id \in EntryIDs : ToggleReadEntry(id)
    <2>1. PICK id \in EntryIDs : Mark({id}, ~entry[id].Viewed)
      BY <1>1 DEF ToggleReadEntry
    <2>2. (~entry[id].Viewed) \in BOOLEAN
      OBVIOUS
    <2> QED
      BY <2>1, <2>2
  <1>2. CASE \E id \in EntryIDs : ReadEntry(id)
    BY <1>2 DEF ReadEntry
  <1>3. CASE \E f \in FeedIDs \cup {0} : ReadFeed(f)
    BY <1>3 DEF ReadFeed
  <1> QED
    BY <1>1, <1>2, <1>3 DEF Marks

(* No step leaves the types.                                               *)
LEMMA TypeStep ==
  ASSUME TypeOK, ImportState, [Next]_vars
  PROVE  TypeOK' /\ ImportState'
  <1>1. CASE CreateTable
    BY <1>1, CreateTableType
  <1>2. CASE Import
    BY <1>2, UpdateFeedType, InitCleanupType, UpdateEntryType, FinishImportType, ExitType
       DEF Import
  <1>3. CASE Marks
    BY <1>3, MarksAreMark, MarkType
  <1>4. CASE Tick
    BY <1>4, TickType
  <1>5. CASE UNCHANGED vars
    <2>1. RowsTyped'
      BY <1>5, TypeParts, RowsUnchanged DEF vars, history
    <2>2. StateTyped' /\ newentry' \in BOOLEAN
      BY <1>5, TypeParts DEF vars, history, StateTyped
    <2> QED
      BY <1>5, <2>1, <2>2, TypeParts DEF vars, history, ImportState
  <1> QED
    BY <1>1, <1>2, <1>3, <1>4, <1>5 DEF Next

(* TypeOK and ImportState hold throughout.                                 *)
LEMMA Typing == Spec => [](TypeOK /\ ImportState)
  BY TypeInit, TypeStep, PTL DEF Spec

(* Every variable keeps its type: EntryIDs are handed out within the bound,*)
(* the tables are created once each, the unread can be counted.            *)
THEOREM TypeCorrect == Spec => []TypeOK
  BY Typing, PTL

-----------------------------------------------------------------------------

(* No step but update_entry adds a row or makes one another article's.     *)
SameRows ==
    /\ EntryIDs' \subseteq EntryIDs
    /\ \A i \in EntryIDs' : /\ entry'[i].FeedID = entry[i].FeedID
                            /\ entry'[i].article = entry[i].article

Stores == \E a \in Articles, d \in 0 .. MaxNow : UpdateEntry(a, d)

(* A step that stores no article gives no row another feed or article.     *)
LEMMA RowsKept ==
  ASSUME TypeOK, [Next]_vars, ~Stores
  PROVE  SameRows
  <1>1. CASE UNCHANGED entry
    BY <1>1 DEF SameRows, EntryIDs
  <1>2. CASE InitCleanup /\ ~UNCHANGED entry
    <2>1. entry' = [i \in EntryIDs |-> IF i \in EntriesOf(feedid)
                                      THEN [entry[i] EXCEPT !.Current = Aged(@)]
                                      ELSE entry[i]]
      BY <1>2 DEF InitCleanup
    <2>2. \A r \in Row : \A cur : LET s == [r EXCEPT !.Current = cur]
                                 IN  s.FeedID = r.FeedID /\ s.article = r.article
      BY DEF Row
    <2> QED
      BY <2>1, <2>2 DEF SameRows, EntryIDs, TypeOK
  <1>3. CASE FinishImport
    <2>1. PICK gone : CleanupOld(gone)
      BY <1>3 DEF FinishImport
    <2> QED
      BY <2>1 DEF CleanupOld, SameRows, EntryIDs
  <1>4. CASE Marks
    <2>1. PICK ids, v : Mark(ids, v)
      BY <1>4, MarksAreMark
    <2>2. \A r \in Row : LET s == [r EXCEPT !.Viewed = v]
                         IN  s.FeedID = r.FeedID /\ s.article = r.article
      BY DEF Row
    <2> QED
      BY <2>1, <2>2 DEF Mark, SameRows, EntryIDs, TypeOK
  <1>5. CASE CreateTable \/ Exit \/ Tick \/ \E u \in Urls : UpdateFeed(u)
    BY <1>1, <1>5 DEF CreateTable, Exit, Tick, UpdateFeed
  <1>6. CASE UNCHANGED vars
    BY <1>1, <1>6 DEF vars
  <1> QED
    BY <1>1, <1>2, <1>3, <1>4, <1>5, <1>6 DEF Next, Import, Stores

(* Table Feed only grows, by feeds it does not have.                       *)
LEMMA FeedGrows ==
  ASSUME TypeOK, TypeOK', [Next]_vars
  PROVE  \/ UNCHANGED feed
         \/ \E u \in Urls : /\ feed' = Append(feed, u)
                            /\ \A f \in FeedIDs : feed[f] # u
  <1>1. CASE \E u \in Urls : UpdateFeed(u)
    BY <1>1 DEF UpdateFeed
  <1>2. CASE Marks
    BY <1>2, MarksAreMark DEF Mark
  <1>3. CASE CreateTable \/ InitCleanup \/ Stores \/ FinishImport \/ Exit \/ Tick
    BY <1>3 DEF CreateTable, InitCleanup, Stores, UpdateEntry, FinishImport, Exit, Tick
  <1>4. CASE UNCHANGED vars
    BY <1>4 DEF vars
  <1> QED
    BY <1>1, <1>2, <1>3, <1>4 DEF Next, Import, Stores

(* What update_entry does when there are no duplicates: one row is written,*)
(* which is the only one of the article if the article has a unique id.    *)
Written(id, a, d) ==
    /\ EntryIDs' = EntryIDs \cup {id}
    /\ entry'[id] \in Row
    /\ entry'[id].FeedID = feedid /\ entry'[id].article = a /\ entry'[id].Current = 1
    /\ missed'[id] = 0
    /\ \A i \in EntryIDs \ {id} : /\ entry'[i] = entry[i] /\ missed'[i] = missed[i]
                                  /\ ~(entry[i].FeedID = feedid /\ entry[i].article = a
                                       /\ a \in Guided)
    /\ IF id \in EntryIDs
       THEN /\ entry[id].FeedID = feedid /\ entry[id].article = a /\ a \in Guided
            /\ entry'[id].Viewed = entry[id].Viewed
       ELSE ~entry'[id].Viewed

(* What update_entry writes, in terms of the row it writes to.             *)
LEMMA UpdateEntryWrites ==
  ASSUME TypeOK, ImportState, NoDuplicates,
         NEW a \in Articles, NEW d \in 0 .. MaxNow, UpdateEntry(a, d)
  PROVE  \E id \in 1 .. MaxEntryID : Written(id, a, d)
  <1> DEFINE old == Found(feedid, a)
             row == [FeedID |-> feedid, article |-> a, Viewed |-> ViewedBefore(old),
                     PubDate |-> d, Current |-> 1]
  <1>1. PICK id \in 1 .. MaxEntryID :
          /\ IF old = {} THEN IsNewID(id) ELSE id \in old
          /\ entry' = [i \in EntryIDs \cup {id} |-> IF i = id THEN row ELSE entry[i]]
          /\ missed' = [i \in EntryIDs \cup {id} |-> IF i = id THEN 0 ELSE missed[i]]
    BY DEF UpdateEntry
  <1>2. \A i \in EntryIDs : i \in old <=> /\ entry[i].FeedID = feedid
                                         /\ entry[i].article = a /\ a \in Guided
    BY DEF Found, EntriesOf
  <1>3. old \subseteq EntryIDs
    BY DEF Found, EntriesOf
  <1>4. EntryIDs' = EntryIDs \cup {id} /\ entry'[id] = row /\ missed'[id] = 0
    <2> HIDE DEF row
    <2> QED
      BY <1>1 DEF EntryIDs
  <1>5. \A i \in EntryIDs \ {id} : entry'[i] = entry[i] /\ missed'[i] = missed[i]
    BY <1>1
  <1>6. row \in Row
    <2>1. ViewedBefore(old) \in BOOLEAN
      BY DEF ViewedBefore
    <2> QED
      BY <2>1, CacheAssumption DEF Row, TypeOK
  <1>7. CASE old = {}
    <2>1. id \notin EntryIDs
      BY <1>1, <1>7 DEF IsNewID, TypeOK
    <2>2. ~row.Viewed
      BY <1>7 DEF ViewedBefore
    <2> QED
      BY <1>2, <1>4, <1>5, <1>6, <1>7, <2>1, <2>2 DEF Written
  <1>8. CASE old # {}
    <2>1. id \in old /\ \A j \in old : j = id
      BY <1>1, <1>2, <1>3, <1>8 DEF NoDuplicates
    <2>2. row.Viewed = entry[id].Viewed
      <3>1. row.Viewed <=> entry[id].Viewed
        BY <2>1 DEF ViewedBefore
      <3>2. entry[id].Viewed \in BOOLEAN
        BY <1>3, <2>1 DEF TypeOK, Row
      <3>3. row.Viewed \in BOOLEAN
        BY <1>6 DEF Row
      <3> HIDE DEF row
      <3> QED
        BY <3>1, <3>2, <3>3, Zenon
    <2>3. id \in EntryIDs /\ entry[id].FeedID = feedid /\ entry[id].article = a /\ a \in Guided
      BY <1>2, <1>3, <2>1
    <2>4. \A i \in EntryIDs \ {id} : ~(entry[i].FeedID = feedid /\ entry[i].article = a
                                       /\ a \in Guided)
      BY <1>2, <2>1
    <2> QED
      BY <1>4, <1>5, <1>6, <2>2, <2>3, <2>4 DEF Written
  <1> QED
    BY <1>7, <1>8

-----------------------------------------------------------------------------

(* No step makes a second row of a feed or of an article.                  *)
LEMMA NoDuplicatesStep ==
  ASSUME TypeOK, ImportState, TypeOK', NoDuplicates, [Next]_vars
  PROVE  NoDuplicates'
  <1>1. \A f, g \in FeedIDs' : feed'[f] = feed'[g] => f = g
    <2>1. CASE UNCHANGED feed
      BY <2>1 DEF NoDuplicates, FeedIDs
    <2>2. ASSUME NEW u \in Urls, feed' = Append(feed, u), \A f \in FeedIDs : feed[f] # u
          PROVE  \A f, g \in FeedIDs' : feed'[f] = feed'[g] => f = g
      <3>1. /\ FeedIDs = 1 .. Len(feed) /\ Len(feed) \in Nat
            /\ FeedIDs' = 1 .. Len(feed) + 1
        BY <2>2, AppendProperties, LenProperties DEF FeedIDs, TypeOK
      <3>2. /\ \A f \in FeedIDs : feed'[f] = feed[f]
            /\ feed'[Len(feed) + 1] = u
        BY <2>2, <3>1, AppendProperties DEF TypeOK
      <3> QED
        BY <2>2, <3>1, <3>2 DEF NoDuplicates
    <2> QED
      BY <2>1, <2>2, FeedGrows
  <1>2. \A i, j \in EntryIDs' :
          /\ entry'[i].FeedID = entry'[j].FeedID
          /\ entry'[i].article = entry'[j].article
          /\ entry'[i].article \in Guided
          => i = j
    <2>1. CASE Stores
      <3>1. PICK a \in Articles, d \in 0 .. MaxNow : UpdateEntry(a, d)
        BY <2>1 DEF Stores
      <3>2. PICK id \in 1 .. MaxEntryID : Written(id, a, d)
        BY <3>1, UpdateEntryWrites
      <3> QED
        BY <3>2 DEF Written, NoDuplicates
    <2>2. CASE ~Stores
      BY <2>2, RowsKept DEF SameRows, NoDuplicates
    <2> QED
      BY <2>1, <2>2
  <1> QED
    BY <1>1, <1>2 DEF NoDuplicates

(* A feed has one row, and an article with a unique id has one row in it:  *)
(* the SELECT inside each INSERT OR REPLACE finds the row to replace,      *)
(* whatever was interrupted or failed before.                              *)
THEOREM RowsUnique == Spec => []NoDuplicates
  <1>1. Init => NoDuplicates
    <2> SUFFICES ASSUME Init PROVE NoDuplicates
      OBVIOUS
    <2>1. FeedIDs = {} /\ EntryIDs = {}
      BY DEF Init, FeedIDs, EntryIDs
    <2> QED
      BY <2>1 DEF NoDuplicates
  <1> QED
    BY <1>1, Typing, NoDuplicatesStep, PTL DEF Spec

(* No step leaves a row without its feed.                                  *)
LEMMA NoOrphansStep ==
  ASSUME TypeOK, ImportState, NoDuplicates, NoOrphans, TypeOK', [Next]_vars
  PROVE  NoOrphans'
  <1>1. FeedIDs \subseteq FeedIDs'
    <2>1. CASE UNCHANGED feed
      BY <2>1 DEF FeedIDs
    <2>2. ASSUME NEW u \in Urls, feed' = Append(feed, u)
          PROVE  FeedIDs \subseteq FeedIDs'
      BY <2>2, AppendProperties, LenProperties DEF FeedIDs, TypeOK
    <2> QED
      BY <2>1, <2>2, FeedGrows
  <1>2. at' \in {"init_cleanup", "entries"} => feedid' \in FeedIDs'
    <2>1. CASE \E u \in Urls : UpdateFeed(u)
      BY <2>1, UpdateFeedType
    <2>2. CASE Marks
      BY <1>1, <2>2, MarksAreMark DEF Mark, NoOrphans
    <2>3. CASE CreateTable \/ InitCleanup \/ Stores \/ FinishImport \/ Exit \/ Tick
      BY <1>1, <2>3 DEF CreateTable, InitCleanup, Stores, UpdateEntry, FinishImport, Exit,
                        Tick, NoOrphans
    <2>4. CASE UNCHANGED vars
      BY <1>1, <2>4 DEF vars, NoOrphans
    <2> QED
      BY <2>1, <2>2, <2>3, <2>4 DEF Next, Import, Stores
  <1>3. \A i \in EntryIDs' : entry'[i].FeedID \in FeedIDs'
    <2>1. CASE Stores
      <3>1. PICK a \in Articles, d \in 0 .. MaxNow : UpdateEntry(a, d)
        BY <2>1 DEF Stores
      <3>2. PICK id \in 1 .. MaxEntryID : Written(id, a, d)
        BY <3>1, UpdateEntryWrites
      <3>3. feedid \in FeedIDs
        BY <3>1 DEF UpdateEntry, NoOrphans
      <3> QED
        BY <1>1, <3>2, <3>3 DEF Written, NoOrphans
    <2>2. CASE ~Stores
      BY <1>1, <2>2, RowsKept DEF SameRows, NoOrphans
    <2> QED
      BY <2>1, <2>2
  <1> QED
    BY <1>2, <1>3 DEF NoOrphans

(* Rows belong to a feed that has a row, and so does an import.            *)
THEOREM RowsOwned == Spec => []NoOrphans
  <1>1. Init => NoOrphans
    <2> SUFFICES ASSUME Init PROVE NoOrphans
      OBVIOUS
    <2>1. EntryIDs = {} /\ at = "create"
      BY DEF Init, EntryIDs
    <2> QED
      BY <2>1 DEF NoOrphans
  <1> QED
    BY <1>1, Typing, RowsUnique, NoOrphansStep, PTL DEF Spec

-----------------------------------------------------------------------------

(* How many complete imports row i has been missing from, with the one     *)
(* that goes on if that has not listed its article so far.                 *)
Pending(i) == /\ at = "entries" /\ entry[i].FeedID = feedid
              /\ entry[i].article \notin listed
Missing(i) == IF Pending(i) THEN missed[i] + 1 ELSE missed[i]

(* Current and that number keep step for an article with a unique id: it   *)
(* is 1 when the article was just listed; it does not run ahead unless an  *)
(* import was cut short, whose decrement is not undone; and it does not    *)
(* fall behind unless a decrement failed.                                  *)
RowAged(i) ==
    /\ at = "entries" /\ entry[i].FeedID = feedid /\ entry[i].article \in listed
         => entry[i].Current = 1
    /\ "exit" \notin disturbed /\ missed[i] < CyclesUntilDelete
         => entry[i].Current >= 1 - Missing(i)
    /\ disturbed = {}
         => entry[i].Current <= 1 - Missing(i) \/ entry[i].Current = -CyclesUntilDelete

Aging == \A i \in EntryIDs : entry[i].article \in Guided => RowAged(i)

(* A step outside of the entries of an import that leaves Current alone.   *)
LEMMA RowAgedKept ==
  ASSUME NEW i, RowAged(i),
         entry'[i].FeedID = entry[i].FeedID, entry'[i].article = entry[i].article,
         entry'[i].Current = entry[i].Current, missed'[i] = missed[i],
         disturbed \subseteq disturbed',
         UNCHANGED <<at, feedid, listed>> \/ (at # "entries" /\ at' # "entries")
  PROVE  RowAged(i)'
  <1>1. Pending(i)' <=> Pending(i)
    BY DEF Pending
  <1>2. Missing(i)' = Missing(i)
    BY <1>1 DEF Missing
  <1> QED
    BY <1>2 DEF RowAged

(* Counting the articles as missing keeps Aging.                           *)
LEMMA AgingCleanup ==
  ASSUME TypeOK, ImportState, Aging, TypeOK', InitCleanup
  PROVE  Aging'
  <1>1. EntryIDs' = EntryIDs
    BY InitCleanupType
  <1>2. SUFFICES ASSUME NEW i \in EntryIDs, entry'[i].article \in Guided
                 PROVE  RowAged(i)'
    BY <1>1 DEF Aging
  <1>3. /\ at = "init_cleanup" /\ at' = "entries" /\ listed' = {} /\ missed'[i] = missed[i]
        /\ feedid' = feedid /\ listed = {}
    BY DEF InitCleanup, ImportState
  <1>4. /\ missed[i] \in 0 .. CyclesUntilDelete /\ CyclesUntilDelete \in Nat
        /\ entry[i].Current \in -CyclesUntilDelete .. 1
        /\ entry[i] \in Row
    BY CacheAssumption DEF TypeOK, Row
  <1>5. Missing(i) = missed[i]
    BY <1>3 DEF Missing, Pending
  <1>6. Missing(i)' = IF entry'[i].FeedID = feedid THEN missed[i] + 1 ELSE missed[i]
    BY <1>3 DEF Missing, Pending
  <1>7. CASE UNCHANGED entry /\ "fail" \in disturbed' /\ disturbed \subseteq disturbed'
             /\ ("exit" \in disturbed' => "exit" \in disturbed)
    <2>1. RowAged(i)
      BY <1>2, <1>7 DEF Aging
    <2> QED
      BY <1>3, <1>4, <1>5, <1>6, <1>7, <2>1 DEF RowAged
  <1>8. CASE /\ entry' = [j \in EntryIDs |-> IF j \in EntriesOf(feedid)
                                            THEN [entry[j] EXCEPT !.Current = Aged(@)]
                                            ELSE entry[j]]
             /\ UNCHANGED disturbed
    <2>1. entry'[i] = IF entry[i].FeedID = feedid
                      THEN [entry[i] EXCEPT !.Current = Aged(@)] ELSE entry[i]
      BY <1>8 DEF EntriesOf
    <2>2. /\ entry'[i].FeedID = entry[i].FeedID /\ entry'[i].article = entry[i].article
          /\ entry'[i].Current = IF entry[i].FeedID = feedid
                                 THEN Aged(entry[i].Current) ELSE entry[i].Current
      BY <1>4, <2>1 DEF Row
    <2>3. RowAged(i)
      BY <1>2, <2>2 DEF Aging
    <2>4. CASE entry[i].FeedID = feedid
      <3>1. Missing(i)' = missed[i] + 1
        BY <1>6, <2>2, <2>4
      <3>2. entry'[i].Current = IF entry[i].Current > -CyclesUntilDelete
                                THEN entry[i].Current - 1 ELSE entry[i].Current
        BY <2>2, <2>4 DEF Aged
      <3> QED
        BY <1>3, <1>4, <1>5, <1>8, <2>3, <3>1, <3>2 DEF RowAged
    <2>5. CASE entry[i].FeedID # feedid
      BY <1>3, <1>5, <1>6, <1>8, <2>2, <2>3, <2>5 DEF RowAged
    <2> QED
      BY <2>4, <2>5
  <1> QED
    BY <1>7, <1>8 DEF InitCleanup, Fails

(* So does storing an article, which counts as seen.                       *)
LEMMA AgingStore ==
  ASSUME TypeOK, ImportState, NoDuplicates, Aging, TypeOK',
         NEW a \in Articles, NEW d \in 0 .. MaxNow, UpdateEntry(a, d)
  PROVE  Aging'
  <1>1. PICK id \in 1 .. MaxEntryID : Written(id, a, d)
    BY UpdateEntryWrites
  <1>2. /\ at = "entries" /\ UNCHANGED <<at, feedid, disturbed>>
        /\ listed' = listed \cup {a}
    BY DEF UpdateEntry
  <1>3. RowAged(id)'
    <2>1. /\ entry'[id].FeedID = feedid' /\ entry'[id].article \in listed'
          /\ entry'[id].Current = 1 /\ missed'[id] = 0
      BY <1>1, <1>2 DEF Written
    <2>2. Missing(id)' = 0
      BY <2>1 DEF Missing, Pending
    <2> QED
      BY <2>1, <2>2 DEF RowAged
  <1>4. ASSUME NEW i \in EntryIDs \ {id}, entry'[i].article \in Guided
        PROVE  RowAged(i)'
    <2>1. /\ entry'[i] = entry[i] /\ missed'[i] = missed[i]
          /\ ~(entry[i].FeedID = feedid /\ entry[i].article = a)
      BY <1>1, <1>4 DEF Written
    <2>2. Pending(i)' <=> Pending(i)
      BY <1>2, <2>1 DEF Pending
    <2>3. Missing(i)' = Missing(i)
      BY <2>1, <2>2 DEF Missing
    <2>4. RowAged(i)
      BY <1>4, <2>1 DEF Aging
    <2> QED
      BY <1>2, <2>1, <2>3, <2>4 DEF RowAged
  <1> QED
    BY <1>1, <1>3, <1>4 DEF Aging, Written

(* So does the deletion.                                                   *)
LEMMA AgingFinish ==
  ASSUME TypeOK, ImportState, Aging, TypeOK', FinishImport
  PROVE  Aging'
  <1>1. PICK gone : CleanupOld(gone)
    BY DEF FinishImport
  <1>2. EntryIDs' = EntryIDs \ gone
    BY <1>1 DEF CleanupOld, EntryIDs
  <1>3. SUFFICES ASSUME NEW i \in EntryIDs \ gone, entry'[i].article \in Guided
                 PROVE  RowAged(i)'
    BY <1>2 DEF Aging
  <1>4. at = "entries" /\ at' = "idle" /\ disturbed \subseteq disturbed'
    BY DEF FinishImport, Fails
  <1>5. /\ entry'[i] = entry[i]
        /\ missed'[i] = IF Pending(i) /\ missed[i] < CyclesUntilDelete
                        THEN missed[i] + 1 ELSE missed[i]
    BY <1>1, <1>4 DEF CleanupOld, Pending, EntriesOf
  <1>6. RowAged(i)
    BY <1>3, <1>5 DEF Aging
  <1>7. Missing(i)' = missed'[i]
    BY <1>4 DEF Missing, Pending
  <1>8. /\ missed[i] \in 0 .. CyclesUntilDelete /\ CyclesUntilDelete \in Nat
        /\ entry[i].Current \in -CyclesUntilDelete .. 1
    BY CacheAssumption DEF TypeOK, Row
  <1> QED
    BY <1>4, <1>5, <1>6, <1>7, <1>8 DEF RowAged, Missing

(* So does any step.                                                       *)
LEMMA AgingStep ==
  ASSUME TypeOK, ImportState, NoDuplicates, Aging, TypeOK', [Next]_vars
  PROVE  Aging'
  <1>1. CASE Stores
    BY <1>1, AgingStore DEF Stores
  <1>2. CASE InitCleanup
    BY <1>2, AgingCleanup
  <1>3. CASE FinishImport
    BY <1>3, AgingFinish
  <1>4. CASE Marks
    <2>1. PICK ids, v : Mark(ids, v)
      BY <1>4, MarksAreMark
    <2>2. EntryIDs' = EntryIDs
      BY <2>1 DEF Mark, EntryIDs
    <2>3. ASSUME NEW i \in EntryIDs
          PROVE  /\ entry'[i].FeedID = entry[i].FeedID
                 /\ entry'[i].article = entry[i].article
                 /\ entry'[i].Current = entry[i].Current
                 /\ UNCHANGED <<missed, disturbed, at, feedid, listed>>
      BY <2>1 DEF Mark, TypeOK, Row, history
    <2> QED
      BY <2>2, <2>3, RowAgedKept DEF Aging
  <1>5. CASE CreateTable \/ Tick \/ UNCHANGED vars \/ \E u \in Urls : UpdateFeed(u)
    <2>1. UNCHANGED <<entry, missed, disturbed>>
      BY <1>5 DEF CreateTable, Tick, vars, UpdateFeed, history
    <2>2. UNCHANGED <<at, feedid, listed>> \/ (at # "entries" /\ at' # "entries")
      BY <1>5 DEF CreateTable, Tick, vars, UpdateFeed, history
    <2> QED
      BY <2>1, <2>2, RowAgedKept DEF Aging, EntryIDs
  <1>6. CASE Exit
    <2>1. UNCHANGED entry /\ at' = "idle" /\ "exit" \in disturbed'
      BY <1>6 DEF Exit
    <2> QED
      BY <2>1 DEF Aging, RowAged
  <1> QED
    BY <1>1, <1>2, <1>3, <1>4, <1>5, <1>6 DEF Next, Import, Stores

(* Current says for how many complete imports an article was missing.      *)
LEMMA AgingInvariant == Spec => []Aging
  <1>1. Init => Aging
    BY DEF Init, Aging, EntryIDs
  <1> QED
    BY <1>1, Typing, RowsUnique, AgingStep, PTL DEF Spec

-----------------------------------------------------------------------------

(* A step of an import changes no mark, and no row of another feed.        *)
LEMMA ImportKeepsMarksStep ==
  ASSUME TypeOK, ImportState, NoDuplicates, TypeOK', [Next]_vars, at # "idle"
  PROVE  /\ \A i \in Kept : /\ entry'[i].Viewed = entry[i].Viewed
                            /\ entry'[i].article = entry[i].article
                            /\ entry'[i].FeedID = entry[i].FeedID
         /\ \A i \in EntryIDs \ EntriesOf(feedid) : i \in Kept /\ entry'[i] = entry[i]
  <1>1. CASE UNCHANGED entry
    BY <1>1 DEF Kept, EntryIDs
  <1>2. CASE InitCleanup /\ ~UNCHANGED entry
    <2>1. entry' = [i \in EntryIDs |-> IF i \in EntriesOf(feedid)
                                      THEN [entry[i] EXCEPT !.Current = Aged(@)]
                                      ELSE entry[i]]
      BY <1>2 DEF InitCleanup
    <2>2. \A r \in Row : \A cur : LET s == [r EXCEPT !.Current = cur]
                                 IN  /\ s.FeedID = r.FeedID /\ s.article = r.article
                                     /\ s.Viewed = r.Viewed
      BY DEF Row
    <2> QED
      BY <2>1, <2>2 DEF Kept, EntryIDs, TypeOK
  <1>3. CASE Stores
    <2>1. PICK a \in Articles, d \in 0 .. MaxNow : UpdateEntry(a, d)
      BY <1>3 DEF Stores
    <2>2. PICK id \in 1 .. MaxEntryID : Written(id, a, d)
      BY <2>1, UpdateEntryWrites
    <2>3. EntryIDs' = EntryIDs \cup {id} /\ Kept = EntryIDs
      BY <2>2 DEF Written, Kept, EntryIDs
    <2> QED
      BY <2>2, <2>3 DEF Written, EntriesOf
  <1>4. CASE FinishImport
    <2>1. PICK gone \in {{}, Deletable(feedid)} : CleanupOld(gone)
      BY <1>4 DEF FinishImport
    <2>2. gone \subseteq EntriesOf(feedid)
      BY <2>1 DEF Deletable
    <2> QED
      BY <2>1, <2>2 DEF CleanupOld, Kept, EntryIDs
  <1>5. CASE CreateTable \/ Exit \/ Tick \/ UNCHANGED vars
    BY <1>1, <1>5 DEF CreateTable, Exit, Tick, vars
  <1>6. ~Marks /\ ~(\E u \in Urls : UpdateFeed(u))
    BY MarksAreMark DEF Mark, UpdateFeed
  <1> QED
    BY <1>2, <1>1, <1>3, <1>4, <1>5, <1>6 DEF Next, Import, Stores

(* An import, complete or cut short, leaves other feeds alone and changes  *)
(* no read mark: an article that is stored again has just the one row      *)
(* whose Viewed the SELECT of update_entry finds.                          *)
THEOREM MarksSurviveImport == Spec => ImportKeepsMarks
  BY Typing, RowsUnique, ImportKeepsMarksStep, PTL DEF Spec, ImportKeepsMarks

(* Rows go only at the end of an import, and only those of cache_cleanup_old.*)
LEMMA GoneAreDeletable ==
  ASSUME TypeOK, [Next]_vars, NEW i \in Gone
  PROVE  FinishImport /\ i \in Deletable(feedid)
  <1>1. CASE UNCHANGED entry
    BY <1>1 DEF Gone, EntryIDs
  <1>2. CASE InitCleanup /\ ~UNCHANGED entry
    BY <1>2 DEF InitCleanup, Gone
  <1>3. CASE Stores
    BY <1>3 DEF Stores, UpdateEntry, Gone
  <1>4. CASE FinishImport
    BY <1>4 DEF FinishImport, CleanupOld, Gone
  <1>5. CASE Marks
    BY <1>5, MarksAreMark DEF Mark, Gone
  <1>6. CASE CreateTable \/ Exit \/ Tick \/ UNCHANGED vars \/ \E u \in Urls : UpdateFeed(u)
    BY <1>1, <1>6 DEF CreateTable, Exit, Tick, vars, UpdateFeed
  <1> QED
    BY <1>1, <1>2, <1>3, <1>4, <1>5, <1>6 DEF Next, Import, Stores

(* What the test of Current in cache_cleanup_old says of a deleted row.    *)
LEMMA DeletedWasAged ==
  ASSUME TypeOK, ImportState, Aging, [Next]_vars, NEW i \in Gone
  PROVE  /\ entry[i].Viewed /\ entry[i].PubDate < now - Retention
         /\ entry[i].FeedID = feedid
         /\ entry[i].article \in Guided => entry[i].article \notin listed
         /\ entry[i].article \in Guided /\ "exit" \notin disturbed
              => missed[i] >= CyclesUntilDelete
  <1>1. FinishImport /\ i \in Deletable(feedid) /\ i \in EntryIDs
    BY GoneAreDeletable DEF Gone
  <1>2. at = "entries"
    BY <1>1 DEF FinishImport
  <1>3. /\ entry[i].FeedID = feedid /\ entry[i].Viewed
        /\ entry[i].PubDate < now - Retention
        /\ entry[i].Current <= -CyclesUntilDelete
    BY <1>1 DEF Deletable, EntriesOf
  <1>4. /\ missed[i] \in 0 .. CyclesUntilDelete /\ CyclesUntilDelete \in Nat
        /\ entry[i].Current \in -CyclesUntilDelete .. 1
    BY <1>1, CacheAssumption DEF TypeOK, Row
  <1>5. CASE entry[i].article \in Guided
    <2>1. RowAged(i)
      BY <1>1, <1>5 DEF Aging
    <2>2. entry[i].article \notin listed
      BY <1>2, <1>3, <1>4, <2>1 DEF RowAged
    <2>3. "exit" \notin disturbed => missed[i] >= CyclesUntilDelete
      <3>1. Missing(i) = missed[i] + 1
        BY <1>2, <1>3, <2>2 DEF Missing, Pending
      <3> QED
        BY <1>3, <1>4, <2>1, <3>1 DEF RowAged
    <2> QED
      BY <1>3, <2>2, <2>3
  <1> QED
    BY <1>3, <1>5

(* Only what was read, is older than the retention and is not in the       *)
(* document just imported is ever deleted.                                 *)
THEOREM StaleOnly == Spec => OnlyStaleDeleted
  <1>1. ASSUME TypeOK, ImportState, Aging, [Next]_vars
        PROVE  \A i \in Gone : /\ entry[i].Viewed
                               /\ entry[i].PubDate < now - Retention
                               /\ entry[i].FeedID = feedid
                               /\ entry[i].article \notin listed \/ entry[i].article \notin Guided
    BY <1>1, DeletedWasAged
  <1> QED
    BY <1>1, Typing, AgingInvariant, PTL DEF Spec, OnlyStaleDeleted

(* CYCLES_UNTIL_DELETE is honoured: what is deleted has been missing from  *)
(* that many complete imports, for every value of it, unless an import was *)
(* cut short.                                                              *)
THEOREM GraceKept == Spec => GracePeriod
  <1>1. ASSUME TypeOK, ImportState, Aging, [Next]_vars
        PROVE  \A i \in Gone :
                 entry[i].article \in Guided /\ "exit" \notin disturbed
                     => missed[i] >= CyclesUntilDelete
    BY <1>1, DeletedWasAged
  <1> QED
    BY <1>1, Typing, AgingInvariant, PTL DEF Spec, GracePeriod

(* An import that ends undisturbed deletes what is stale.                  *)
LEMMA StaleGoneStep ==
  ASSUME TypeOK, ImportState, Aging, [Next]_vars, Finished
  PROVE  \A i \in EntriesOf(feedid) : Stale(i) => i \in Gone
  <1> SUFFICES ASSUME NEW i \in EntriesOf(feedid), Stale(i)
               PROVE  i \in Gone
    OBVIOUS
  <1>1. FinishImport
    <2>1. at = "entries" /\ at' = "idle"
      BY DEF Finished
    <2>2. ~Marks
      BY <2>1, MarksAreMark DEF Mark
    <2> QED
      BY <2>1, <2>2 DEF Finished, Next, Import, CreateTable, UpdateFeed, InitCleanup,
                        UpdateEntry, Exit, Tick, vars
  <1>2. disturbed' = {} /\ at = "entries"
    BY DEF Finished
  <1>3. CleanupOld(Deletable(feedid)) /\ disturbed = {}
    BY <1>1, <1>2 DEF FinishImport, Fails
  <1>4. i \in EntryIDs /\ entry[i].FeedID = feedid /\ entry[i].article \in Guided \ listed
    BY DEF EntriesOf, Stale
  <1>5. RowAged(i)
    BY <1>4 DEF Aging
  <1>6. Missing(i) = missed[i] + 1 /\ missed[i] >= CyclesUntilDelete
    BY <1>2, <1>4 DEF Missing, Pending, Stale
  <1>7. /\ missed[i] \in 0 .. CyclesUntilDelete /\ CyclesUntilDelete \in Nat
        /\ entry[i].Current \in -CyclesUntilDelete .. 1
    BY <1>4, CacheAssumption DEF TypeOK, Row
  <1>8. entry[i].Current <= -CyclesUntilDelete
    BY <1>3, <1>5, <1>6, <1>7 DEF RowAged
  <1>9. i \in Deletable(feedid)
    BY <1>4, <1>8 DEF Deletable, EntriesOf, Stale
  <1> QED
    BY <1>3, <1>4, <1>9 DEF CleanupOld, Gone

(* And a complete import deletes all of those, if nothing was disturbed.   *)
THEOREM AllStaleGo == Spec => StaleGone
  BY Typing, AgingInvariant, StaleGoneStep, PTL DEF Spec, StaleGone

-----------------------------------------------------------------------------

(* During an import the feed has the articles it had and those listed, and *)
(* there are more unread ones than were counted before it just when one of *)
(* the listed is news.                                                     *)
Importing == at \in {"init_cleanup", "entries"}
Counts == /\ n_unr <= Cardinality(Unread(entry))
          /\ n_unr < Cardinality(Unread(entry)) <=> listed \ (known \cap Guided) # {}
NewsCounted == Importing => ArticlesOf(feedid) = known \cup listed /\ Counts

(* The first count of the unread is taken when the feed is stored.         *)
LEMMA NewsFeed ==
  ASSUME TypeOK, ImportState, NEW u \in Urls, UpdateFeed(u)
  PROVE  NewsCounted'
  <1>1. UNCHANGED entry
    BY DEF UpdateFeed
  <1>2. known' = ArticlesOf(feedid)' /\ listed' = {}
    BY <1>1 DEF UpdateFeed, ArticlesOf, EntriesOf, EntryIDs
  <1>3. n_unr' = Cardinality(Unread(entry))' /\ Cardinality(Unread(entry)) \in Nat
    BY <1>1, FiniteRows DEF UpdateFeed, TypeOK, EntryIDs
  <1>4. Counts'
    BY <1>1, <1>2, <1>3 DEF Counts
  <1> QED
    BY <1>2, <1>4 DEF NewsCounted

(* Ageing touches neither.                                                 *)
LEMMA NewsCleanup ==
  ASSUME TypeOK, ImportState, NoDuplicates, TypeOK', NewsCounted, InitCleanup
  PROVE  NewsCounted'
  <1>1. EntryIDs' = EntryIDs /\ at # "idle" /\ Importing
    BY InitCleanupType DEF InitCleanup, Importing
  <1>2. \A i \in EntryIDs : /\ entry'[i].Viewed = entry[i].Viewed
                            /\ entry'[i].article = entry[i].article
                            /\ entry'[i].FeedID = entry[i].FeedID
    <2>1. Next
      BY DEF Next, Import
    <2>2. Kept = EntryIDs
      BY <1>1 DEF Kept, EntryIDs
    <2> QED
      BY <1>1, <2>1, <2>2, ImportKeepsMarksStep
  <1>3. Unread(entry)' = Unread(entry)
    BY <1>1, <1>2 DEF Unread, EntryIDs
  <1>4. UNCHANGED <<feedid, n_unr, known, listed>>
    BY DEF InitCleanup, ImportState
  <1>5. ArticlesOf(feedid)' = ArticlesOf(feedid)
    BY <1>1, <1>2, <1>4 DEF ArticlesOf, EntriesOf
  <1>6. Counts <=> Counts'
    BY <1>3, <1>4 DEF Counts
  <1> QED
    BY <1>1, <1>4, <1>5, <1>6 DEF NewsCounted

(* A row is added just when the article is news, and is unread then.       *)
LEMMA NewsStore ==
  ASSUME TypeOK, ImportState, NoDuplicates, TypeOK', NewsCounted,
         NEW a \in Articles, NEW d \in 0 .. MaxNow, UpdateEntry(a, d)
  PROVE  NewsCounted'
  <1>1. PICK id \in 1 .. MaxEntryID : Written(id, a, d)
    BY UpdateEntryWrites
  <1>2. /\ Importing /\ listed' = listed \cup {a}
        /\ UNCHANGED <<feedid, n_unr, known>>
    BY DEF UpdateEntry, Importing
  <1>3. ArticlesOf(feedid) = known \cup listed /\ Counts
    BY <1>2 DEF NewsCounted
  <1>4. EntryIDs' = EntryIDs \cup {id}
    BY <1>1 DEF Written
  <1>5. \A b : b \in ArticlesOf(feedid)' <=>
               \E i \in EntryIDs' : entry'[i].FeedID = feedid /\ entry'[i].article = b
    BY <1>2 DEF ArticlesOf, EntriesOf
  <1>6. \A b : b \in ArticlesOf(feedid) <=>
               \E i \in EntryIDs : entry[i].FeedID = feedid /\ entry[i].article = b
    BY DEF ArticlesOf, EntriesOf
  <1>7. ArticlesOf(feedid)' = known' \cup listed'
    <2>1. /\ entry'[id].FeedID = feedid /\ entry'[id].article = a
          /\ id \in EntryIDs => entry[id].FeedID = feedid /\ entry[id].article = a
          /\ \A i \in EntryIDs \ {id} : entry'[i] = entry[i]
      BY <1>1 DEF Written
    <2>2. \A b : b \in ArticlesOf(feedid)' <=> b = a \/ b \in ArticlesOf(feedid)
      BY <1>4, <1>5, <1>6, <2>1
    <2> QED
      BY <1>2, <1>3, <2>2
  <1>8. IsFiniteSet(Unread(entry)) /\ Cardinality(Unread(entry)) \in Nat
    BY FiniteRows DEF TypeOK, EntryIDs
  <1>9. CASE id \in EntryIDs
    <2>1. Unread(entry') = Unread(entry)
      BY <1>1, <1>4, <1>9 DEF Written, Unread, EntryIDs
    <2>2. a \in Guided /\ a \in known \cup listed
      BY <1>1, <1>3, <1>6, <1>9 DEF Written
    <2>3. listed' \ (known \cap Guided) = {} <=> listed \ (known \cap Guided) = {}
      BY <1>2, <2>2
    <2>4. Counts'
      BY <1>2, <1>3, <2>1, <2>3 DEF Counts
    <2> QED
      BY <1>7, <2>4 DEF NewsCounted
  <1>10. CASE id \notin EntryIDs
    <2>1. Unread(entry') = Unread(entry) \cup {id} /\ id \notin Unread(entry)
      BY <1>1, <1>4, <1>10 DEF Written, Unread, EntryIDs
    <2>2. Cardinality(Unread(entry')) = Cardinality(Unread(entry)) + 1
      BY <1>8, <2>1, FS_AddElement
    <2>3. a \notin Guided \/ a \notin known
      BY <1>1, <1>3, <1>6, <1>10 DEF Written
    <2>4. listed' \ (known \cap Guided) # {}
      BY <1>2, <2>3
    <2>5. n_unr \in Nat
      BY DEF TypeOK
    <2>6. Counts'
      BY <1>2, <1>3, <1>8, <2>2, <2>4, <2>5 DEF Counts
    <2> QED
      BY <1>7, <2>6 DEF NewsCounted
  <1> QED
    BY <1>9, <1>10

(* It is then short of the unread exactly when an article came in new.     *)
LEMMA NewsStep ==
  ASSUME TypeOK, ImportState, NoDuplicates, TypeOK', NewsCounted, [Next]_vars
  PROVE  NewsCounted'
  <1>1. CASE \E u \in Urls : UpdateFeed(u)
    BY <1>1, NewsFeed
  <1>2. CASE InitCleanup
    BY <1>2, NewsCleanup
  <1>3. CASE Stores
    BY <1>3, NewsStore DEF Stores
  <1>4. CASE CreateTable \/ FinishImport \/ Exit
    <2>1. ~Importing'
      BY <1>4 DEF CreateTable, FinishImport, Exit, Importing
    <2> QED
      BY <2>1 DEF NewsCounted
  <1>5. CASE Marks
    <2>1. ~Importing'
      BY <1>5, MarksAreMark DEF Mark, Importing
    <2> QED
      BY <2>1 DEF NewsCounted
  <1>6. CASE Tick \/ UNCHANGED vars
    <2>1. UNCHANGED <<at, entry, feedid, n_unr, known, listed>>
      BY <1>6 DEF Tick, vars, history
    <2> QED
      BY <2>1 DEF NewsCounted, Importing, Counts, ArticlesOf, EntriesOf, EntryIDs
  <1> QED
    BY <1>1, <1>2, <1>3, <1>4, <1>5, <1>6 DEF Next, Import, Stores

(* So at the end the two counts differ when there are any.                 *)
LEMMA NewsReportedStep ==
  ASSUME TypeOK, ImportState, NewsCounted, [Next]_vars, Finished
  PROVE  newentry' = (listed \ (known \cap Guided) # {})
  <1>1. FinishImport
    <2>1. at = "entries" /\ at' = "idle"
      BY DEF Finished
    <2>2. ~Marks
      BY <2>1, MarksAreMark DEF Mark
    <2> QED
      BY <2>1, <2>2 DEF Finished, Next, Import, CreateTable, UpdateFeed, InitCleanup,
                        UpdateEntry, Exit, Tick, vars
  <1>2. /\ CleanupOld(Deletable(feedid))
        /\ newentry' = News(n_unr, Cardinality(Unread(entry')))
    BY <1>1 DEF FinishImport, Fails, Finished
  <1>3. Unread(entry') = Unread(entry)
    BY <1>2 DEF CleanupOld, Unread, Deletable, EntriesOf, EntryIDs
  <1>4. Counts
    BY DEF NewsCounted, Importing, Finished
  <1>5. newentry' = (n_unr < Cardinality(Unread(entry)))
    BY <1>2, <1>3 DEF News
  <1> HIDE DEF Finished
  <1> QED
    BY <1>4, <1>5 DEF Counts

(* The two counts of xmlproc_update_cache tell news exactly: nothing that  *)
(* an import deletes or stores again changes how many are unread.          *)
THEOREM NewsExact == Spec => NewsReported
  <1>1. Init => NewsCounted
    BY DEF Init, NewsCounted, Importing
  <1>2. Spec => []NewsCounted
    BY <1>1, Typing, RowsUnique, NewsStep, PTL DEF Spec
  <1> QED
    BY <1>2, Typing, NewsReportedStep, PTL DEF Spec, NewsReported

-----------------------------------------------------------------------------

CacheInv == TypeOK /\ ImportState /\ NoDuplicates /\ NoOrphans

(* What the refinement needs of every state.                               *)
LEMMA CacheInvariant == Spec => []CacheInv
  BY Typing, RowsUnique, RowsOwned, PTL DEF CacheInv

(* The status of an article is that of its row, if it has one.             *)
OwnRow(s, i) == i \in EntryIDs /\ feed[entry[i].FeedID] = s[1] /\ entry[i].article = s[2]
StatusIsOfRow ==
    \A s \in Urls \X Guided :
        /\ Statuses[s] \in {"absent", "read", "unread"}
        /\ Statuses[s] = "absent" <=> \A i \in EntryIDs : ~OwnRow(s, i)
        /\ \A i \in EntryIDs :
              OwnRow(s, i) => /\ entry[i].Viewed <=> Statuses[s] = "read"
                              /\ ~entry[i].Viewed <=> Statuses[s] = "unread"
                              /\ \A j \in EntryIDs : OwnRow(s, j) => i = j

(* What ArticleStore knows of an article is in the one row it has.         *)
LEMMA StatusOfRow == CacheInv => StatusIsOfRow
  <1> SUFFICES ASSUME CacheInv, NEW s \in Urls \X Guided
               PROVE  /\ Statuses[s] \in {"absent", "read", "unread"}
                      /\ Statuses[s] = "absent" <=> \A i \in EntryIDs : ~OwnRow(s, i)
                      /\ \A i \in EntryIDs :
                            OwnRow(s, i) => /\ entry[i].Viewed <=> Statuses[s] = "read"
                                            /\ ~entry[i].Viewed <=> Statuses[s] = "unread"
                                            /\ \A j \in EntryIDs : OwnRow(s, j) => i = j
    BY DEF StatusIsOfRow
  <1>1. Statuses[s] = StatusOf(s)
    BY DEF Statuses
  <1>2. \A i : i \in RowsOf(s) <=> OwnRow(s, i)
    BY DEF RowsOf, OwnRow
  <1>3. \A i, j \in EntryIDs : OwnRow(s, i) /\ OwnRow(s, j) => i = j
    <2> SUFFICES ASSUME NEW i \in EntryIDs, NEW j \in EntryIDs, OwnRow(s, i), OwnRow(s, j)
                 PROVE  i = j
      OBVIOUS
    <2>1. /\ entry[i].FeedID \in FeedIDs /\ entry[j].FeedID \in FeedIDs
          /\ feed[entry[i].FeedID] = feed[entry[j].FeedID]
          /\ entry[i].article = s[2] /\ entry[j].article = s[2] /\ s[2] \in Guided
      BY DEF OwnRow, CacheInv, NoOrphans
    <2>2. entry[i].FeedID = entry[j].FeedID
      BY <2>1 DEF CacheInv, NoDuplicates
    <2> QED
      BY <2>1, <2>2 DEF CacheInv, NoDuplicates
  <1>4. CASE RowsOf(s) = {}
    BY <1>1, <1>2, <1>4 DEF StatusOf, OwnRow
  <1>5. CASE RowsOf(s) # {}
    <2>1. PICK i \in EntryIDs : OwnRow(s, i)
      BY <1>2, <1>5 DEF OwnRow
    <2>2. RowsOf(s) = {i}
      BY <1>2, <1>3, <2>1 DEF OwnRow
    <2>3. RowsOf(s) \cap Unread(entry) # {} <=> ~entry[i].Viewed
      BY <2>1, <2>2 DEF Unread, EntryIDs
    <2>4. StatusOf(s) = IF entry[i].Viewed THEN "read" ELSE "unread"
      BY <1>5, <2>3 DEF StatusOf
    <2> QED
      BY <1>1, <1>3, <2>1, <2>4
  <1> QED
    BY <1>4, <1>5

(* The same of the next state.                                             *)
LEMMA StatusOfRowNext == CacheInv' => StatusIsOfRow'
  BY StatusOfRow, PTL

(* A feed is refreshed just while an import goes on.                       *)
RefreshingIsImport == Refreshing = {} <=> ~Importing

(* ArticleStore's import is the one that is under way.                     *)
LEMMA RefreshingIs == CacheInv => RefreshingIsImport
  <1> SUFFICES ASSUME CacheInv PROVE Refreshing = {} <=> ~Importing
    BY DEF RefreshingIsImport
  <1>1. CASE Importing
    <2>1. feedid \in FeedIDs
      BY <1>1 DEF CacheInv, NoOrphans, Importing
    <2>2. feedid # 0
      BY <2>1, LenProperties DEF CacheInv, TypeOK, FeedIDs
    <2> QED
      BY <1>1, <2>2 DEF Refreshing
  <1>2. CASE ~Importing
    BY <1>2 DEF CacheInv, TypeOK, ImportState, Importing, Refreshing
  <1> QED
    BY <1>1, <1>2

(* The same of the next state.                                             *)
LEMMA RefreshingIsNext == CacheInv' => RefreshingIsImport'
  BY RefreshingIs, PTL

(* The URL of a row's feed never changes.                                  *)
LEMMA OwnRowKept ==
  ASSUME CacheInv, TypeOK', [Next]_vars, NEW s, NEW i \in EntryIDs, i \in EntryIDs',
         entry'[i].FeedID = entry[i].FeedID, entry'[i].article = entry[i].article
  PROVE  OwnRow(s, i)' <=> OwnRow(s, i)
  <1>1. entry[i].FeedID \in FeedIDs
    BY DEF CacheInv, NoOrphans
  <1>2. \A f \in FeedIDs : feed'[f] = feed[f]
    <2>1. ASSUME NEW u \in Urls, feed' = Append(feed, u)
          PROVE  \A f \in FeedIDs : feed'[f] = feed[f]
      BY <2>1, AppendProperties, LenProperties DEF FeedIDs, CacheInv, TypeOK
    <2> QED
      BY <2>1, FeedGrows DEF CacheInv
  <1> QED
    BY <1>1, <1>2 DEF OwnRow

(* A status is what it was when the article has the row it had, with the   *)
(* mark it had.                                                            *)
LEMMA StatusKept ==
  ASSUME CacheInv, CacheInv', NEW s \in Urls \X Guided,
         \A i : OwnRow(s, i)' <=> OwnRow(s, i),
         \A i \in EntryIDs : OwnRow(s, i) => entry'[i].Viewed = entry[i].Viewed
  PROVE  Statuses'[s] = Statuses[s]
  <1>1. StatusIsOfRow /\ StatusIsOfRow'
    BY StatusOfRow, StatusOfRowNext
  <1>2. CASE \A i \in EntryIDs : ~OwnRow(s, i)
    <2>1. \A i \in EntryIDs' : ~OwnRow(s, i)'
      BY <1>2 DEF OwnRow
    <2> QED
      BY <1>1, <1>2, <2>1 DEF StatusIsOfRow
  <1>3. ASSUME NEW i \in EntryIDs, OwnRow(s, i)
        PROVE  Statuses'[s] = Statuses[s]
    <2>1. i \in EntryIDs' /\ OwnRow(s, i)' /\ entry'[i].Viewed = entry[i].Viewed
      BY <1>3 DEF OwnRow
    <2>2. /\ entry[i].Viewed <=> Statuses[s] = "read"
          /\ ~entry[i].Viewed <=> Statuses[s] = "unread"
      BY <1>1, <1>3 DEF StatusIsOfRow
    <2>3. /\ entry'[i].Viewed <=> Statuses'[s] = "read"
          /\ ~entry'[i].Viewed <=> Statuses'[s] = "unread"
      BY <1>1, <2>1 DEF StatusIsOfRow
    <2> QED
      BY <2>1, <2>2, <2>3
  <1> QED
    BY <1>2, <1>3

(* Two states with the same status of each article are the same there.     *)
LEMMA StatusesEqual ==
  ASSUME \A s \in Urls \X Guided : Statuses'[s] = Statuses[s]
  PROVE  Statuses' = Statuses
  BY DEF Statuses

(* So no status changes when no row comes, goes or changes its mark.       *)
LEMMA StatusesKept ==
  ASSUME CacheInv, CacheInv', [Next]_vars, EntryIDs' = EntryIDs,
         \A i \in EntryIDs : /\ entry'[i].FeedID = entry[i].FeedID
                             /\ entry'[i].article = entry[i].article
                             /\ entry'[i].Viewed = entry[i].Viewed
  PROVE  Statuses' = Statuses
  <1> SUFFICES ASSUME NEW s \in Urls \X Guided
               PROVE  Statuses'[s] = Statuses[s]
    BY StatusesEqual
  <1>1. \A i \in EntryIDs : OwnRow(s, i)' <=> OwnRow(s, i)
    BY OwnRowKept DEF CacheInv
  <1>2. \A i : OwnRow(s, i)' <=> OwnRow(s, i)
    BY <1>1 DEF OwnRow
  <1> QED
    BY <1>2, StatusKept

(* update_feed begins a refresh.                                           *)
LEMMA BeginStore ==
  ASSUME CacheInv, CacheInv', NEW u \in Urls, UpdateFeed(u)
  PROVE  Store!Begin(u)
  <1>1. UNCHANGED entry /\ EntryIDs' = EntryIDs /\ at = "idle" /\ Next
    BY DEF UpdateFeed, EntryIDs, Next, Import
  <1>2. Statuses' = Statuses
    BY <1>1, StatusesKept
  <1>3. Refreshing = {}
    BY <1>1, RefreshingIs DEF RefreshingIsImport, Importing
  <1>4. feedid' \in FeedIDs' /\ feedid' # 0
    <2>1. feedid' \in FeedIDs'
      BY UpdateFeedType DEF CacheInv
    <2> QED
      BY <2>1, LenProperties DEF CacheInv, TypeOK, FeedIDs
  <1>5. feed'[feedid'] = u
    <2>1. CASE \E f \in FeedIDs : feed[f] = u /\ feedid' = f /\ UNCHANGED feed
      BY <2>1
    <2>2. CASE feed' = Append(feed, u) /\ feedid' = LastInsertRowid
      BY <2>2, AppendProperties, LenProperties DEF CacheInv, TypeOK, LastInsertRowid
    <2> QED
      BY <2>1, <2>2 DEF UpdateFeed
  <1>6. Refreshing' = {u}
    BY <1>4, <1>5 DEF Refreshing
  <1> QED
    BY <1>2, <1>3, <1>6 DEF Store!Begin

(* Storing an article again says nothing new of it; a new row is of an     *)
(* article that was absent, or one without a unique id.                    *)
LEMMA ArriveStore ==
  ASSUME CacheInv, CacheInv', NEW a \in Articles, NEW d \in 0 .. MaxNow, UpdateEntry(a, d)
  PROVE  \/ UNCHANGED <<Refreshing, Statuses>>
         \/ \E u \in Urls : a \in Guided /\ Store!Arrive(u, a)
  <1>1. PICK id \in 1 .. MaxEntryID : Written(id, a, d)
    BY UpdateEntryWrites DEF CacheInv
  <1>2. Next /\ at = "entries" /\ UNCHANGED <<feed, feedid>>
    BY DEF UpdateEntry, Next, Import
  <1>3. Refreshing' = Refreshing
    BY <1>2 DEF Refreshing
  <1>4. EntryIDs' = EntryIDs \cup {id}
    BY <1>1 DEF Written
  <1>5. ASSUME NEW s, NEW i, i # id
        PROVE  OwnRow(s, i)' <=> OwnRow(s, i)
    BY <1>1, <1>2, <1>4, <1>5 DEF OwnRow, Written
  <1>6. CASE id \in EntryIDs
    <2>1. EntryIDs' = EntryIDs
      BY <1>4, <1>6
    <2>2. \A i \in EntryIDs : /\ entry'[i].FeedID = entry[i].FeedID
                              /\ entry'[i].article = entry[i].article
                              /\ entry'[i].Viewed = entry[i].Viewed
      BY <1>1, <1>6 DEF Written
    <2>3. Statuses' = Statuses
      BY <1>2, <2>1, <2>2, StatusesKept
    <2> QED
      BY <1>3, <2>3
  <1>7. CASE a \notin Guided
    <2>1. ASSUME NEW s \in Urls \X Guided
          PROVE  Statuses'[s] = Statuses[s]
      <3>1. \A i : OwnRow(s, i)' <=> OwnRow(s, i)
        <4>1. ~OwnRow(s, id)'
          BY <1>1, <1>7, <2>1 DEF OwnRow, Written
        <4>2. ~OwnRow(s, id)
          BY <1>1, <1>7, <2>1 DEF OwnRow, Written
        <4> QED
          BY <1>5, <4>1, <4>2
      <3>2. \A i \in EntryIDs : OwnRow(s, i) => entry'[i].Viewed = entry[i].Viewed
        BY <1>1, <1>7 DEF Written
      <3> QED
        BY <3>1, <3>2, StatusKept
    <2> QED
      BY <1>3, <2>1, StatusesEqual
  <1>8. CASE id \notin EntryIDs /\ a \in Guided
    <2>1. feedid \in FeedIDs /\ feedid # 0
      BY <1>2, LenProperties DEF CacheInv, NoOrphans, TypeOK, FeedIDs
    <2>2. PICK u \in Urls : u = feed[feedid]
      BY <2>1, ElementOfSeq, LenProperties DEF CacheInv, TypeOK, FeedIDs
    <2> DEFINE sa == <<u, a>>
    <2>3. Refreshing = {u}
      BY <2>1, <2>2 DEF Refreshing
    <2>4. StatusIsOfRow /\ StatusIsOfRow'
      BY StatusOfRow, StatusOfRowNext
    <2>5. Statuses[sa] = "absent"
      <3>1. ASSUME NEW i \in EntryIDs, OwnRow(sa, i)
            PROVE  FALSE
        <4>1. feed[entry[i].FeedID] = feed[feedid] /\ entry[i].article = a
          BY <2>2, <3>1 DEF OwnRow
        <4>2. entry[i].FeedID = feedid
          BY <2>1, <4>1 DEF CacheInv, NoOrphans, NoDuplicates
        <4> QED
          BY <1>1, <1>8, <4>1, <4>2 DEF Written
      <3>2. sa \in Urls \X Guided
        BY <1>8, <2>2
      <3> HIDE DEF sa
      <3> QED
        BY <2>4, <3>1, <3>2 DEF StatusIsOfRow
    <2>6. Statuses'[sa] = "unread"
      <3>1. id \in EntryIDs' /\ OwnRow(sa, id)' /\ ~entry'[id].Viewed
        BY <1>1, <1>2, <1>4, <1>8, <2>2 DEF Written, OwnRow
      <3>2. sa \in Urls \X Guided
        BY <1>8, <2>2
      <3> HIDE DEF sa
      <3>3. ~entry'[id].Viewed <=> Statuses'[sa] = "unread"
        BY <2>4, <3>1, <3>2, Zenon DEF StatusIsOfRow
      <3> QED
        BY <3>1, <3>3
    <2>7. ASSUME NEW s \in Urls \X Guided, s # sa
          PROVE  Statuses'[s] = Statuses[s]
      <3>1. ~OwnRow(s, id)'
        BY <1>1, <1>2, <2>1, <2>2, <2>7 DEF Written, OwnRow
      <3>2. \A i : OwnRow(s, i)' <=> OwnRow(s, i)
        BY <1>5, <1>8, <3>1 DEF OwnRow
      <3>3. \A i \in EntryIDs : entry'[i].Viewed = entry[i].Viewed
        BY <1>1, <1>8 DEF Written
      <3> QED
        BY <3>2, <3>3, StatusKept
    <2>8. Statuses' = [Statuses EXCEPT ![sa] = "unread"]
      <3>1. sa \in Urls \X Guided
        BY <1>8, <2>2
      <3> HIDE DEF sa
      <3> QED
        BY <2>6, <2>7, <3>1 DEF Statuses
    <2>9. Store!Arrive(u, a)
      BY <1>3, <2>3, <2>5, <2>8 DEF Store!Arrive
    <2> QED
      BY <1>8, <2>2, <2>9
  <1> QED
    BY <1>6, <1>7, <1>8

(* The statuses are those of ArticleStore.                                 *)
LEMMA StatusesTyped ==
  ASSUME CacheInv'
  PROVE  Statuses' \in [Store!Store -> Store!Status]
  <1>1. StatusIsOfRow'
    BY StatusOfRowNext
  <1>2. \A s \in Urls \X Guided : Statuses'[s] \in {"absent", "unread", "read"}
    BY <1>1 DEF StatusIsOfRow
  <1> QED
    BY <1>2 DEF Statuses, Store!Store, Store!Status

(* The end of an import, or of the program in one, ends a refresh.         *)
LEMMA EndStore ==
  ASSUME CacheInv, CacheInv', [Next]_vars, Importing, ~Importing',
         NEW gone, gone \subseteq EntriesOf(feedid),
         \A i \in gone : entry[i].Viewed,
         EntryIDs' = EntryIDs \ gone,
         \A i \in EntryIDs \ gone : entry'[i] = entry[i],
         UNCHANGED feed
  PROVE  Store!End
  <1>1. Refreshing # {} /\ Refreshing' = {}
    BY RefreshingIs, RefreshingIsNext DEF RefreshingIsImport
  <1>2. StatusIsOfRow /\ StatusIsOfRow'
    BY StatusOfRow, StatusOfRowNext
  <1>3. Refreshing = {feed[feedid]}
    BY <1>1 DEF Refreshing
  <1>4. ASSUME NEW s \in Urls \X Guided
        PROVE  \/ Statuses'[s] = Statuses[s]
               \/ s[1] \in Refreshing /\ Statuses[s] = "read" /\ Statuses'[s] = "absent"
    <2>1. \A i \in EntryIDs \ gone : OwnRow(s, i)' <=> OwnRow(s, i)
      BY DEF OwnRow
    <2>2. CASE \E i \in gone : OwnRow(s, i)
      <3>1. PICK i \in gone : OwnRow(s, i)
        BY <2>2
      <3>2. i \in EntryIDs /\ entry[i].FeedID = feedid /\ entry[i].Viewed
        BY <3>1 DEF EntriesOf
      <3>3. s[1] \in Refreshing
        BY <1>3, <3>1, <3>2 DEF OwnRow
      <3>4. Statuses[s] = "read" /\ \A j \in EntryIDs : OwnRow(s, j) => i = j
        BY <1>2, <3>1, <3>2 DEF StatusIsOfRow
      <3>5. \A j \in EntryIDs' : ~OwnRow(s, j)'
        BY <2>1, <3>1, <3>4
      <3>6. Statuses'[s] = "absent"
        BY <1>2, <3>5 DEF StatusIsOfRow
      <3> QED
        BY <3>3, <3>4, <3>6
    <2>3. CASE \A i \in gone : ~OwnRow(s, i)
      <3>1. \A i : OwnRow(s, i)' <=> OwnRow(s, i)
        BY <2>1, <2>3 DEF OwnRow
      <3>2. \A i \in EntryIDs : OwnRow(s, i) => entry'[i].Viewed = entry[i].Viewed
        BY <2>3
      <3> QED
        BY <3>1, <3>2, StatusKept
    <2> QED
      BY <2>2, <2>3
  <1> QED
    BY <1>1, <1>4, StatusesTyped DEF Store!End, Store!Update, Store!Store

(* The user's marks are Mark, on what the cache has of the articles.       *)
LEMMA MarkStore ==
  ASSUME CacheInv, CacheInv', NEW ids, NEW v \in BOOLEAN, Mark(ids, v), [Next]_vars
  PROVE  Store!Mark(IF v THEN "read" ELSE "unread")
  <1> DEFINE word == IF v THEN "read" ELSE "unread"
  <1>1. /\ EntryIDs' = EntryIDs /\ at = "idle" /\ UNCHANGED <<feed, feedid>>
    BY DEF Mark, EntryIDs
  <1>2. Refreshing = {} /\ Refreshing' = Refreshing
    BY <1>1, RefreshingIs DEF RefreshingIsImport, Importing, Refreshing
  <1>3. StatusIsOfRow /\ StatusIsOfRow'
    BY StatusOfRow, StatusOfRowNext
  <1>4. ASSUME NEW i \in EntryIDs
        PROVE  /\ entry'[i].FeedID = entry[i].FeedID
               /\ entry'[i].article = entry[i].article
               /\ i \notin ids => entry'[i].Viewed = entry[i].Viewed
               /\ i \in ids => (entry'[i].Viewed <=> v)
    BY DEF Mark, CacheInv, TypeOK, Row
  <1>5. ASSUME NEW s \in Urls \X Guided
        PROVE  \/ Statuses'[s] = Statuses[s]
               \/ Statuses[s] # "absent" /\ Statuses'[s] = word
    <2>1. \A i : OwnRow(s, i)' <=> OwnRow(s, i)
      BY <1>1, <1>4 DEF OwnRow
    <2>2. CASE \E i \in EntryIDs : OwnRow(s, i) /\ i \in ids
      <3>1. PICK i \in EntryIDs : OwnRow(s, i) /\ i \in ids
        BY <2>2
      <3>2. Statuses[s] # "absent"
        BY <1>3, <3>1 DEF StatusIsOfRow
      <3>3. OwnRow(s, i)' /\ i \in EntryIDs' /\ (entry'[i].Viewed <=> v)
        BY <1>1, <1>4, <2>1, <3>1
      <3>4. /\ entry'[i].Viewed <=> Statuses'[s] = "read"
            /\ ~entry'[i].Viewed <=> Statuses'[s] = "unread"
        BY <1>3, <3>3 DEF StatusIsOfRow
      <3> QED
        BY <3>2, <3>3, <3>4
    <2>3. CASE \A i \in EntryIDs : OwnRow(s, i) => i \notin ids
      <3>1. \A i \in EntryIDs : OwnRow(s, i) => entry'[i].Viewed = entry[i].Viewed
        BY <1>4, <2>3
      <3> QED
        BY <2>1, <3>1, StatusKept
    <2> QED
      BY <2>2, <2>3
  <1> QED
    BY <1>2, <1>5, StatusesTyped DEF Store!Mark, Store!Update, Store!Store

(* Each step is one of ArticleStore, or changes nothing there.             *)
LEMMA StoreStep ==
  ASSUME CacheInv, CacheInv', [Next]_vars
  PROVE  [Store!Next]_<<Refreshing, Statuses>>
  <1>1. CASE \E u \in Urls : UpdateFeed(u)
    BY <1>1, BeginStore DEF Store!Next
  <1>2. CASE Stores
    BY <1>2, ArriveStore DEF Stores, Store!Next
  <1>3. CASE FinishImport
    <2>1. PICK gone \in {{}, Deletable(feedid)} : CleanupOld(gone)
      BY <1>3 DEF FinishImport
    <2>2. /\ gone \subseteq EntriesOf(feedid)
          /\ \A i \in gone : entry[i].Viewed
      BY <2>1 DEF Deletable
    <2>3. /\ EntryIDs' = EntryIDs \ gone
          /\ \A i \in EntryIDs \ gone : entry'[i] = entry[i]
      BY <2>1 DEF CleanupOld, EntryIDs
    <2>4. Importing /\ ~Importing' /\ UNCHANGED feed
      BY <1>3 DEF FinishImport, Importing
    <2> QED
      BY <2>2, <2>3, <2>4, EndStore DEF Store!Next
  <1>4. CASE Exit /\ Importing
    <2>1. EntryIDs' = EntryIDs /\ UNCHANGED <<entry, feed>> /\ ~Importing'
      BY <1>4 DEF Exit, Importing, EntryIDs
    <2>2. PICK gone : gone = {}
      OBVIOUS
    <2>3. /\ gone \subseteq EntriesOf(feedid) /\ \A i \in gone : entry[i].Viewed
          /\ EntryIDs' = EntryIDs \ gone
          /\ \A i \in EntryIDs \ gone : entry'[i] = entry[i]
      BY <2>1, <2>2
    <2>4. Store!End
      BY <1>4, <2>1, <2>3, EndStore
    <2> QED
      BY <2>4 DEF Store!Next
  <1>5. CASE InitCleanup
    <2>1. EntryIDs' = EntryIDs /\ at # "idle" /\ UNCHANGED <<feed, feedid>>
      BY <1>5, InitCleanupType DEF InitCleanup, CacheInv
    <2>2. Kept = EntryIDs
      BY <2>1 DEF Kept, EntryIDs
    <2>3. Statuses' = Statuses
      BY <2>1, <2>2, ImportKeepsMarksStep, StatusesKept DEF CacheInv
    <2> QED
      BY <2>1, <2>3 DEF Refreshing
  <1>6. CASE Marks
    <2>1. PICK ids, v : v \in BOOLEAN /\ Mark(ids, v)
      BY <1>6, MarksAreMark DEF CacheInv
    <2> QED
      BY <2>1, MarkStore DEF Store!Next
  <1>7. CASE CreateTable \/ (Exit /\ ~Importing) \/ Tick \/ UNCHANGED vars
    <2>1. UNCHANGED <<entry, feed>> /\ EntryIDs' = EntryIDs
      BY <1>7 DEF CreateTable, Exit, Tick, vars, EntryIDs
    <2>2. UNCHANGED feedid
      BY <1>7 DEF CreateTable, Exit, Tick, vars, Importing, CacheInv, ImportState, TypeOK
    <2>3. Statuses' = Statuses
      BY <2>1, StatusesKept
    <2> QED
      BY <2>1, <2>2, <2>3 DEF Refreshing
  <1> QED
    BY <1>1, <1>2, <1>3, <1>4, <1>5, <1>6, <1>7 DEF Next, Import, Stores

(* The tables and the import keep the promise of ArticleStore, wherever    *)
(* the program ends and whatever statement fails: no article comes in      *)
(* read, none is forgotten unread, and no refresh changes a mark.          *)
THEOREM CacheImplementsStore == Spec => ImplementsArticleStore
  <1>1. Init => Store!Init
    <2> SUFFICES ASSUME Init PROVE Store!Init
      OBVIOUS
    <2>1. EntryIDs = {} /\ Refreshing = {}
      BY DEF Init, EntryIDs, Refreshing
    <2>2. \A s \in Urls \X Guided : StatusOf(s) = "absent"
      BY <2>1 DEF StatusOf, RowsOf
    <2> QED
      BY <2>1, <2>2 DEF Store!Init, Store!Store, Statuses
  <1> QED
    BY <1>1, CacheInvariant, StoreStep, PTL DEF Spec, ImplementsArticleStore, Store!Spec
=============================================================================
