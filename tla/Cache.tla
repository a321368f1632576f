------------------------------- MODULE Cache -------------------------------
(***************************************************************************)
(* The article cache: the tables Feed and Entry of src/src/sql/create.c,   *)
(* the import of a downloaded document (xmlproc_update_cache in            *)
(* src/src/xmlproc.c), and the user's read and unread marks.               *)
(*                                                                         *)
(* The program runs one thread, so nothing interleaves with an import but  *)
(* the passing of time.  Each statement commits on its own, though: the    *)
(* program may end between any two of them (a signal, or exit(2) after an  *)
(* sqlite error) and starts again on what is in the tables.                *)
(*                                                                         *)
(* An article is what a document lists as an entry.  Its unique id is its  *)
(* own if it is Guided; otherwise the program makes a random one up each   *)
(* time it meets the article, which no row has.                            *)
(***************************************************************************)
EXTENDS Integers, Sequences, FiniteSets

CONSTANTS
    Urls,               \* the feeds of the URL list
    Articles,           \* the articles documents may list
    Guided,             \* those with an entryUniqueId
    CyclesUntilDelete,  \* CYCLES_UNTIL_DELETE
    Retention,          \* global_config.entry_retention, "cache-retention"
    MayExit,            \* the program may end in the middle of an import
    MayFail,            \* sqlite may fail a statement whose result is ignored
    MaxEntryID,         \* bound of the model: highest row id of Entry
    MaxNow              \* bound of the model: the clock's last reading

ASSUME CacheAssumption ==
    /\ Guided \subseteq Articles
    /\ CyclesUntilDelete \in Nat
    /\ Retention \in Int
    /\ MayExit \in BOOLEAN /\ MayFail \in BOOLEAN
    /\ MaxEntryID \in Nat /\ MaxNow \in Nat

VARIABLES
    feed,       \* table Feed: the URL of each FeedID, in order of creation
    entry,      \* table Entry: the row of each EntryID
    now,        \* the clock
    at,         \* how far an import is: the next statement, or "idle"
    feedid,     \* h->feedid: the feed being imported, 0 when idle
    tables,     \* how many of the tables and views there are
    n_unr,      \* n_unr[0]: the unread articles counted before the import
    newentry,   \* what the last xmlproc_update_cache returned
    listed,     \* history: the articles stored by the import so far
    known,      \* history: the articles of the feed when the import began
    missed,     \* history: per row, the complete imports of its feed since
                \* it was last stored, up to CyclesUntilDelete
    disturbed   \* history: whether an import ended early, or a statement failed

history == <<listed, known, missed, disturbed>>
vars == <<tables, feed, entry, now, at, feedid, n_unr, newentry, history>>

(* What create_db creates, one statement each.                             *)
Created == <<"CacheInfo", "Feed", "Category", "FeedCategory", "Entry", "PubEntry">>
Exists(t) == \E i \in 1 .. tables : Created[i] = t

FeedIDs == DOMAIN feed
EntryIDs == DOMAIN entry

(* Current is 1 in a row just written.  Below -CyclesUntilDelete no test   *)
(* of the code tells two values apart, so the model stops counting there.  *)
Row == [FeedID : Nat, article : Articles, Viewed : BOOLEAN,
        PubDate : 0 .. MaxNow, Current : -CyclesUntilDelete .. 1]

TypeOK ==
    /\ feed \in Seq(Urls)
    /\ EntryIDs \subseteq 1 .. MaxEntryID
    /\ entry \in [EntryIDs -> Row]
    /\ now \in 0 .. MaxNow
    /\ tables \in 0 .. Len(Created)
    /\ at \in {"create", "idle", "init_cleanup", "entries"}
    /\ feedid \in Nat
    /\ n_unr \in Nat
    /\ newentry \in BOOLEAN
    /\ listed \subseteq Articles
    /\ known \subseteq Articles
    /\ missed \in [EntryIDs -> 0 .. CyclesUntilDelete]
    /\ disturbed \subseteq {"exit", "fail"}

-----------------------------------------------------------------------------

EntriesOf(f) == {i \in EntryIDs : entry[i].FeedID = f}
ArticlesOf(f) == {entry[i].article : i \in EntriesOf(f)}
Unread(e) == {i \in DOMAIN e : ~e[i].Viewed}

(* init_db on a new file: create_db creates one table after the other.     *)
(* When the file can be opened, init_db does not look what is in it.       *)
CreateTable ==
    /\ at = "create"
    /\ tables' = tables + 1
    /\ at' = IF tables + 1 = Len(Created) THEN "idle" ELSE at
    /\ UNCHANGED <<feed, entry, now, feedid, n_unr, newentry, history>>

(* SELECT EntryID FROM Entry WHERE FeedID=?1 AND UniqueId=?2               *)
Found_None(f, a) == {}                           \* mutant: a plain INSERT
Found(f, a) == {i \in EntriesOf(f) : entry[i].article = a /\ a \in Guided}

(* The rowid sqlite gives a new row: ids above the largest are free again. *)
IsNewID(id) == /\ id - 1 \in EntryIDs \cup {0}
               /\ \A j \in EntryIDs : j < id

(* SELECT IFNULL((SELECT Viewed ...),0): a new article is unread.          *)
ViewedBefore_Lost(old) == FALSE                  \* mutant: Viewed not kept
ViewedBefore(old) == \E i \in old : entry[i].Viewed

(* sqlite3_last_insert_rowid, after a feed was appended.                   *)
LastInsertRowid_Before == Len(feed)              \* mutant: read too early
LastInsertRowid == Len(feed')

(* xmlproc_update_cache counts the unread articles, and update_feed writes *)
(* the feed's row: INSERT OR REPLACE keeps the FeedID its URL has.  With   *)
(* no table for it the program exits, and nothing has changed.             *)
UpdateFeed(u) ==
    /\ at = "idle" /\ Exists("Feed")
    /\ n_unr' = Cardinality(Unread(entry))
    /\ \/ \E f \in FeedIDs : feed[f] = u /\ feedid' = f /\ UNCHANGED feed
       \/ /\ \A f \in FeedIDs : feed[f] # u
          /\ feed' = Append(feed, u)
          /\ feedid' = LastInsertRowid
    /\ at' = "init_cleanup"
    /\ newentry' = FALSE
    /\ listed' = {}
    /\ known' = ArticlesOf(feedid')
    /\ UNCHANGED <<tables, entry, now, missed, disturbed>>

(* A statement whose result the program ignores fails.                     *)
Fails == MayFail /\ disturbed' = disturbed \cup {"fail"}

(* cache_init_cleanup: every article of the feed has been missing once     *)
(* more, until the document lists it.  The result is not looked at.        *)
Aged(c) == IF c > -CyclesUntilDelete THEN c - 1 ELSE c

InitCleanup ==
    /\ at = "init_cleanup"
    /\ \/ /\ entry' = [i \in EntryIDs |-> IF i \in EntriesOf(feedid)
                                          THEN [entry[i] EXCEPT !.Current = Aged(@)]
                                          ELSE entry[i]]
          /\ UNCHANGED disturbed
       \/ Fails /\ UNCHANGED entry
    /\ at' = "entries"
    /\ UNCHANGED <<tables, feed, now, feedid, n_unr, newentry, listed, known, missed>>

(* update_entry: one entry of the document, dated d (0 when it has no      *)
(* date), replaces the row with its unique id, whose EntryID and Viewed it *)
(* keeps, or becomes a new unread row.                                     *)
UpdateEntry(a, d) ==
    /\ at = "entries" /\ Exists("Entry")
    /\ LET old == Found(feedid, a)
           row == [FeedID |-> feedid, article |-> a, Viewed |-> ViewedBefore(old),
                   PubDate |-> d, Current |-> 1]
       IN \E id \in 1 .. MaxEntryID :
            /\ IF old = {} THEN IsNewID(id) ELSE id \in old
            /\ entry' = [i \in EntryIDs \cup {id} |-> IF i = id THEN row ELSE entry[i]]
            /\ missed' = [i \in EntryIDs \cup {id} |-> IF i = id THEN 0 ELSE missed[i]]
    /\ listed' = listed \cup {a}
    /\ UNCHANGED <<tables, feed, now, at, feedid, n_unr, newentry, known, disturbed>>

(* cache_cleanup_old: read articles that were published long ago and have  *)
(* been missing long enough.                                               *)
Deletable_Unread(f) ==                           \* mutant: no test of Viewed
    {i \in EntriesOf(f) : /\ entry[i].Current <= -CyclesUntilDelete
                          /\ entry[i].PubDate < now - Retention}
Deletable_Early(f) ==                            \* mutant: a cycle too early
    {i \in EntriesOf(f) : /\ entry[i].Current <= 1 - CyclesUntilDelete
                          /\ entry[i].Viewed
                          /\ entry[i].PubDate < now - Retention}
Deletable_Listed(f) ==                           \* mutant: no test of Current
    {i \in EntriesOf(f) : entry[i].Viewed /\ entry[i].PubDate < now - Retention}
Deletable_Late(f) ==                             \* mutant: Current compared with <
    {i \in EntriesOf(f) : /\ entry[i].Current < -CyclesUntilDelete
                          /\ entry[i].Viewed
                          /\ entry[i].PubDate < now - Retention}
Deletable(f) ==
    {i \in EntriesOf(f) : /\ entry[i].Current <= -CyclesUntilDelete
                          /\ entry[i].Viewed
                          /\ entry[i].PubDate < now - Retention}

(* if(n_unr[0]<n_unr[1])                                                   *)
News_Same(before, after) == before <= after      \* mutant: <= for <
News(before, after) == before < after

(* No entry is left: the old ones go (cache_cleanup_old) ...               *)
CleanupOld(gone) ==
    /\ entry' = [i \in EntryIDs \ gone |-> entry[i]]
    /\ missed' = [i \in EntryIDs \ gone |->
          IF i \in EntriesOf(feedid) /\ entry[i].article \notin listed
             /\ missed[i] < CyclesUntilDelete
          THEN missed[i] + 1 ELSE missed[i]]

(* ... and the unread are counted again.  Without one of the two counts an *)
(* uninitialised number is compared.                                       *)
FinishImport ==
    /\ at = "entries"
    /\ \/ /\ CleanupOld(Deletable(feedid))
          /\ newentry' = News(n_unr, Cardinality(Unread(entry')))
          /\ UNCHANGED disturbed
       \/ /\ Fails
          /\ \E gone \in {{}, Deletable(feedid)} : CleanupOld(gone)
          /\ newentry' \in BOOLEAN
    /\ at' = "idle"
    /\ feedid' = 0
    /\ n_unr' = 0
    /\ listed' = {}
    /\ known' = {}
    /\ UNCHANGED <<tables, feed, now>>

(* The program ends while it creates the tables or in the middle of an     *)
(* import, as it does when there is no table to store an entry in.  When   *)
(* it is started again nothing is left but what it had written.            *)
Exit ==
    /\ at # "idle"
    /\ MayExit \/ (at = "entries" /\ ~Exists("Entry"))
    /\ at' = "idle"
    /\ feedid' = 0
    /\ n_unr' = 0
    /\ newentry' = FALSE
    /\ listed' = {}
    /\ known' = {}
    /\ disturbed' = disturbed \cup {"exit"}
    /\ UNCHANGED <<tables, feed, entry, now, missed>>

-----------------------------------------------------------------------------

Mark(ids, v) ==
    /\ at = "idle"
    /\ entry' = [i \in EntryIDs |-> IF i \in ids THEN [entry[i] EXCEPT !.Viewed = v] ELSE entry[i]]
    /\ UNCHANGED <<tables, feed, now, at, feedid, n_unr, newentry, history>>

(* cache_toggle_read_entry with v < 0 (the toggle key) and with v = 1      *)
(* (the article is shown, or handed to the downloader).                    *)
ToggleReadEntry(id) == Mark({id}, ~entry[id].Viewed)
ReadEntry(id) == Mark({id}, TRUE)

(* cache_read_feed: feed 0 stands for all of them.                         *)
ReadFeed(f) == Mark(IF f = 0 THEN EntryIDs ELSE EntriesOf(f), TRUE)

Tick ==
    /\ now < MaxNow
    /\ now' = now + 1
    /\ UNCHANGED <<tables, feed, entry, at, feedid, n_unr, newentry, history>>

Init ==
    /\ tables = 0
    /\ feed = << >>
    /\ entry = << >>
    /\ now = 0
    /\ at = "create"
    /\ feedid = 0
    /\ n_unr = 0
    /\ newentry = FALSE
    /\ listed = {}
    /\ known = {}
    /\ missed = << >>
    /\ disturbed = {}

Import ==
    \/ \E u \in Urls : UpdateFeed(u)
    \/ InitCleanup
    \/ \E a \in Articles, d \in 0 .. MaxNow : UpdateEntry(a, d)
    \/ FinishImport
    \/ Exit

Marks ==
    \/ \E id \in EntryIDs : ToggleReadEntry(id) \/ ReadEntry(id)
    \/ \E f \in FeedIDs \cup {0} : ReadFeed(f)

Next == CreateTable \/ Import \/ Marks \/ Tick

Spec == Init /\ [][Next]_vars

-----------------------------------------------------------------------------

(* A feed has one row, and an article with a unique id has one row in it,  *)
(* though neither table has a UNIQUE constraint: the SELECT inside each    *)
(* INSERT OR REPLACE finds the row to replace.                             *)
NoDuplicates ==
    /\ \A f, g \in FeedIDs : feed[f] = feed[g] => f = g
    /\ \A i, j \in EntryIDs :
          /\ entry[i].FeedID = entry[j].FeedID
          /\ entry[i].article = entry[j].article
          /\ entry[i].article \in Guided
          => i = j

(* Rows belong to a feed that exists, and no import is for another.        *)
NoOrphans ==
    /\ \A i \in EntryIDs : entry[i].FeedID \in FeedIDs
    /\ at \in {"init_cleanup", "entries"} => feedid \in FeedIDs

Gone == EntryIDs \ DOMAIN entry'
Kept == EntryIDs \cap DOMAIN entry'

(* An import, complete or cut short, changes nothing of the other feeds,   *)
(* no read mark, and no row's article.                                     *)
ImportKeepsMarks ==
    [][at # "idle" =>
        /\ \A i \in Kept : /\ entry'[i].Viewed = entry[i].Viewed
                           /\ entry'[i].article = entry[i].article
                           /\ entry'[i].FeedID = entry[i].FeedID
        /\ \A i \in EntryIDs \ EntriesOf(feedid) : i \in Kept /\ entry'[i] = entry[i]]_vars

(* Only articles that were read, are older than the retention and are not  *)
(* in the document just imported are ever deleted.                         *)
OnlyStaleDeleted ==
    [][\A i \in Gone : /\ entry[i].Viewed
                       /\ entry[i].PubDate < now - Retention
                       /\ entry[i].FeedID = feedid
                       /\ entry[i].article \notin listed \/ entry[i].article \notin Guided]_vars

(* An article with a unique id is deleted only when it has been missing    *)
(* from as many complete imports in a row, before this one, as             *)
(* sql/cache.h:14 says, if none was ever cut short.                        *)
GracePeriod ==
    [][\A i \in Gone :
          entry[i].article \in Guided /\ "exit" \notin disturbed
              => missed[i] >= CyclesUntilDelete]_vars

(* A complete import leaves none of the feed's articles that were read,    *)
(* are old and have been missing that long, if nothing was ever disturbed. *)
Finished == at = "entries" /\ at' = "idle" /\ disturbed' = {}
Stale(i) ==
    /\ entry[i].Viewed
    /\ entry[i].PubDate < now - Retention
    /\ missed[i] >= CyclesUntilDelete
    /\ entry[i].article \in Guided \ listed
StaleGone ==
    [][Finished => \A i \in EntriesOf(feedid) : Stale(i) => i \in Gone]_vars

(* A complete import reports news exactly when its document listed an      *)
(* article that the feed did not have, or one without a unique id, which   *)
(* counts as new each time (notify-beep), if nothing was ever disturbed.   *)
NewsReported ==
    [][Finished =>
          newentry' = (listed \ (known \cap Guided) # {})]_vars

-----------------------------------------------------------------------------

(* What the tables say of an article with a unique id.                     *)
RowsOf(s) == {i \in EntryIDs : feed[entry[i].FeedID] = s[1] /\ entry[i].article = s[2]}
StatusOf(s) ==
    CASE RowsOf(s) = {} -> "absent"
      [] RowsOf(s) \cap Unread(entry) # {} -> "unread"
      [] OTHER -> "read"

Refreshing == IF feedid = 0 THEN {} ELSE {feed[feedid]}
Statuses == [s \in Urls \X Guided |-> StatusOf(s)]

Store == INSTANCE ArticleStore WITH
    Articles <- Guided, refreshing <- Refreshing, status <- Statuses

(* The tables and the import implement the promise of ArticleStore, for    *)
(* articles with a unique id.                                              *)
ImplementsArticleStore == Store!Spec
=============================================================================
