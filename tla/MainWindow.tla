----------------------------- MODULE MainWindow -----------------------------
(***************************************************************************)
(* The list window, src/src/ui/view.c, with the rows that                  *)
(* src/src/sql/viewio.c generates for it from the article cache.           *)
(*                                                                         *)
(* The window shows one page of a list: the feeds, below the row Unread    *)
(* Articles, or the articles of one of them.  Rows are a snapshot.  They   *)
(* are generated again after some keys and at the end of a reload, while   *)
(* imports change the cache and signals the size of the terminal.  A list  *)
(* that turns out empty leaves the rows as they were, and a handler that   *)
(* looks at that result goes back to the feeds or the page before.         *)
(***************************************************************************)
EXTENDS Integers, SequencesExt, FiniteSetsExt

CONSTANTS
    Feeds,             \* the FeedIDs, from 1 on
    Entries,           \* the EntryIDs, from 1 on
    Dates,             \* publication dates
    Stored,            \* the caches the program may start with
    ShowReadFeeds,     \* global_config.show_read_feeds
    ShowReadEntries,   \* global_config.show_read_entries
    Heights,           \* values of BODY_HEIGHT
    MayImport          \* a reload may change the cache

(* Table Entry, as far as the lists look at it: a row for some EntryIDs.    *)
Row == [FeedID : Feeds, PubDate : Dates, Viewed : BOOLEAN]
IsCache(db) == DOMAIN db \subseteq Entries /\ db \in [DOMAIN db -> Row]

ASSUME WindowAssumption ==
    /\ Feeds \subseteq Nat \ {0} /\ IsFiniteSet(Feeds)
    /\ Entries \subseteq Nat \ {0} /\ IsFiniteSet(Entries)
    /\ Dates \subseteq Int
    /\ \A db \in Stored : IsCache(db)
    /\ ShowReadFeeds \in BOOLEAN /\ ShowReadEntries \in BOOLEAN
    /\ MayImport \in BOOLEAN
    /\ Heights \subseteq Nat \ {0}

VARIABLES
    entry,     \* the cache: the row of each EntryID in use
    mw,        \* struct mainwindow with the statics of view.c
    newsize,   \* the terminal was resized, or a redraw asked for
    height     \* BODY_HEIGHT after the terminal's size

vars == <<entry, mw, newsize, height>>

Ids == {0} \cup Feeds \cup Entries
Unread(db) == {e \in DOMAIN db : ~db[e].Viewed}

TypeOK ==
    /\ IsCache(entry)
    /\ newsize \in BOOLEAN
    /\ height \in Heights
    /\ mw.body_len \in Heights
    /\ mw \in [page : Nat, ctx_type : {"feeds", "entries"}, ctx_id : Ids,
               body_len : Nat, lv : [0 .. mw.body_len - 1 -> [id : Ids, blank : BOOLEAN]],
               cursor_i : Nat, content_bw_max : Nat,
               backup_cursor_i : Nat, backup_page_num : Nat]

-----------------------------------------------------------------------------

(* LIMIT start,n                                                           *)
Limit(s, start, n) == SubSeq(s, start + 1, Min({start + n, Len(s)}))

(* The feeds with an article to show, in the order of their ids.           *)
Ascending(S) ==
    [i \in 1 .. Cardinality(S) |-> CHOOSE x \in S : Cardinality({y \in S : y < x}) = i - 1]

FeedList(db) == Ascending({db[e].FeedID : e \in IF ShowReadFeeds THEN DOMAIN db ELSE Unread(db)})

(* ORDER BY PubDate DESC; sqlite leaves articles of one date in the order  *)
(* it meets them in, that of their ids.                                    *)
Newer(db, x, y) ==
    \/ db[x].PubDate > db[y].PubDate
    \/ db[x].PubDate = db[y].PubDate /\ x < y
NewestFirst(S, db) ==
    [i \in 1 .. Cardinality(S) |->
        CHOOSE x \in S : Cardinality({y \in S : Newer(db, y, x)}) = i - 1]

(* write_entry_line: the articles of a feed, or the unread ones of all.    *)
EntryList(f, db) ==
    NewestFirst(IF f > 0
                THEN {e \in IF ShowReadEntries THEN DOMAIN db ELSE Unread(db) : db[e].FeedID = f}
                ELSE Unread(db), db)

(* Mutant: the rows of later pages are not moved for the first row.        *)
FeedLines_NoOffset(page, len, db) ==
    IF page * len = 0
    THEN <<0>> \o Limit(FeedList(db), 0, len - 1)
    ELSE Limit(FeedList(db), page * len, len)

(* write_feed_line: the row Unread Articles takes a place of page 0 only.  *)
FeedLines(page, len, db) ==
    IF page * len = 0
    THEN <<0>> \o Limit(FeedList(db), 0, len - 1)
    ELSE Limit(FeedList(db), page * len - 1, len)

(* cache_gen_lines                                                         *)
Lines(w, db) ==
    IF w.ctx_type = "feeds"
    THEN FeedLines(w.page, w.body_len, db)
    ELSE Limit(EntryList(w.ctx_id, db), w.page * w.body_len, w.body_len)

(* request_list_update, which fails and changes nothing when there is no   *)
(* line.  A row without a line becomes blank, but keeps its id.            *)
Failed(w, db) == Lines(w, db) = << >>
Regenerated(w, db) ==
    LET lines == Lines(w, db)
        Line(i) == IF i < Len(lines)
                   THEN [id |-> lines[i + 1], blank |-> FALSE]
                   ELSE [w.lv[i] EXCEPT !.blank = TRUE]
    IN  IF lines = << >> THEN w ELSE [w EXCEPT !.lv = [i \in DOMAIN w.lv |-> Line(i)]]

ViewToFeeds(w, db) ==
    Regenerated([w EXCEPT !.page = w.backup_page_num, !.ctx_type = "feeds", !.ctx_id = 0], db)

UpdatedOrFeeds_Ignored(w, db) == Regenerated(w, db)  \* mutant: result ignored

UpdatedOrFeeds(w, db) == IF Failed(w, db) THEN ViewToFeeds(w, db) ELSE Regenerated(w, db)

(* Mutant: the rows are not reallocated.                                   *)
Resized_NoAlloc(w, h, junk, db) ==
    Regenerated(
        [w EXCEPT !.cursor_i = IF w.body_len > h THEN 0 ELSE @,
                  !.body_len = h,
                  !.lv = [i \in DOMAIN w.lv |-> [w.lv[i] EXCEPT !.blank = TRUE]]],
        db)

(* resize_mainwindow and the update after it; the memory that the rows     *)
(* gain is not initialised.                                                *)
Resized(w, h, junk, db) ==
    Regenerated(
        [w EXCEPT !.cursor_i = IF w.body_len > h THEN 0 ELSE @,
                  !.body_len = h,
                  !.lv = [i \in 0 .. h - 1 |->
                            [id |-> IF i < w.body_len THEN w.lv[i].id ELSE junk, blank |-> TRUE]]],
        db)

(* update_view: print_crop tells which rows have something on them.        *)
Filled(w) == {i \in DOMAIN w.lv : ~w.lv[i].blank}
Shown(w) == IF Filled(w) = {} THEN w ELSE [w EXCEPT !.content_bw_max = Max(Filled(w))]

(* How a handler ends: KH_RET_OK, or KH_RET_UPDATE and update_view.        *)
Ok(w, db) ==
    /\ mw' = w
    /\ entry' = db
    /\ UNCHANGED <<newsize, height>>

Update(w, db) ==
    /\ \/ ~newsize /\ mw' = Shown(w)
       \/ newsize /\ \E junk \in Ids : mw' = Shown(Resized(w, height, junk, db))
    /\ entry' = db
    /\ newsize' = FALSE
    /\ UNCHANGED height

-----------------------------------------------------------------------------

(* A cursor beyond the rows reads whatever is in that memory.              *)
AtCursor == IF mw.cursor_i < mw.body_len THEN {mw.lv[mw.cursor_i].id} ELSE Ids

ToItem(i) == Ok([mw EXCEPT !.cursor_i = i], entry)
LowItem == ToItem(mw.content_bw_max)
MidItem == ToItem(mw.content_bw_max \div 2)
HighItem == ToItem(0)

(* Mutants: an off-by-one at the last row; the page is left turned at the  *)
(* end of the list.                                                        *)
NextItem_Past ==
    \/ mw.cursor_i <= mw.content_bw_max /\ ToItem(mw.cursor_i + 1)
    \/ /\ mw.cursor_i > mw.content_bw_max
       /\ mw.content_bw_max = mw.body_len - 1
       /\ LET w == [mw EXCEPT !.cursor_i = 0, !.page = @ + 1]
          IN IF Failed(w, entry) THEN ToItem(mw.content_bw_max)
             ELSE Update(Regenerated(w, entry), entry)
NextItem_NotUndone ==
    \/ mw.cursor_i < mw.content_bw_max /\ ToItem(mw.cursor_i + 1)
    \/ /\ mw.cursor_i >= mw.content_bw_max
       /\ mw.content_bw_max = mw.body_len - 1
       /\ LET w == [mw EXCEPT !.cursor_i = 0, !.page = @ + 1]
          IN IF Failed(w, entry) THEN Ok([w EXCEPT !.cursor_i = mw.content_bw_max], entry)
             ELSE Update(Regenerated(w, entry), entry)

NextItem ==
    \/ mw.cursor_i < mw.content_bw_max /\ ToItem(mw.cursor_i + 1)
    \/ /\ mw.cursor_i >= mw.content_bw_max
       /\ mw.content_bw_max = mw.body_len - 1
       /\ LET w == [mw EXCEPT !.cursor_i = 0, !.page = @ + 1]
          IN IF Failed(w, entry) THEN ToItem(mw.content_bw_max)
             ELSE Update(Regenerated(w, entry), entry)

PrevItem ==
    \/ mw.cursor_i > 0 /\ ToItem(mw.cursor_i - 1)
    \/ /\ mw.cursor_i = 0 /\ mw.page > 0
       /\ LET w == [mw EXCEPT !.cursor_i = mw.body_len - 1, !.page = @ - 1]
          IN Update(Regenerated(w, entry), entry)

(* Mutant: a feed without articles to show is entered nevertheless.        *)
SelectFeed_NoFallback ==
    /\ mw.ctx_type = "feeds"
    /\ \E id \in AtCursor :
       LET w == [mw EXCEPT !.ctx_type = "entries", !.ctx_id = id,
                           !.backup_page_num = mw.page, !.page = 0]
       IN Update([Regenerated(w, entry) EXCEPT !.backup_cursor_i = mw.cursor_i,
                                               !.cursor_i = 0], entry)

(* select_item on a feed, and on an article, which the pager shows.        *)
SelectFeed ==
    /\ mw.ctx_type = "feeds"
    /\ \E id \in AtCursor :
       LET w == [mw EXCEPT !.ctx_type = "entries", !.ctx_id = id,
                           !.backup_page_num = mw.page, !.page = 0]
       IN IF Failed(w, entry) THEN Ok(ViewToFeeds(w, entry), entry)
          ELSE Update([Regenerated(w, entry) EXCEPT !.backup_cursor_i = mw.cursor_i,
                                                    !.cursor_i = 0], entry)

(* UPDATE Entry SET Viewed=... WHERE EntryID or FeedID is ...              *)
Marked(ids, v) ==
    [e \in DOMAIN entry |-> IF e \in ids THEN [entry[e] EXCEPT !.Viewed = v] ELSE entry[e]]

SelectEntry ==
    /\ mw.ctx_type = "entries"
    /\ \E id \in AtCursor :
          LET db == Marked({id}, TRUE) IN Update(UpdatedOrFeeds(mw, db), db)

(* download_item does the same with the downloader.                        *)
DownloadItem ==
    \/ SelectEntry
    \/ mw.ctx_type = "feeds" /\ Update(mw, entry)

(* cache_read_feed: 0 is every feed.                                       *)
ReadFeed(f) == Marked({e \in DOMAIN entry : f = 0 \/ entry[e].FeedID = f}, TRUE)

CatchupFeed ==
    \/ /\ mw.ctx_type = "feeds"
       /\ \E id \in AtCursor :
             LET db == ReadFeed(id) IN Update(Regenerated(mw, db), db)
    \/ /\ mw.ctx_type = "entries"
       /\ LET db == ReadFeed(mw.ctx_id) IN Update(UpdatedOrFeeds(mw, db), db)

CatchupAll == LET db == ReadFeed(0) IN Update(UpdatedOrFeeds(mw, db), db)

ToggleRead ==
    /\ mw.ctx_type = "entries"
    /\ \E id \in AtCursor :
       LET db == Marked({id}, id \in Unread(entry))
       IN IF Failed(mw, db) \/ mw.ctx_id = 0 \/ ~ShowReadEntries
          THEN Update(UpdatedOrFeeds(mw, db), db)
          ELSE Ok(Regenerated(mw, db), db)

(* Mutants: no update_view afterwards; the page is not restored.           *)
ContextExit_NoUpdate ==
    /\ mw.ctx_type = "entries"
    /\ LET w == [mw EXCEPT !.cursor_i = mw.backup_cursor_i, !.ctx_type = "feeds", !.ctx_id = 0,
                           !.page = mw.backup_page_num]
       IN Ok(Regenerated(w, entry), entry)
ContextExit_NoPage ==
    /\ mw.ctx_type = "entries"
    /\ LET w == [mw EXCEPT !.cursor_i = mw.backup_cursor_i, !.ctx_type = "feeds", !.ctx_id = 0,
                           !.page = 0]
       IN Update(Regenerated(w, entry), entry)

(* context_exit out of a list of articles; out of the feeds it ends the    *)
(* program.                                                                *)
ContextExit ==
    /\ mw.ctx_type = "entries"
    /\ LET w == [mw EXCEPT !.cursor_i = mw.backup_cursor_i, !.ctx_type = "feeds", !.ctx_id = 0,
                           !.page = mw.backup_page_num]
       IN Update(Regenerated(w, entry), entry)

Key ==
    \/ LowItem \/ MidItem \/ HighItem \/ NextItem \/ PrevItem
    \/ SelectFeed \/ DownloadItem
    \/ CatchupFeed \/ CatchupAll \/ ToggleRead \/ ContextExit

(* The end of a reload, in run_ui or refresh_all.                          *)
CycleDone == MayImport /\ Update(Regenerated(mw, entry), entry)

(* SIGWINCH, after which the terminal has another size, and redraw-screen, *)
(* whose update is a resize.                                               *)
CatchResize ==
    /\ height' \in Heights
    /\ newsize' = TRUE
    /\ UNCHANGED <<entry, mw>>

RedrawScreen ==
    /\ \E junk \in Ids : mw' = Shown(Resized(mw, height, junk, entry))
    /\ newsize' = FALSE
    /\ UNCHANGED <<entry, height>>

(* What a statement of an import does to the rows.  A new article, of      *)
(* whichever feed, gets the id after the highest in use, so the id of a    *)
(* deleted one comes back; an article the cache has keeps its id, feed and *)
(* mark, but not its date; and one that is read may be deleted.            *)
IsNewID(id) == /\ id - 1 \in DOMAIN entry \cup {0}
               /\ \A e \in DOMAIN entry : e < id

Import ==
    /\ MayImport
    /\ \/ \E id \in Entries, f \in Feeds, d \in Dates :
             /\ IsNewID(id)
             /\ entry' = [e \in DOMAIN entry \cup {id} |->
                            IF e = id THEN [FeedID |-> f, PubDate |-> d, Viewed |-> FALSE]
                            ELSE entry[e]]
       \/ \E e \in DOMAIN entry, d \in Dates : entry' = [entry EXCEPT ![e].PubDate = d]
       \/ \E id \in DOMAIN entry \ Unread(entry) :
             entry' = [e \in DOMAIN entry \ {id} |-> entry[e]]
    /\ UNCHANGED <<mw, newsize, height>>

(* main: the window is set up, the first lines are generated and shown.    *)
Init ==
    /\ entry \in Stored
    /\ height \in Heights
    /\ newsize = FALSE
    /\ \E junk \in Ids :
          LET w == [page |-> 0, ctx_type |-> "feeds", ctx_id |-> 0, body_len |-> height,
                    lv |-> [i \in 0 .. height - 1 |-> [id |-> junk, blank |-> TRUE]],
                    cursor_i |-> 0, content_bw_max |-> 0,
                    backup_cursor_i |-> 0, backup_page_num |-> 0]
          IN mw = Shown(Regenerated(w, entry))

Next == Key \/ RedrawScreen \/ CycleDone \/ CatchResize \/ Import

Spec == Init /\ [][Next]_vars

-----------------------------------------------------------------------------

(* Keys move the cursor, and low_item takes it to a row, within the rows   *)
(* of the window: body_w and lv have body_len elements.                    *)
InBounds == mw.cursor_i < mw.body_len /\ mw.content_bw_max < mw.body_len

(* content_bw_max, which update_view counts and the keys that do not end   *)
(* in an update rely on, is the last row with something on it.             *)
RowsCounted == Filled(mw) # {} /\ mw.content_bw_max = Max(Filled(mw))

(* The rows are those of the page of the list that mw says they are of:    *)
(* with no import in between, whatever keys are pressed, no row is stale.  *)
RowsFresh ==
    LET lines == Lines(mw, entry)
    IN  \A i \in DOMAIN mw.lv : IF i < Len(lines)
                               THEN ~mw.lv[i].blank /\ mw.lv[i].id = lines[i + 1]
                               ELSE mw.lv[i].blank

(* Only an import makes the first page stale: a key, a resize or the end   *)
(* of a reload finds its rows those of its list, and the list of articles  *)
(* not empty, and leaves them so, though feeds and articles that are read  *)
(* go from their lists.  A later page may lose its lines that way; a key   *)
(* that goes on to the first from there has to generate it anew.           *)
FirstPageRight ==
    /\ mw.page = 0 => RowsFresh
    /\ mw.ctx_type = "entries" => EntryList(mw.ctx_id, entry) # <<>>
FirstPageKept == [][FirstPageRight => FirstPageRight' \/ Import]_vars

(* In a list of articles every row is an article and, while the cache has  *)
(* it, one of the feed that was selected.                                  *)
RowsOfFeed ==
    mw.ctx_type = "entries" =>
        \A i \in Filled(mw) :
           LET id == mw.lv[i].id
           IN /\ id \in Entries
              /\ mw.ctx_id # 0 /\ id \in DOMAIN entry => entry[id].FeedID = mw.ctx_id

(* Whatever is pressed, imported or resized, though the list may be found  *)
(* empty, a row comes to be of another feed in one way only: an import     *)
(* gives the id of a deleted article, which the row still has, to a new    *)
(* one.  The end of the reload then puts the rows right, unless there is   *)
(* no line for them.                                                       *)
IdReused == \E i \in Filled(mw) : mw.lv[i].id \in DOMAIN entry' \ DOMAIN entry
RowsKeepFeed ==
    [][~RowsOfFeed' => /\ ~RowsOfFeed \/ IdReused
                       /\ ~CycleDone \/ Failed(mw, entry)]_vars

(* With show-read-feeds no, no feed is listed without an unread article    *)
(* (config.sample, "Display feeds which contain no unread articles").      *)
ReadFeedsHidden ==
    mw.ctx_type = "feeds" /\ ~ShowReadFeeds =>
        \A i \in Filled(mw) :
            mw.lv[i].id = 0 \/ \E e \in Unread(entry) : entry[e].FeedID = mw.lv[i].id

(* Paging through the feeds shows each of them once and in order, though   *)
(* the first page has a row that is not a feed.                            *)
PagesTile ==
    \A len \in Heights :
        FlattenSeq([p \in 1 .. Len(FeedList(entry)) + 1 |-> FeedLines(p - 1, len, entry)])
            = <<0>> \o FeedList(entry)

(* Leaving a list of articles puts the cursor back on the feed it is of.   *)
ExitReturns ==
    [][ContextExit /\ mw'.cursor_i \in Filled(mw') => mw'.lv[mw'.cursor_i].id = mw.ctx_id]_vars
=============================================================================
