-------------------------- MODULE MainWindowProofs --------------------------
(***************************************************************************)
(* The list window for every cache, every sequence of keys and every size: *)
(* what its rows are of, with imports and resizes at any moment; that the  *)
(* cursor stays in a terminal that keeps its size; that without an import  *)
(* no row of the first page is stale, and of no page while feeds that are  *)
(* read stay listed; and that the pages are the list.                      *)
(***************************************************************************)
EXTENDS MainWindow, Extrema, SequenceTheorems

(* The type of a window, whichever the state holds.                        *)
Window(w) ==
    /\ w.body_len \in Heights
    /\ w \in [page : Nat, ctx_type : {"feeds", "entries"}, ctx_id : Ids,
              body_len : Nat, lv : [0 .. w.body_len - 1 -> [id : Ids, blank : BOOLEAN]],
              cursor_i : Nat, content_bw_max : Nat,
              backup_cursor_i : Nat, backup_page_num : Nat]

(* Two windows that differ in their rows only.                             *)
Same(w, u) ==
    /\ u.page = w.page /\ u.ctx_type = w.ctx_type /\ u.ctx_id = w.ctx_id
    /\ u.body_len = w.body_len /\ u.cursor_i = w.cursor_i
    /\ u.content_bw_max = w.content_bw_max
    /\ u.backup_cursor_i = w.backup_cursor_i /\ u.backup_page_num = w.backup_page_num

(* The rows are these lines, and the rest is blank.                        *)
RowsAre(w, lines) ==
    \A i \in 0 .. w.body_len - 1 :
        IF i < Len(lines) THEN ~w.lv[i].blank /\ w.lv[i].id = lines[i + 1] ELSE w.lv[i].blank

(* What RowsOfFeed says of a window.                                       *)
Belongs(id, f, db) == id \in Entries /\ (f # 0 /\ id \in DOMAIN db => db[id].FeedID = f)
OfFeed(w, db) ==
    w.ctx_type = "entries" => \A i \in Filled(w) : Belongs(w.lv[i].id, w.ctx_id, db)

-----------------------------------------------------------------------------

(* What the assumptions say of the constants.                              *)
LEMMA ConstantFacts ==
  /\ Heights \subseteq Nat \ {0} /\ Ids \subseteq Nat /\ 0 \in Ids
  /\ Feeds \subseteq Ids /\ Entries \subseteq Ids
  BY WindowAssumption DEF Ids

(* In a finite set each place of an order is some element's.               *)
LEMMA RankOnto ==
  ASSUME NEW S, IsFiniteSet(S), NEW before \in [S -> SUBSET S],
         \A x \in S : x \notin before[x],
         \A x, y \in S : x = y \/ (x \in before[y] /\ before[x] \subseteq before[y])
                               \/ (y \in before[x] /\ before[y] \subseteq before[x])
  PROVE  Cardinality(S) \in Nat /\
         \A i \in 1 .. Cardinality(S) : \E x \in S : Cardinality(before[x]) = i - 1
  <1> DEFINE n == Cardinality(S)
             rank == [x \in S |-> Cardinality(before[x])]
  <1>1. n \in Nat
    BY FS_CardinalityType
  <1>2. \A x \in S : IsFiniteSet(before[x]) /\ Cardinality(before[x]) \in Nat
    BY FS_Subset, FS_CardinalityType
  <1>3. ASSUME NEW y \in S, NEW T \in SUBSET before[y], T # before[y]
        PROVE  Cardinality(T) < Cardinality(before[y])
    <2>1. IsFiniteSet(T) /\ Cardinality(T) <= Cardinality(before[y])
          /\ Cardinality(T) # Cardinality(before[y])
      BY <1>2, <1>3, FS_Subset
    <2>2. Cardinality(T) \in Nat
      BY <2>1, FS_CardinalityType
    <2> QED
      BY <1>2, <2>1, <2>2
  <1>4. \A x \in S : Cardinality(before[x]) \in 0 .. n - 1
    <2>1. SUFFICES ASSUME NEW x \in S
                   PROVE  Cardinality(before[x]) \in 0 .. n - 1
      OBVIOUS
    <2>2. before[x] \in SUBSET S /\ before[x] # S
      OBVIOUS
    <2>3. Cardinality(before[x]) <= n /\ Cardinality(before[x]) # n
      BY <2>2, FS_Subset
    <2> QED
      BY <1>1, <1>2, <2>3
  <1>5. ASSUME NEW x \in S, NEW y \in S, rank[x] = rank[y]
        PROVE  x = y
    <2>1. CASE x \in before[y] /\ before[x] \subseteq before[y]
      BY <1>2, <1>3, <1>5, <2>1
    <2>2. CASE y \in before[x] /\ before[y] \subseteq before[x]
      BY <1>2, <1>3, <1>5, <2>2
    <2> QED
      BY <2>1, <2>2
  <1>6. rank \in Injection(S, 0 .. n - 1)
    <2>1. rank \in [S -> 0 .. n - 1]
      BY <1>4
    <2> HIDE DEF rank
    <2> QED
      BY <1>5, <2>1 DEF Injection, IsInjective
  <1>7. IsFiniteSet(0 .. n - 1) /\ Cardinality(0 .. n - 1) = n
    <2>1. 0 \in Int /\ n - 1 \in Int /\ (IF 0 > n - 1 THEN 0 ELSE n - 1 - 0 + 1) = n
      BY <1>1
    <2> HIDE DEF n
    <2> QED
      BY <2>1, FS_Interval
  <1>8. rank \in Surjection(S, 0 .. n - 1)
    <2> HIDE DEF rank
    <2> QED
      BY <1>6, <1>7, FS_Injection
  <1>9. ASSUME NEW i \in 1 .. n
        PROVE  \E x \in S : Cardinality(before[x]) = i - 1
    <2>1. i - 1 \in 0 .. n - 1
      BY <1>1
    <2>2. PICK x \in S : rank[x] = i - 1
      <3> HIDE DEF rank
      <3> QED
        BY <1>8, <2>1 DEF Surjection
    <2> QED
      BY <2>2
  <1> QED
    BY <1>1, <1>9

(* ORDER BY leaves the elements there are.                                 *)
LEMMA AscendingFacts ==
  ASSUME NEW S \in SUBSET Nat, IsFiniteSet(S)
  PROVE  Ascending(S) \in Seq(S)
  <1> DEFINE before == [x \in S |-> {y \in S : y < x}]
  <1>1. Cardinality(S) \in Nat /\
        \A i \in 1 .. Cardinality(S) : \E x \in S : Cardinality(before[x]) = i - 1
    <2>1. before \in [S -> SUBSET S]
      OBVIOUS
    <2>2. \A x \in S : x \notin before[x]
      OBVIOUS
    <2>3. ASSUME NEW x \in S, NEW y \in S, x < y
          PROVE  x \in before[y] /\ before[x] \subseteq before[y]
      <3>1. x \in Nat /\ y \in Nat /\ \A z \in S : z \in Nat
        OBVIOUS
      <3>2. \A z \in S : z < x => z < y
        BY <3>1, <2>3
      <3> QED
        BY <2>3, <3>2
    <2>4. \A x, y \in S : x = y \/ x < y \/ y < x
      OBVIOUS
    <2> HIDE DEF before
    <2>5. \A x, y \in S : x = y \/ (x \in before[y] /\ before[x] \subseteq before[y])
                                \/ (y \in before[x] /\ before[y] \subseteq before[x])
      BY <2>3, <2>4
    <2> QED
      BY <2>1, <2>2, <2>5, RankOnto
  <1>2. \A i \in 1 .. Cardinality(S) : \E x \in S : Cardinality({y \in S : y < x}) = i - 1
    BY <1>1
  <1>3. Ascending(S) \in [1 .. Cardinality(S) -> S]
    BY <1>2 DEF Ascending
  <1> QED
    BY <1>1, <1>3

(* The newest article first is an order of any articles there are rows of. *)
LEMMA NewestFirstFacts ==
  ASSUME NEW db, IsCache(db), NEW S \in SUBSET DOMAIN db, IsFiniteSet(S)
  PROVE  NewestFirst(S, db) \in Seq(S)
  <1> DEFINE before == [x \in S |-> {y \in S : Newer(db, y, x)}]
  <1>1. \A e \in S : e \in Int /\ db[e].PubDate \in Int
    BY WindowAssumption DEF IsCache, Row
  <1>2. Cardinality(S) \in Nat /\
        \A i \in 1 .. Cardinality(S) : \E x \in S : Cardinality(before[x]) = i - 1
    <2>1. before \in [S -> SUBSET S]
      OBVIOUS
    <2>2. \A x \in S : x \notin before[x]
      BY <1>1 DEF Newer
    <2>3. ASSUME NEW x \in S, NEW y \in S, Newer(db, x, y)
          PROVE  x \in before[y] /\ before[x] \subseteq before[y]
      <3>1. \A z \in S : Newer(db, z, x) => Newer(db, z, y)
        BY <1>1, <2>3 DEF Newer
      <3> QED
        BY <2>3, <3>1
    <2>4. \A x, y \in S : x = y \/ Newer(db, x, y) \/ Newer(db, y, x)
      BY <1>1 DEF Newer
    <2> HIDE DEF before
    <2>5. \A x, y \in S : x = y \/ (x \in before[y] /\ before[x] \subseteq before[y])
                                \/ (y \in before[x] /\ before[y] \subseteq before[x])
      BY <2>3, <2>4
    <2> QED
      BY <2>1, <2>2, <2>5, RankOnto
  <1>3. \A i \in 1 .. Cardinality(S) : \E x \in S : Cardinality({y \in S : Newer(db, y, x)}) = i - 1
    BY <1>2
  <1>4. NewestFirst(S, db) \in [1 .. Cardinality(S) -> S]
    BY <1>3 DEF NewestFirst
  <1> QED
    BY <1>2, <1>4

(* LIMIT leaves at most n lines of the list.                               *)
LEMMA LimitFacts ==
  ASSUME NEW X, NEW s \in Seq(X), NEW start \in Nat, NEW n \in Nat
  PROVE  Limit(s, start, n) \in Seq(X) /\ Len(Limit(s, start, n)) <= n
  <1> DEFINE m == Min({start + n, Len(s)})
  <1>1. m \in Nat /\ m <= Len(s) /\ m <= start + n
    <2>1. Len(s) \in Nat /\ start + n \in Nat
      OBVIOUS
    <2>2. {start + n, Len(s)} \in SUBSET (0 .. start + n + Len(s)) /\ start + n + Len(s) \in Nat
      BY <2>1
    <2>3. m \in {start + n, Len(s)} /\ \A y \in {start + n, Len(s)} : m <= y
      BY <2>2, MinOf
    <2> QED
      BY <2>1, <2>3
  <1> HIDE DEF m
  <1>2. \A i \in start + 1 .. m : s[i] \in X
    BY <1>1
  <1>3. /\ SubSeq(s, start + 1, m) \in Seq(X)
        /\ Len(SubSeq(s, start + 1, m)) = IF start + 1 <= m THEN m - (start + 1) + 1 ELSE 0
    BY <1>1, <1>2, SubSeqProperties
  <1>4. Limit(s, start, n) = SubSeq(s, start + 1, m)
    BY DEF Limit, m
  <1>5. (IF start + 1 <= m THEN m - (start + 1) + 1 ELSE 0) <= n
    BY <1>1
  <1> QED
    BY <1>3, <1>4, <1>5

(* The list of feeds, the list of articles, and the lines of a page of     *)
(* either: at least the row Unread Articles on the first page of feeds.    *)
LEMMA FeedListFacts ==
  ASSUME NEW db, IsCache(db)
  PROVE  FeedList(db) \in Seq(Ids)
  <1> DEFINE S == {db[e].FeedID : e \in IF ShowReadFeeds THEN DOMAIN db ELSE Unread(db)}
  <1>1. S \in SUBSET Feeds
    BY DEF Unread, IsCache, Row
  <1>2. S \in SUBSET Nat /\ IsFiniteSet(S)
    BY <1>1, WindowAssumption, FS_Subset
  <1>3. FeedList(db) = Ascending(S)
    BY DEF FeedList
  <1> HIDE DEF S
  <1>4. Ascending(S) \in Seq(S)
    BY <1>2, AscendingFacts
  <1>5. S \subseteq Ids
    BY <1>1, ConstantFacts
  <1> QED
    BY <1>3, <1>4, <1>5

(* A list of articles has articles of its feed only.                       *)
OfList(f, db) == {e \in DOMAIN db : f # 0 => db[e].FeedID = f}

LEMMA EntryListFacts ==
  ASSUME NEW f \in Nat, NEW db, IsCache(db)
  PROVE  EntryList(f, db) \in Seq(OfList(f, db)) /\ OfList(f, db) \subseteq Entries
  <1> DEFINE S == IF f > 0
                  THEN {e \in IF ShowReadEntries THEN DOMAIN db ELSE Unread(db) : db[e].FeedID = f}
                  ELSE Unread(db)
  <1>1. S \in SUBSET OfList(f, db)
    BY DEF OfList, Unread
  <1>2. OfList(f, db) \subseteq DOMAIN db /\ DOMAIN db \subseteq Entries
    BY DEF OfList, IsCache
  <1>3. EntryList(f, db) = NewestFirst(S, db)
    BY DEF EntryList
  <1> HIDE DEF S
  <1>4. IsFiniteSet(S)
    <2>1. S \in SUBSET Entries
      BY <1>1, <1>2
    <2> QED
      BY <2>1, WindowAssumption, FS_Subset
  <1>5. NewestFirst(S, db) \in Seq(S)
    BY <1>1, <1>2, <1>4, NewestFirstFacts
  <1> QED
    BY <1>1, <1>2, <1>3, <1>5

(* A page of feeds fits the window, and the first one is never empty.      *)
LEMMA FeedLinesFacts ==
  ASSUME NEW page \in Nat, NEW len \in Nat \ {0}, NEW db, IsCache(db)
  PROVE  /\ FeedLines(page, len, db) \in Seq(Ids)
         /\ Len(FeedLines(page, len, db)) <= len
         /\ page = 0 => FeedLines(page, len, db) # << >>
  <1>1. PICK start \in Nat : start = page * len /\ (page = 0 => start = 0)
    OBVIOUS
  <1>2. FeedList(db) \in Seq(Ids)
    BY FeedListFacts
  <1>3. CASE start = 0
    <2>1. /\ Limit(FeedList(db), 0, len - 1) \in Seq(Ids)
          /\ Len(Limit(FeedList(db), 0, len - 1)) <= len - 1
      <3>1. 0 \in Nat /\ len - 1 \in Nat
        OBVIOUS
      <3> QED
        BY <1>2, <3>1, LimitFacts
    <2>2. <<0>> \in Seq(Ids) /\ Len(<<0>>) = 1
      BY ConstantFacts
    <2>3. FeedLines(page, len, db) = <<0>> \o Limit(FeedList(db), 0, len - 1)
      BY <1>1, <1>3 DEF FeedLines
    <2>4. PICK rest : rest = Limit(FeedList(db), 0, len - 1)
      OBVIOUS
    <2>5. <<0>> \o rest \in Seq(Ids) /\ Len(<<0>> \o rest) = 1 + Len(rest) /\ Len(rest) \in Nat
      BY <2>1, <2>2, <2>4
    <2>6. Len(<<0>> \o rest) # 0
      BY <2>5
    <2> QED
      BY <2>1, <2>3, <2>4, <2>5, <2>6
  <1>4. CASE start # 0
    <2>1. FeedLines(page, len, db) = Limit(FeedList(db), start - 1, len) /\ page # 0
      BY <1>1, <1>4 DEF FeedLines
    <2>2. start - 1 \in Nat /\ len \in Nat
      BY <1>4
    <2> QED
      BY <1>2, <2>1, <2>2, LimitFacts
  <1> QED
    BY <1>3, <1>4

(* What cache_gen_lines returns fits the window and its context.           *)
LEMMA LinesFacts ==
  ASSUME NEW w, Window(w), NEW db, IsCache(db)
  PROVE  /\ Lines(w, db) \in Seq(Ids) /\ Len(Lines(w, db)) <= w.body_len
         /\ w.ctx_type = "feeds" => Lines(w, db) = FeedLines(w.page, w.body_len, db)
         /\ w.ctx_type = "entries" =>
              \A i \in 1 .. Len(Lines(w, db)) :
                 Belongs(Lines(w, db)[i], w.ctx_id, db)
  <1>1. /\ w.page \in Nat /\ w.body_len \in Nat \ {0} /\ w.ctx_type \in {"feeds", "entries"}
        /\ w.ctx_id \in Nat
    BY ConstantFacts DEF Window
  <1>2. CASE w.ctx_type = "feeds"
    BY <1>1, <1>2, FeedLinesFacts DEF Lines
  <1>3. CASE w.ctx_type = "entries"
    <2> DEFINE X == OfList(w.ctx_id, db)
    <2>1. EntryList(w.ctx_id, db) \in Seq(X) /\ X \subseteq Entries
      BY <1>1, EntryListFacts
    <2>2. Lines(w, db) = Limit(EntryList(w.ctx_id, db), w.page * w.body_len, w.body_len)
      BY <1>3 DEF Lines
    <2>3. w.page * w.body_len \in Nat
      BY <1>1
    <2> HIDE DEF X
    <2>4. Lines(w, db) \in Seq(X) /\ Len(Lines(w, db)) <= w.body_len
      BY <1>1, <2>1, <2>2, <2>3, LimitFacts
    <2>5. \A i \in 1 .. Len(Lines(w, db)) : Lines(w, db)[i] \in X
      BY <2>4
    <2>6. X \subseteq Ids
      BY <2>1, ConstantFacts
    <2>7. Lines(w, db) \in Seq(Ids)
      BY <2>4, <2>6
    <2>8. \A i \in 1 .. Len(Lines(w, db)) : Belongs(Lines(w, db)[i], w.ctx_id, db)
      BY <2>1, <2>5 DEF X, OfList, Belongs
    <2> QED
      BY <1>3, <2>4, <2>7, <2>8
  <1> QED
    BY <1>1, <1>2, <1>3

-----------------------------------------------------------------------------

(* The fields of a well typed window.                                      *)
LEMMA WindowFields ==
  ASSUME NEW w, Window(w)
  PROVE  /\ w.page \in Nat /\ w.ctx_type \in {"feeds", "entries"} /\ w.ctx_id \in Ids
         /\ w.body_len \in Heights /\ w.body_len \in Nat \ {0}
         /\ w.cursor_i \in Nat /\ w.content_bw_max \in Nat
         /\ w.backup_cursor_i \in Nat /\ w.backup_page_num \in Nat
         /\ w.lv \in [0 .. w.body_len - 1 -> [id : Ids, blank : BOOLEAN]]
         /\ DOMAIN w.lv = 0 .. w.body_len - 1
         /\ \A i \in 0 .. w.body_len - 1 : w.lv[i] \in [id : Ids, blank : BOOLEAN]
         /\ \A i \in 0 .. w.body_len - 1 : w.lv[i].id \in Ids /\ w.lv[i].blank \in BOOLEAN
  BY ConstantFacts DEF Window

(* request_list_update: nothing changes when there is no line; otherwise   *)
(* the rows are the lines.                                                 *)
LEMMA RegeneratedFacts ==
  ASSUME NEW w, Window(w), NEW db, IsCache(db)
  PROVE  /\ Window(Regenerated(w, db)) /\ Same(w, Regenerated(w, db))
         /\ Failed(w, db) => Regenerated(w, db) = w
         /\ ~Failed(w, db) => RowsAre(Regenerated(w, db), Lines(w, db))
  <1> DEFINE lines == Lines(w, db)
             Line(i) == IF i < Len(lines)
                       THEN [id |-> lines[i + 1], blank |-> FALSE]
                       ELSE [w.lv[i] EXCEPT !.blank = TRUE]
             rows == [i \in 0 .. w.body_len - 1 |-> Line(i)]
  <1>1. CASE Failed(w, db)
    <2>1. Regenerated(w, db) = w
      BY <1>1 DEF Regenerated, Failed
    <2> QED
      BY <1>1, <2>1 DEF Same
  <1>2. CASE ~Failed(w, db)
    <2>1. Regenerated(w, db) = [w EXCEPT !.lv = rows]
      BY <1>2, WindowFields DEF Regenerated, Failed
    <2>2. lines \in Seq(Ids) /\ Len(lines) \in Nat /\ w.body_len \in Nat \ {0}
      BY LinesFacts, WindowFields
    <2> HIDE DEF lines
    <2>3. \A i \in 0 .. w.body_len - 1 : Line(i) \in [id : Ids, blank : BOOLEAN]
      <3>1. SUFFICES ASSUME NEW i \in 0 .. w.body_len - 1
                     PROVE  Line(i) \in [id : Ids, blank : BOOLEAN]
        OBVIOUS
      <3>2. CASE i < Len(lines)
        <4>1. i + 1 \in 1 .. Len(lines)
          BY <2>2, <3>2
        <4>2. lines[i + 1] \in Ids
          BY <2>2, <4>1
        <4> QED
          BY <3>2, <4>2
      <3>3. CASE ~(i < Len(lines))
        BY <3>3, WindowFields
      <3> QED
        BY <3>2, <3>3
    <2>4. rows \in [0 .. w.body_len - 1 -> [id : Ids, blank : BOOLEAN]]
      BY <2>3
    <2>5. \A i \in 0 .. w.body_len - 1 :
             IF i < Len(lines) THEN ~rows[i].blank /\ rows[i].id = lines[i + 1] ELSE rows[i].blank
      BY WindowFields
    <2> HIDE DEF rows
    <2>6. Window([w EXCEPT !.lv = rows])
      BY <2>4 DEF Window
    <2>7. Same(w, [w EXCEPT !.lv = rows]) /\ [w EXCEPT !.lv = rows].lv = rows
      BY DEF Window, Same
    <2>8. RowsAre([w EXCEPT !.lv = rows], lines)
      BY <2>5, <2>7 DEF RowsAre, Same
    <2> QED
      BY <1>2, <2>1, <2>6, <2>7, <2>8 DEF lines
  <1> QED
    BY <1>1, <1>2

(* Rows that are those of the list are of its feed.                        *)
LEMMA RowsAreOfFeed ==
  ASSUME NEW w, Window(w), NEW db, IsCache(db), RowsAre(w, Lines(w, db))
  PROVE  OfFeed(w, db)
  <1>1. SUFFICES ASSUME w.ctx_type = "entries", NEW i \in Filled(w)
                 PROVE  Belongs(w.lv[i].id, w.ctx_id, db)
    BY DEF OfFeed
  <1>2. i \in 0 .. w.body_len - 1 /\ ~w.lv[i].blank
    BY <1>1, WindowFields DEF Filled
  <1>3. i < Len(Lines(w, db)) /\ w.lv[i].id = Lines(w, db)[i + 1]
    BY <1>2 DEF RowsAre
  <1>4. i + 1 \in 1 .. Len(Lines(w, db))
    <2>1. Len(Lines(w, db)) \in Nat /\ i \in Nat
      BY <1>2, LinesFacts, WindowFields
    <2> QED
      BY <1>3, <2>1
  <1> QED
    BY <1>1, <1>3, <1>4, LinesFacts

(* A window whose lines are the same list as another's.                    *)
LEMMA SameLines ==
  ASSUME NEW w, NEW u, Same(w, u), NEW db, IsCache(db)
  PROVE  Lines(u, db) = Lines(w, db)
  BY DEF Same, Lines

(* So are the rows of a list generated anew.                               *)
LEMMA RegeneratedOfFeed ==
  ASSUME NEW w, Window(w), NEW db, IsCache(db), OfFeed(w, db) \/ ~Failed(w, db)
  PROVE  OfFeed(Regenerated(w, db), db)
  <1>1. CASE Failed(w, db)
    BY <1>1, RegeneratedFacts
  <1>2. CASE ~Failed(w, db)
    <2>1. PICK u : u = Regenerated(w, db)
      OBVIOUS
    <2>2. Window(u) /\ Same(w, u) /\ RowsAre(u, Lines(w, db))
      BY <1>2, <2>1, RegeneratedFacts
    <2>3. RowsAre(u, Lines(u, db))
      BY <2>2, SameLines
    <2> QED
      BY <2>1, <2>2, <2>3, RowsAreOfFeed
  <1> QED
    BY <1>1, <1>2

(* The list of feeds again, on the page it was left at.                    *)
LEMMA ViewToFeedsFacts ==
  ASSUME NEW w, Window(w), NEW db, IsCache(db)
  PROVE  /\ Window(ViewToFeeds(w, db)) /\ ViewToFeeds(w, db).ctx_type = "feeds"
         /\ OfFeed(ViewToFeeds(w, db), db)
         /\ Same([w EXCEPT !.page = w.backup_page_num, !.ctx_type = "feeds", !.ctx_id = 0],
                 ViewToFeeds(w, db))
         /\ FeedLines(w.backup_page_num, w.body_len, db) # << >>
              => RowsAre(ViewToFeeds(w, db), FeedLines(w.backup_page_num, w.body_len, db))
  <1> DEFINE v == [w EXCEPT !.page = w.backup_page_num, !.ctx_type = "feeds", !.ctx_id = 0]
  <1>1. Window(v)
    BY ConstantFacts DEF Window
  <1>2. v.ctx_type = "feeds" /\ v.page = w.backup_page_num /\ v.body_len = w.body_len
    BY DEF Window
  <1>3. ViewToFeeds(w, db) = Regenerated(v, db)
    BY DEF ViewToFeeds
  <1>4. Lines(v, db) = FeedLines(w.backup_page_num, w.body_len, db)
    BY <1>2 DEF Lines
  <1>5. Window(Regenerated(v, db)) /\ Same(v, Regenerated(v, db))
        /\ (~Failed(v, db) => RowsAre(Regenerated(v, db), Lines(v, db)))
    <2> HIDE DEF v
    <2> QED
      BY <1>1, RegeneratedFacts
  <1>6. Regenerated(v, db).ctx_type = "feeds"
    BY <1>2, <1>5 DEF Same
  <1>7. OfFeed(Regenerated(v, db), db)
    BY <1>6 DEF OfFeed
  <1> QED
    BY <1>2, <1>3, <1>4, <1>5, <1>6, <1>7 DEF Failed

(* And of a list that falls back to the feeds when it is empty.            *)
LEMMA UpdatedOrFeedsFacts ==
  ASSUME NEW w, Window(w), NEW db, IsCache(db)
  PROVE  Window(UpdatedOrFeeds(w, db)) /\ OfFeed(UpdatedOrFeeds(w, db), db)
  <1>1. CASE Failed(w, db)
    BY <1>1, ViewToFeedsFacts DEF UpdatedOrFeeds
  <1>2. CASE ~Failed(w, db)
    BY <1>2, RegeneratedFacts, RegeneratedOfFeed DEF UpdatedOrFeeds
  <1> QED
    BY <1>1, <1>2

(* resize_mainwindow blanks the rows before they are generated again, of   *)
(* the same list, and changes no more when the size is the same.           *)
LEMMA ResizedIs ==
  ASSUME NEW w, Window(w), NEW h \in Heights, NEW junk \in Ids, NEW db, IsCache(db)
  PROVE  \E v : /\ Window(v) /\ OfFeed(v, db) /\ Resized(w, h, junk, db) = Regenerated(v, db)
                /\ v.page = w.page /\ v.ctx_type = w.ctx_type /\ v.ctx_id = w.ctx_id
                /\ h = w.body_len => Same(w, v)
  <1> DEFINE rows == [i \in 0 .. h - 1 |->
                        [id |-> IF i < w.body_len THEN w.lv[i].id ELSE junk, blank |-> TRUE]]
             v == [w EXCEPT !.cursor_i = IF w.body_len > h THEN 0 ELSE @,
                            !.body_len = h, !.lv = rows]
  <1>1. rows \in [0 .. h - 1 -> [id : Ids, blank : BOOLEAN]]
    <2>1. \A i \in 0 .. h - 1 : i < w.body_len => w.lv[i].id \in Ids
      <3>1. \A i \in 0 .. h - 1 : i < w.body_len => i \in 0 .. w.body_len - 1
        BY WindowFields, ConstantFacts
      <3> QED
        BY <3>1, WindowFields
    <2> QED
      BY <2>1
  <1>2. \A i \in 0 .. h - 1 : rows[i].blank
    OBVIOUS
  <1> HIDE DEF rows
  <1>3. Window(v)
    <2>1. PICK c \in Nat : c = IF w.body_len > h THEN 0 ELSE w.cursor_i
      BY WindowFields
    <2>2. v = [w EXCEPT !.cursor_i = c, !.body_len = h, !.lv = rows]
      BY <2>1
    <2>3. v.body_len = h /\ v.body_len \in Heights /\ h \in Nat
      BY ConstantFacts DEF Window
    <2> QED
      BY <1>1, <2>2, <2>3 DEF Window
  <1>4. v.lv = rows /\ v.body_len = h
    BY DEF Window
  <1>5. OfFeed(v, db)
    BY <1>1, <1>2, <1>4 DEF OfFeed, Filled
  <1>6. Resized(w, h, junk, db) = Regenerated(v, db)
    BY DEF Resized, rows
  <1>7. v.page = w.page /\ v.ctx_type = w.ctx_type /\ v.ctx_id = w.ctx_id
    BY DEF Window
  <1>8. ASSUME h = w.body_len
        PROVE  Same(w, v)
    <2>1. ~(w.body_len > h)
      BY <1>8, WindowFields
    <2>2. v = [w EXCEPT !.cursor_i = w.cursor_i, !.body_len = w.body_len, !.lv = rows]
      BY <1>8, <2>1
    <2> QED
      BY <2>2 DEF Window, Same
  <1> HIDE DEF v
  <1> QED
    BY <1>3, <1>5, <1>6, <1>7, <1>8

(* What is left of a resize is a window, with articles of its feed.        *)
LEMMA ResizedFacts ==
  ASSUME NEW w, Window(w), NEW h \in Heights, NEW junk \in Ids, NEW db, IsCache(db)
  PROVE  Window(Resized(w, h, junk, db)) /\ OfFeed(Resized(w, h, junk, db), db)
  <1>1. PICK v : Window(v) /\ OfFeed(v, db) /\ Resized(w, h, junk, db) = Regenerated(v, db)
    BY ResizedIs
  <1> QED
    BY <1>1, RegeneratedFacts, RegeneratedOfFeed

(* update_view counts the rows.                                            *)
LEMMA ShownFacts ==
  ASSUME NEW w, Window(w)
  PROVE  /\ Window(Shown(w)) /\ Shown(w).lv = w.lv
         /\ \E c \in Nat : Shown(w) = [w EXCEPT !.content_bw_max = c]
         /\ \A db : OfFeed(w, db) => OfFeed(Shown(w), db)
         /\ Filled(w) # {} => Shown(w).content_bw_max = Max(Filled(w))
  <1>1. \E c \in Nat : /\ Shown(w) = [w EXCEPT !.content_bw_max = c]
                       /\ Filled(w) # {} => c = Max(Filled(w))
    <2>1. CASE Filled(w) = {}
      <3>1. w = [w EXCEPT !.content_bw_max = w.content_bw_max] /\ w.content_bw_max \in Nat
        BY WindowFields DEF Window
      <3> QED
        BY <2>1, <3>1 DEF Shown
    <2>2. CASE Filled(w) # {}
      <3>1. Filled(w) \in SUBSET (0 .. w.body_len - 1) /\ w.body_len - 1 \in Nat
        BY WindowFields DEF Filled
      <3>2. Max(Filled(w)) \in Filled(w)
        BY <2>2, <3>1, MaxOf
      <3>3. Max(Filled(w)) \in Nat
        BY <3>1, <3>2
      <3> QED
        BY <2>2, <3>3 DEF Shown
    <2> QED
      BY <2>1, <2>2
  <1>2. PICK c \in Nat : /\ Shown(w) = [w EXCEPT !.content_bw_max = c]
                         /\ Filled(w) # {} => c = Max(Filled(w))
    BY <1>1
  <1> DEFINE u == [w EXCEPT !.content_bw_max = c]
  <1>3. Window(u)
    BY DEF Window
  <1>4. u.lv = w.lv /\ u.ctx_type = w.ctx_type /\ u.ctx_id = w.ctx_id /\ u.content_bw_max = c
    BY DEF Window
  <1>5. \A db : OfFeed(w, db) => OfFeed(u, db)
    BY <1>4 DEF OfFeed, Filled
  <1> QED
    BY <1>2, <1>3, <1>4, <1>5

-----------------------------------------------------------------------------

(* What holds at any time, the types.  The rows of a list of articles stay *)
(* those of its feed at every step but an import.                          *)
State(db, new, h) == IsCache(db) /\ new \in BOOLEAN /\ h \in Heights
WindowInv == State(entry, newsize, height) /\ Window(mw)
Keeps == WindowInv' /\ (OfFeed(mw, entry) => OfFeed(mw', entry'))

(* TypeOK in the parts the proofs take it in.                              *)
LEMMA TypeParts == TypeOK <=> State(entry, newsize, height) /\ Window(mw)
  BY DEF TypeOK, State, Window

(* A handler that ends in an update shows the rows it made, ...            *)
LEMMA UpdateShows ==
  ASSUME NEW w, Window(w), NEW db, IsCache(db), State(entry, newsize, height), Update(w, db)
  PROVE  WindowInv' /\ (OfFeed(w, db) => OfFeed(mw', entry'))
  <1>1. State(entry', newsize', height') /\ entry' = db
    BY DEF State, Update
  <1>2. CASE mw' = Shown(w)
    BY <1>1, <1>2, ShownFacts DEF WindowInv
  <1>3. CASE \E junk \in Ids : mw' = Shown(Resized(w, height, junk, db))
    <2>1. PICK junk \in Ids : mw' = Shown(Resized(w, height, junk, db))
      BY <1>3
    <2>2. PICK u : u = Resized(w, height, junk, db)
      OBVIOUS
    <2>3. Window(u) /\ OfFeed(u, db)
      BY <2>2, ResizedFacts DEF State
    <2>4. mw' = Shown(u)
      BY <2>1, <2>2
    <2> QED
      BY <1>1, <2>3, <2>4, ShownFacts DEF WindowInv
  <1> QED
    BY <1>2, <1>3 DEF Update

(* ... and keeps them its feed's if it made them so.  So does one that     *)
(* ends without an update.                                                 *)
LEMMA EndKeeps ==
  ASSUME NEW w, Window(w), NEW db, IsCache(db), OfFeed(mw, entry) => OfFeed(w, db),
         State(entry, newsize, height), Update(w, db) \/ Ok(w, db)
  PROVE  Keeps
  <1>1. CASE Update(w, db)
    BY <1>1, UpdateShows DEF Keeps
  <1>2. CASE Ok(w, db)
    BY <1>2 DEF Ok, WindowInv, State, Keeps
  <1> QED
    BY <1>1, <1>2

(* Marks change neither which articles there are nor their feeds and       *)
(* dates.                                                                  *)
Remarked(db) ==
    /\ IsCache(db) /\ DOMAIN db = DOMAIN entry
    /\ \A e \in DOMAIN entry : /\ db[e].FeedID = entry[e].FeedID
                              /\ db[e].PubDate = entry[e].PubDate

LEMMA MarkedFacts ==
  ASSUME IsCache(entry), NEW ids, NEW v \in BOOLEAN
  PROVE  Remarked(Marked(ids, v))
  <1>1. /\ DOMAIN entry \subseteq Entries /\ \A e \in DOMAIN entry : entry[e] \in Row
        /\ entry = [e \in DOMAIN entry |-> entry[e]]
    BY DEF IsCache
  <1>2. \A e \in DOMAIN entry :
          LET row == IF e \in ids THEN [entry[e] EXCEPT !.Viewed = v] ELSE entry[e]
          IN  row \in Row /\ row.FeedID = entry[e].FeedID /\ row.PubDate = entry[e].PubDate
    BY <1>1 DEF Row
  <1>3. PICK db : db = Marked(ids, v)
    OBVIOUS
  <1>4. /\ DOMAIN db = DOMAIN entry
        /\ db = [e \in DOMAIN entry |-> db[e]]
        /\ \A e \in DOMAIN entry :
              db[e] = IF e \in ids THEN [entry[e] EXCEPT !.Viewed = v] ELSE entry[e]
    BY <1>3 DEF Marked
  <1>5. \A e \in DOMAIN entry : /\ db[e] \in Row /\ db[e].FeedID = entry[e].FeedID
                                /\ db[e].PubDate = entry[e].PubDate
    BY <1>2, <1>4
  <1> QED
    BY <1>1, <1>3, <1>4, <1>5 DEF Remarked, IsCache

LEMMA RemarkedOfFeed ==
  ASSUME NEW w, NEW db, Remarked(db), OfFeed(w, entry)
  PROVE  OfFeed(w, db)
  BY DEF OfFeed, Belongs, Remarked

(* The id at the cursor is one, even beyond the rows.                      *)
LEMMA AtCursorType == Window(mw) => AtCursor \subseteq Ids
  <1>1. SUFFICES ASSUME Window(mw)
                 PROVE  AtCursor \subseteq Ids
    OBVIOUS
  <1>2. mw.cursor_i < mw.body_len => mw.cursor_i \in 0 .. mw.body_len - 1
    BY <1>1, WindowFields
  <1> QED
    BY <1>1, <1>2, WindowFields DEF AtCursor

(* Going to a row keeps the invariant.                                     *)
LEMMA ToItemKeeps ==
  ASSUME WindowInv, NEW i \in Nat, ToItem(i)
  PROVE  Keeps
  <1> DEFINE w == [mw EXCEPT !.cursor_i = i]
  <1>1. Window(w)
    BY DEF WindowInv, Window
  <1>2. w.lv = mw.lv /\ w.ctx_type = mw.ctx_type /\ w.ctx_id = mw.ctx_id
    BY DEF WindowInv, Window
  <1>3. OfFeed(mw, entry) => OfFeed(w, entry)
    BY <1>2 DEF OfFeed, Filled
  <1>4. Ok(w, entry)
    BY DEF ToItem
  <1>5. State(entry, newsize, height) /\ IsCache(entry)
    BY DEF WindowInv, State
  <1> HIDE DEF w
  <1> QED
    BY <1>1, <1>3, <1>4, <1>5, EndKeeps

(* Turning the page, on a list that has lines there or not.                *)
LEMMA TurnKeeps ==
  ASSUME WindowInv, NEW i \in Nat, NEW p \in Nat,
         Update(Regenerated([mw EXCEPT !.cursor_i = i, !.page = p], entry), entry)
  PROVE  Keeps
  <1>1. PICK w : w = [mw EXCEPT !.cursor_i = i, !.page = p]
    OBVIOUS
  <1>2. Window(w)
    BY <1>1 DEF WindowInv, Window
  <1>3. w.lv = mw.lv /\ w.ctx_type = mw.ctx_type /\ w.ctx_id = mw.ctx_id
    BY <1>1 DEF WindowInv, Window
  <1>4. OfFeed(mw, entry) => OfFeed(w, entry)
    BY <1>3 DEF OfFeed, Filled
  <1>5. PICK u : u = Regenerated(w, entry)
    OBVIOUS
  <1>6. State(entry, newsize, height) /\ IsCache(entry)
    BY DEF WindowInv, State
  <1>7. Window(u) /\ (OfFeed(mw, entry) => OfFeed(u, entry))
    BY <1>2, <1>4, <1>5, <1>6, RegeneratedFacts, RegeneratedOfFeed
  <1>8. Update(u, entry)
    BY <1>1, <1>5
  <1> QED
    BY <1>6, <1>7, <1>8, EndKeeps

(* So does going down, with the page turned at the last row.               *)
LEMMA NextItemKeeps ==
  ASSUME WindowInv, NextItem
  PROVE  Keeps
  <1>1. mw.cursor_i + 1 \in Nat /\ mw.content_bw_max \in Nat /\ mw.page + 1 \in Nat /\ 0 \in Nat
    BY WindowFields DEF WindowInv
  <1>2. CASE ToItem(mw.cursor_i + 1) \/ ToItem(mw.content_bw_max)
    BY <1>1, <1>2, ToItemKeeps
  <1>3. CASE Update(Regenerated([mw EXCEPT !.cursor_i = 0, !.page = mw.page + 1], entry), entry)
    BY <1>1, <1>3, TurnKeeps
  <1> QED
    BY <1>2, <1>3 DEF NextItem

(* So does going up.                                                       *)
LEMMA PrevItemKeeps ==
  ASSUME WindowInv, PrevItem
  PROVE  Keeps
  <1>1. /\ mw.cursor_i > 0 => mw.cursor_i - 1 \in Nat
        /\ mw.page > 0 => mw.page - 1 \in Nat
        /\ mw.body_len - 1 \in Nat
    BY WindowFields DEF WindowInv
  <1>2. CASE mw.cursor_i > 0 /\ ToItem(mw.cursor_i - 1)
    BY <1>1, <1>2, ToItemKeeps
  <1>3. CASE /\ mw.page > 0
             /\ Update(Regenerated([mw EXCEPT !.cursor_i = mw.body_len - 1, !.page = mw.page - 1],
                                   entry), entry)
    BY <1>1, <1>3, TurnKeeps
  <1> QED
    BY <1>2, <1>3 DEF PrevItem

(* So does entering a feed.                                                *)
LEMMA SelectFeedKeeps ==
  ASSUME WindowInv, SelectFeed
  PROVE  Keeps
  <1>1. PICK id \in AtCursor :
          LET w == [mw EXCEPT !.ctx_type = "entries", !.ctx_id = id,
                              !.backup_page_num = mw.page, !.page = 0]
          IN IF Failed(w, entry) THEN Ok(ViewToFeeds(w, entry), entry)
             ELSE Update([Regenerated(w, entry) EXCEPT !.backup_cursor_i = mw.cursor_i,
                                                       !.cursor_i = 0], entry)
    BY DEF SelectFeed
  <1>2. PICK w : w = [mw EXCEPT !.ctx_type = "entries", !.ctx_id = id,
                                !.backup_page_num = mw.page, !.page = 0]
    OBVIOUS
  <1>3. id \in Ids
    BY AtCursorType DEF WindowInv
  <1>4. Window(w)
    BY <1>2, <1>3 DEF WindowInv, Window
  <1>5. State(entry, newsize, height) /\ IsCache(entry)
    BY DEF WindowInv, State
  <1>6. CASE Failed(w, entry)
    <2>1. PICK u : u = ViewToFeeds(w, entry)
      OBVIOUS
    <2>2. Ok(u, entry)
      BY <1>1, <1>2, <1>6, <2>1
    <2>3. Window(u) /\ OfFeed(u, entry)
      BY <1>4, <1>5, <2>1, ViewToFeedsFacts
    <2> QED
      BY <1>5, <2>2, <2>3, EndKeeps
  <1>7. CASE ~Failed(w, entry)
    <2>1. PICK r : r = Regenerated(w, entry)
      OBVIOUS
    <2>2. Window(r) /\ OfFeed(r, entry)
      BY <1>4, <1>5, <1>7, <2>1, RegeneratedFacts, RegeneratedOfFeed
    <2>3. PICK i : i = mw.cursor_i /\ i \in Nat
      BY WindowFields DEF WindowInv
    <2>4. PICK u : u = [r EXCEPT !.backup_cursor_i = i, !.cursor_i = 0]
      OBVIOUS
    <2>5. Window(u) /\ u.lv = r.lv /\ u.ctx_type = r.ctx_type /\ u.ctx_id = r.ctx_id
      BY <2>2, <2>3, <2>4 DEF Window
    <2>6. OfFeed(u, entry)
      BY <2>2, <2>5 DEF OfFeed, Filled
    <2>7. Update(u, entry)
      BY <1>1, <1>2, <1>7, <2>1, <2>3, <2>4
    <2> QED
      BY <1>5, <2>5, <2>6, <2>7, EndKeeps
  <1> QED
    BY <1>6, <1>7

(* A key that marks articles generates the list anew, or that of the feeds *)
(* when it is empty; toggling a mark does not draw it where it stays as it *)
(* is.  Downloading a feed marks none.                                     *)
MarkingEnd(db) ==
    \/ Update(UpdatedOrFeeds(mw, db), db)
    \/ mw.ctx_type = "feeds" /\ Update(Regenerated(mw, db), db)
    \/ /\ mw.ctx_type = "entries" /\ mw.ctx_id # 0 /\ ShowReadEntries
       /\ ~Failed(mw, db) /\ Ok(Regenerated(mw, db), db)
    \/ db = entry /\ Update(mw, db)

LEMMA MarkingEnds ==
  ASSUME WindowInv, DownloadItem \/ CatchupFeed \/ CatchupAll \/ ToggleRead
  PROVE  \E db : Remarked(db) /\ MarkingEnd(db)
  <1>1. IsCache(entry)
    BY DEF WindowInv, State
  <1>2. ASSUME NEW id
        PROVE  Remarked(Marked({id}, TRUE)) /\ Remarked(Marked({id}, id \in Unread(entry)))
    <2>1. TRUE \in BOOLEAN /\ (id \in Unread(entry)) \in BOOLEAN
      OBVIOUS
    <2>2. \A ids : \A v \in BOOLEAN : Remarked(Marked(ids, v))
      BY <1>1, MarkedFacts
    <2> QED
      BY <2>1, <2>2, Zenon
  <1>3. \A f : Remarked(ReadFeed(f))
    BY <1>1, MarkedFacts DEF ReadFeed
  <1>4. CASE DownloadItem
    <2>1. Remarked(entry)
      BY <1>1 DEF Remarked
    <2> QED
      BY <1>2, <1>4, <2>1 DEF DownloadItem, SelectEntry, MarkingEnd
  <1>5. CASE CatchupFeed \/ CatchupAll
    BY <1>3, <1>5 DEF CatchupFeed, CatchupAll, MarkingEnd
  <1>6. CASE ToggleRead
    BY <1>2, <1>6 DEF ToggleRead, MarkingEnd
  <1> QED
    BY <1>4, <1>5, <1>6

(* However it ends, the rows stay those of their feed.                     *)
LEMMA MarkingKeeps ==
  ASSUME WindowInv, DownloadItem \/ CatchupFeed \/ CatchupAll \/ ToggleRead
  PROVE  Keeps
  <1>1. PICK db : Remarked(db) /\ MarkingEnd(db)
    BY MarkingEnds
  <1>2. State(entry, newsize, height) /\ Window(mw) /\ IsCache(db)
    BY <1>1 DEF WindowInv, Remarked
  <1>3. OfFeed(mw, entry) => OfFeed(mw, db)
    BY <1>1, RemarkedOfFeed
  <1>4. PICK u, r, m : u = UpdatedOrFeeds(mw, db) /\ r = Regenerated(mw, db) /\ m = mw
    OBVIOUS
  <1>5. Window(u) /\ OfFeed(u, db)
    BY <1>2, <1>4, UpdatedOrFeedsFacts
  <1>6. Window(r) /\ (OfFeed(mw, entry) => OfFeed(r, db))
    BY <1>2, <1>3, <1>4, RegeneratedFacts, RegeneratedOfFeed
  <1>7. Window(m) /\ (OfFeed(mw, entry) => OfFeed(m, db))
    BY <1>2, <1>3, <1>4
  <1>8. Update(u, db) \/ Update(r, db) \/ Ok(r, db) \/ Update(m, db)
    BY <1>1, <1>4 DEF MarkingEnd
  <1> QED
    BY <1>2, <1>5, <1>6, <1>7, <1>8, EndKeeps

(* So does leaving a list of articles.                                     *)
LEMMA ContextExitKeeps ==
  ASSUME WindowInv, ContextExit
  PROVE  Keeps
  <1>1. PICK w : w = [mw EXCEPT !.cursor_i = mw.backup_cursor_i, !.ctx_type = "feeds",
                                !.ctx_id = 0, !.page = mw.backup_page_num]
    OBVIOUS
  <1>2. Window(w) /\ w.ctx_type = "feeds"
    BY <1>1, ConstantFacts DEF WindowInv, Window
  <1>3. PICK u : u = Regenerated(w, entry)
    OBVIOUS
  <1>4. State(entry, newsize, height) /\ IsCache(entry)
    BY DEF WindowInv, State
  <1>5. Window(u) /\ OfFeed(u, entry)
    BY <1>2, <1>3, <1>4, RegeneratedFacts, RegeneratedOfFeed DEF OfFeed
  <1>6. Update(u, entry)
    BY <1>1, <1>3 DEF ContextExit
  <1> QED
    BY <1>4, <1>5, <1>6, EndKeeps

(* So does every key.                                                      *)
LEMMA KeyKeeps ==
  ASSUME WindowInv, Key
  PROVE  Keeps
  <1>1. CASE LowItem \/ MidItem \/ HighItem
    <2>1. mw.content_bw_max \in Nat /\ mw.content_bw_max \div 2 \in Nat /\ 0 \in Nat
      BY WindowFields DEF WindowInv
    <2> QED
      BY <1>1, <2>1, ToItemKeeps DEF LowItem, MidItem, HighItem
  <1> QED
    BY <1>1, NextItemKeeps, PrevItemKeeps, SelectFeedKeeps, MarkingKeeps, ContextExitKeeps DEF Key

(* What happens besides keys.                                              *)
LEMMA RedrawScreenKeeps ==
  ASSUME WindowInv, RedrawScreen
  PROVE  Keeps
  <1>1. PICK junk \in Ids : mw' = Shown(Resized(mw, height, junk, entry))
    BY DEF RedrawScreen
  <1>2. PICK u : u = Resized(mw, height, junk, entry)
    OBVIOUS
  <1>3. Window(u) /\ OfFeed(u, entry)
    BY <1>2, ResizedFacts DEF WindowInv, State
  <1>4. mw' = Shown(u)
    BY <1>1, <1>2
  <1>5. State(entry', newsize', height') /\ entry' = entry
    BY DEF RedrawScreen, WindowInv, State
  <1> QED
    BY <1>3, <1>4, <1>5, ShownFacts DEF WindowInv, Keeps

(* An import leaves the rows alone, and a cache; an article it leaves in   *)
(* the cache keeps its feed, and one that is new there got a free id.      *)
LEMMA ImportFacts ==
  ASSUME IsCache(entry), Import
  PROVE  /\ IsCache(entry') /\ UNCHANGED <<mw, newsize, height>>
         /\ \A e \in DOMAIN entry \cap DOMAIN entry' : entry'[e].FeedID = entry[e].FeedID
  <1>1. /\ DOMAIN entry \subseteq Entries /\ \A e \in DOMAIN entry : entry[e] \in Row
        /\ entry = [e \in DOMAIN entry |-> entry[e]]
    BY DEF IsCache
  <1>2. CASE \E id \in Entries, f \in Feeds, d \in Dates :
               /\ IsNewID(id)
               /\ entry' = [e \in DOMAIN entry \cup {id} |->
                              IF e = id THEN [FeedID |-> f, PubDate |-> d, Viewed |-> FALSE]
                              ELSE entry[e]]
    <2>1. PICK id \in Entries, f \in Feeds, d \in Dates :
               /\ IsNewID(id)
               /\ entry' = [e \in DOMAIN entry \cup {id} |->
                              IF e = id THEN [FeedID |-> f, PubDate |-> d, Viewed |-> FALSE]
                              ELSE entry[e]]
      BY <1>2
    <2>2. id \notin DOMAIN entry
      BY <2>1, WindowAssumption DEF IsNewID
    <2>3. [FeedID |-> f, PubDate |-> d, Viewed |-> FALSE] \in Row
      BY DEF Row
    <2>4. entry' \in [DOMAIN entry \cup {id} -> Row] /\ DOMAIN entry \cup {id} \subseteq Entries
      BY <1>1, <2>1, <2>3
    <2>5. \A e \in DOMAIN entry : entry'[e] = entry[e]
      BY <2>1, <2>2
    <2> QED
      BY <2>4, <2>5 DEF IsCache, Import
  <1>3. CASE \E e \in DOMAIN entry, d \in Dates : entry' = [entry EXCEPT ![e].PubDate = d]
    <2>1. PICK e \in DOMAIN entry, d \in Dates :
             entry' = [entry EXCEPT ![e] = [entry[e] EXCEPT !.PubDate = d]]
      BY <1>3
    <2>2. PICK row : row = [entry[e] EXCEPT !.PubDate = d]
      OBVIOUS
    <2>3. row \in Row /\ row.FeedID = entry[e].FeedID
      BY <1>1, <2>2 DEF Row
    <2>4. entry' \in [DOMAIN entry -> Row]
      BY <1>1, <2>1, <2>2, <2>3
    <2>5. \A x \in DOMAIN entry : entry'[x] = IF x = e THEN row ELSE entry[x]
      BY <1>1, <2>1, <2>2
    <2> QED
      BY <1>1, <2>3, <2>4, <2>5 DEF IsCache, Import
  <1>4. CASE \E id \in DOMAIN entry \ Unread(entry) :
               entry' = [e \in DOMAIN entry \ {id} |-> entry[e]]
    BY <1>1, <1>4 DEF IsCache, Import
  <1> QED
    BY <1>2, <1>3, <1>4 DEF Import

(* So only an import may bring the rows out of their feed.                 *)
LEMMA StepKeeps ==
  ASSUME WindowInv, [Next]_vars
  PROVE  WindowInv' /\ (Keeps \/ Import)
  <1>1. CASE CycleDone
    <2>1. PICK u : u = Regenerated(mw, entry)
      OBVIOUS
    <2>2. State(entry, newsize, height) /\ Window(mw) /\ IsCache(entry)
      BY DEF WindowInv, State
    <2>3. Window(u) /\ (OfFeed(mw, entry) => OfFeed(u, entry))
      BY <2>1, <2>2, RegeneratedFacts, RegeneratedOfFeed
    <2>4. Update(u, entry)
      BY <1>1, <2>1 DEF CycleDone
    <2>5. Keeps
      BY <2>2, <2>3, <2>4, EndKeeps
    <2> QED
      BY <2>5 DEF Keeps
  <1>2. CASE CatchResize
    BY <1>2 DEF CatchResize, WindowInv, State, Keeps
  <1>3. CASE Import
    BY <1>3, ImportFacts DEF WindowInv, State
  <1>4. CASE UNCHANGED vars
    BY <1>4 DEF vars, WindowInv, Keeps
  <1>5. CASE Key \/ RedrawScreen
    BY <1>5, KeyKeeps, RedrawScreenKeeps DEF Keeps
  <1> QED
    BY <1>1, <1>2, <1>3, <1>4, <1>5 DEF Next

LEMMA NextWindowInv == WindowInv /\ [Next]_vars => WindowInv'
  BY StepKeeps

(* The first window is generated like every other, of the feeds.           *)
LEMMA FirstWindow ==
  ASSUME Init
  PROVE  \E w : /\ Window(w) /\ w.ctx_type = "feeds" /\ w.page = 0 /\ w.body_len = height
                /\ w.cursor_i = 0 /\ w.content_bw_max = 0 /\ w.backup_cursor_i = 0
                /\ mw = Shown(Regenerated(w, entry))
  <1>1. PICK junk \in Ids :
          LET w == [page |-> 0, ctx_type |-> "feeds", ctx_id |-> 0, body_len |-> height,
                    lv |-> [i \in 0 .. height - 1 |-> [id |-> junk, blank |-> TRUE]],
                    cursor_i |-> 0, content_bw_max |-> 0,
                    backup_cursor_i |-> 0, backup_page_num |-> 0]
          IN mw = Shown(Regenerated(w, entry))
    BY DEF Init
  <1>2. PICK w : w = [page |-> 0, ctx_type |-> "feeds", ctx_id |-> 0, body_len |-> height,
                      lv |-> [i \in 0 .. height - 1 |-> [id |-> junk, blank |-> TRUE]],
                      cursor_i |-> 0, content_bw_max |-> 0,
                      backup_cursor_i |-> 0, backup_page_num |-> 0]
    OBVIOUS
  <1>3. height \in Heights /\ height \in Nat /\ 0 \in Ids
    BY ConstantFacts DEF Init
  <1>4. Window(w)
    BY <1>2, <1>3 DEF Window
  <1>5. /\ w.ctx_type = "feeds" /\ w.page = 0 /\ w.body_len = height
        /\ w.cursor_i = 0 /\ w.content_bw_max = 0 /\ w.backup_cursor_i = 0
    BY <1>2
  <1>6. mw = Shown(Regenerated(w, entry))
    BY <1>1, <1>2
  <1> QED
    BY <1>4, <1>5, <1>6

(* The invariant holds at first.                                           *)
LEMMA InitWindowInv == Init => WindowInv
  <1>1. SUFFICES ASSUME Init
                 PROVE  WindowInv
    OBVIOUS
  <1>2. PICK w : Window(w) /\ w.ctx_type = "feeds" /\ mw = Shown(Regenerated(w, entry))
    BY <1>1, FirstWindow
  <1>3. PICK u : u = Regenerated(w, entry)
    OBVIOUS
  <1>4. State(entry, newsize, height) /\ IsCache(entry)
    BY <1>1, WindowAssumption DEF Init, State
  <1>5. Window(u)
    BY <1>2, <1>3, <1>4, RegeneratedFacts
  <1> QED
    BY <1>2, <1>3, <1>4, <1>5, ShownFacts DEF WindowInv

(* The inductive invariant of the window at any time.                      *)
THEOREM WindowInvariant == Spec => []WindowInv
  BY InitWindowInv, NextWindowInv, PTL DEF Spec

(* The window is well typed for any list, any keys and any terminal: its   *)
(* rows are always as many as it takes them to be.                         *)
THEOREM TypeCorrect == Spec => []TypeOK
  <1>1. WindowInv => TypeOK
    BY TypeParts DEF WindowInv
  <1> QED
    BY <1>1, WindowInvariant, PTL

(* In a list of articles every row is an article, and of the feed that was *)
(* selected, and comes to be of another feed only when an import gives the *)
(* id it has anew; the end of a reload puts that right if there are lines. *)
THEOREM RowsBelong == Spec => RowsKeepFeed
  <1>1. OfFeed(mw, entry) <=> RowsOfFeed
    BY DEF OfFeed, Belongs, RowsOfFeed
  <1>2. OfFeed(mw', entry') <=> RowsOfFeed'
    BY DEF OfFeed, Belongs, RowsOfFeed, Filled
  <1>3. ASSUME WindowInv, Import, OfFeed(mw, entry), ~IdReused
        PROVE  OfFeed(mw', entry')
    <2>1. \A e \in DOMAIN entry \cap DOMAIN entry' : entry'[e].FeedID = entry[e].FeedID
      BY <1>3, ImportFacts DEF WindowInv, State
    <2>2. mw' = mw
      BY <1>3 DEF Import
    <2>3. \A i \in Filled(mw) : mw.lv[i].id \in DOMAIN entry' => mw.lv[i].id \in DOMAIN entry
      BY <1>3 DEF IdReused
    <2> QED
      BY <1>3, <2>1, <2>2, <2>3 DEF OfFeed, Belongs
  <1>4. ASSUME WindowInv, CycleDone, ~Failed(mw, entry)
        PROVE  OfFeed(mw', entry')
    <2>1. PICK w : w = Regenerated(mw, entry)
      OBVIOUS
    <2>2. State(entry, newsize, height) /\ IsCache(entry) /\ Window(mw)
      BY <1>4 DEF WindowInv, State
    <2>3. Window(w) /\ OfFeed(w, entry)
      BY <1>4, <2>1, <2>2, RegeneratedFacts, RegeneratedOfFeed
    <2>4. Update(w, entry)
      BY <1>4, <2>1 DEF CycleDone
    <2> QED
      BY <2>2, <2>3, <2>4, UpdateShows
  <1>5. WindowInv /\ [Next]_vars
          => [~RowsOfFeed' => (~RowsOfFeed \/ IdReused) /\ (~CycleDone \/ Failed(mw, entry))]_vars
    BY <1>1, <1>2, <1>3, <1>4, StepKeeps DEF Keeps
  <1> QED
    BY <1>5, WindowInvariant, PTL DEF Spec, RowsKeepFeed

-----------------------------------------------------------------------------

(* In a terminal that keeps its size the cursor, the last row and the row  *)
(* to come back to stay within the rows, whatever the rows are of.         *)
OneHeight == \E h : Heights = {h}

Within(w) ==
    /\ w.cursor_i < w.body_len /\ w.content_bw_max < w.body_len
    /\ w.backup_cursor_i < w.body_len
WithinInv == WindowInv /\ Within(mw)

(* It is a matter of the fields besides the rows.                          *)
LEMMA WithinSame ==
  ASSUME NEW w, NEW u, Same(w, u), Within(w)
  PROVE  Within(u)
  BY DEF Same, Within

(* A redraw in a terminal of the same size only changes the rows.          *)
LEMMA ResizedSame ==
  ASSUME NEW w, Window(w), NEW db, IsCache(db), NEW junk \in Ids
  PROVE  /\ Window(Resized(w, w.body_len, junk, db))
         /\ Same(w, Resized(w, w.body_len, junk, db))
  <1>1. PICK v : /\ Window(v) /\ Resized(w, w.body_len, junk, db) = Regenerated(v, db)
                 /\ Same(w, v)
    <2>1. PICK h \in Heights : h = w.body_len
      BY WindowFields
    <2>2. PICK v : /\ Window(v) /\ Resized(w, h, junk, db) = Regenerated(v, db)
                   /\ h = w.body_len => Same(w, v)
      BY ResizedIs
    <2> QED
      BY <2>1, <2>2
  <1> QED
    BY <1>1, RegeneratedFacts DEF Same

(* The last row that update_view counts is a row.                          *)
LEMMA WithinShown ==
  ASSUME NEW w, Window(w), Within(w)
  PROVE  Within(Shown(w))
  <1>1. CASE Filled(w) = {}
    BY <1>1 DEF Shown
  <1>2. CASE Filled(w) # {}
    <2>1. Filled(w) \in SUBSET (0 .. w.body_len - 1) /\ w.body_len - 1 \in Nat
      BY WindowFields DEF Filled
    <2>2. Max(Filled(w)) \in Filled(w)
      BY <1>2, <2>1, MaxOf
    <2>3. PICK c \in 0 .. w.body_len - 1 : c = Max(Filled(w)) /\ c < w.body_len
      BY <2>1, <2>2, WindowFields
    <2>4. Shown(w) = [w EXCEPT !.content_bw_max = c]
      BY <1>2, <2>3 DEF Shown
    <2>5. /\ Shown(w).content_bw_max = c /\ Shown(w).body_len = w.body_len
          /\ Shown(w).cursor_i = w.cursor_i /\ Shown(w).backup_cursor_i = w.backup_cursor_i
      BY <2>4 DEF Window
    <2> QED
      BY <2>3, <2>5 DEF Within
  <1> QED
    BY <1>1, <1>2

(* How a handler ends.                                                     *)
LEMMA WithinEnds ==
  ASSUME OneHeight, State(entry, newsize, height),
         NEW w, Window(w), Within(w), NEW db, IsCache(db), Update(w, db) \/ Ok(w, db)
  PROVE  Within(mw')
  <1>1. height = w.body_len
    BY WindowFields DEF OneHeight, State
  <1>2. CASE Ok(w, db)
    BY <1>2 DEF Ok
  <1>3. CASE mw' = Shown(w)
    BY <1>3, WithinShown
  <1>4. CASE \E junk \in Ids : mw' = Shown(Resized(w, height, junk, db))
    <2>1. PICK junk \in Ids : mw' = Shown(Resized(w, height, junk, db))
      BY <1>4
    <2>2. PICK u : u = Resized(w, w.body_len, junk, db)
      OBVIOUS
    <2>3. Window(u) /\ Within(u)
      BY <2>2, ResizedSame, WithinSame
    <2>4. mw' = Shown(u)
      BY <1>1, <2>1, <2>2
    <2> QED
      BY <2>3, <2>4, WithinShown
  <1> QED
    BY <1>2, <1>3, <1>4 DEF Update

(* The lists a handler may end with.                                       *)
LEMMA WithinLists ==
  ASSUME NEW w, Window(w), Within(w), NEW db, IsCache(db)
  PROVE  /\ Window(Regenerated(w, db)) /\ Within(Regenerated(w, db))
         /\ Window(ViewToFeeds(w, db)) /\ Within(ViewToFeeds(w, db))
         /\ Window(UpdatedOrFeeds(w, db)) /\ Within(UpdatedOrFeeds(w, db))
  <1>1. Window(Regenerated(w, db)) /\ Within(Regenerated(w, db))
    BY RegeneratedFacts, WithinSame
  <1>2. Window(ViewToFeeds(w, db)) /\ Within(ViewToFeeds(w, db))
    <2>1. PICK v : v = [w EXCEPT !.page = w.backup_page_num, !.ctx_type = "feeds", !.ctx_id = 0]
      OBVIOUS
    <2>2. Within(v)
      BY <2>1 DEF Window, Within
    <2>3. PICK u : u = ViewToFeeds(w, db)
      OBVIOUS
    <2>4. Window(u) /\ Same(v, u)
      BY <2>1, <2>3, ViewToFeedsFacts
    <2> QED
      BY <2>2, <2>3, <2>4, WithinSame
  <1> QED
    BY <1>1, <1>2 DEF UpdatedOrFeeds

(* The cursor goes to a row within.                                        *)
LEMMA WithinItem ==
  ASSUME WithinInv, NEW i \in Nat, i < mw.body_len, ToItem(i)
  PROVE  Within(mw')
  <1>1. mw' = [mw EXCEPT !.cursor_i = i]
    BY DEF ToItem, Ok
  <1> QED
    BY <1>1 DEF WithinInv, WindowInv, Window, Within

(* A page is turned with the cursor on a row within.                       *)
LEMMA WithinTurn ==
  ASSUME OneHeight, WithinInv, NEW i \in Nat, i < mw.body_len, NEW p \in Nat,
         Update(Regenerated([mw EXCEPT !.cursor_i = i, !.page = p], entry), entry)
  PROVE  Within(mw')
  <1>1. PICK w : w = [mw EXCEPT !.cursor_i = i, !.page = p]
    OBVIOUS
  <1>5. State(entry, newsize, height) /\ IsCache(entry)
    BY DEF WithinInv, WindowInv, State
  <1>2. Window(w) /\ Within(w)
    BY <1>1 DEF WithinInv, WindowInv, Window, Within
  <1>3. PICK u : u = Regenerated(w, entry)
    OBVIOUS
  <1>4. Window(u) /\ Within(u) /\ Update(u, entry)
    BY <1>1, <1>2, <1>3, <1>5, WithinLists
    <1> QED
    BY <1>4, <1>5, WithinEnds

(* The keys that move the cursor.                                          *)
LEMMA WithinMoves ==
  ASSUME OneHeight, WithinInv, LowItem \/ MidItem \/ HighItem \/ NextItem \/ PrevItem
  PROVE  Within(mw')
  <1>1. /\ mw.cursor_i \in Nat /\ mw.content_bw_max \in Nat /\ mw.body_len \in Nat \ {0}
        /\ mw.page \in Nat /\ mw.cursor_i < mw.body_len /\ mw.content_bw_max < mw.body_len
    BY WindowFields DEF WithinInv, WindowInv, Within
  <1>2. PICK half : half = mw.content_bw_max \div 2
    OBVIOUS
  <1>3. half \in Nat /\ half < mw.body_len
    BY <1>1, <1>2
  <1>4. CASE LowItem \/ MidItem \/ HighItem
    BY <1>1, <1>2, <1>3, <1>4, WithinItem DEF LowItem, MidItem, HighItem
  <1>5. CASE NextItem
    <2>1. CASE mw.cursor_i < mw.content_bw_max /\ ToItem(mw.cursor_i + 1)
      <3>1. mw.cursor_i + 1 \in Nat /\ mw.cursor_i + 1 < mw.body_len
        BY <1>1, <2>1
      <3> QED
        BY <2>1, <3>1, WithinItem
    <2>2. CASE ToItem(mw.content_bw_max)
      BY <1>1, <2>2, WithinItem
    <2>3. CASE Update(Regenerated([mw EXCEPT !.cursor_i = 0, !.page = mw.page + 1], entry), entry)
      <3>1. 0 \in Nat /\ 0 < mw.body_len /\ mw.page + 1 \in Nat
        BY <1>1
      <3> QED
        BY <2>3, <3>1, WithinTurn
    <2> QED
      BY <1>5, <2>1, <2>2, <2>3 DEF NextItem
  <1>6. CASE PrevItem
    <2>1. CASE mw.cursor_i > 0 /\ ToItem(mw.cursor_i - 1)
      <3>1. mw.cursor_i - 1 \in Nat /\ mw.cursor_i - 1 < mw.body_len
        BY <1>1, <2>1
      <3> QED
        BY <2>1, <3>1, WithinItem
    <2>2. CASE /\ mw.page > 0
               /\ Update(Regenerated([mw EXCEPT !.cursor_i = mw.body_len - 1,
                                                !.page = mw.page - 1], entry), entry)
      <3>1. mw.body_len - 1 \in Nat /\ mw.body_len - 1 < mw.body_len /\ mw.page - 1 \in Nat
        BY <1>1, <2>2
      <3> QED
        BY <2>2, <3>1, WithinTurn
    <2> QED
      BY <1>6, <2>1, <2>2 DEF PrevItem
  <1> QED
    BY <1>4, <1>5, <1>6

(* Entering a feed keeps the cursor's row to come back to, and so is left. *)
LEMMA WithinContext ==
  ASSUME OneHeight, WithinInv, SelectFeed \/ ContextExit
  PROVE  Within(mw')
  <1>1. State(entry, newsize, height) /\ IsCache(entry) /\ Window(mw) /\ Within(mw)
    BY DEF WithinInv, WindowInv, State
  <1>2. CASE SelectFeed
    <2>1. PICK id \in AtCursor :
            LET w == [mw EXCEPT !.ctx_type = "entries", !.ctx_id = id,
                                !.backup_page_num = mw.page, !.page = 0]
            IN IF Failed(w, entry) THEN Ok(ViewToFeeds(w, entry), entry)
               ELSE Update([Regenerated(w, entry) EXCEPT !.backup_cursor_i = mw.cursor_i,
                                                         !.cursor_i = 0], entry)
      BY <1>2 DEF SelectFeed
    <2>2. PICK w : w = [mw EXCEPT !.ctx_type = "entries", !.ctx_id = id,
                                  !.backup_page_num = mw.page, !.page = 0]
      OBVIOUS
    <2>3. id \in Ids
      BY <1>1, AtCursorType
    <2>4. Window(w) /\ Within(w) /\ w.body_len = mw.body_len
      BY <1>1, <2>2, <2>3 DEF Window, Within
    <2>5. PICK v, r, i : v = ViewToFeeds(w, entry) /\ r = Regenerated(w, entry) /\ i = mw.cursor_i
      OBVIOUS
    <2>6. PICK u : u = [r EXCEPT !.backup_cursor_i = i, !.cursor_i = 0]
      OBVIOUS
    <2>7. Window(v) /\ Within(v) /\ Window(r) /\ Within(r) /\ r.body_len = w.body_len
      BY <1>1, <2>4, <2>5, WithinLists, RegeneratedFacts DEF Same
    <2>8. i \in Nat /\ i < w.body_len /\ 0 < r.body_len
      <3>1. mw.cursor_i \in Nat /\ r.body_len \in Nat \ {0}
        BY <1>1, <2>7, WindowFields
      <3>2. mw.cursor_i < mw.body_len
        BY <1>1 DEF Within
      <3> QED
        BY <2>4, <2>5, <3>1, <3>2
    <2>9. Window(u) /\ Within(u)
      <3>1. Window(u)
        BY <2>6, <2>7, <2>8 DEF Window
      <3>2. /\ u.cursor_i = 0 /\ u.backup_cursor_i = i
            /\ u.body_len = r.body_len /\ u.content_bw_max = r.content_bw_max
        BY <2>6, <2>7 DEF Window
      <3> QED
        BY <2>7, <2>8, <3>1, <3>2 DEF Within
    <2>10. Ok(v, entry) \/ Update(u, entry)
      BY <2>1, <2>2, <2>5, <2>6
    <2> QED
      BY <1>1, <2>7, <2>9, <2>10, WithinEnds
  <1>3. CASE ContextExit
    <2>1. PICK w : w = [mw EXCEPT !.cursor_i = mw.backup_cursor_i, !.ctx_type = "feeds",
                                  !.ctx_id = 0, !.page = mw.backup_page_num]
      OBVIOUS
    <2>2. Window(w) /\ Within(w)
      BY <1>1, <2>1, ConstantFacts DEF Window, Within
    <2>3. PICK u : u = Regenerated(w, entry)
      OBVIOUS
    <2>4. Window(u) /\ Within(u) /\ Update(u, entry)
      BY <1>1, <1>3, <2>1, <2>2, <2>3, WithinLists DEF ContextExit
    <2> QED
      BY <1>1, <2>4, WithinEnds
  <1> QED
    BY <1>2, <1>3

(* The keys that mark articles, and the end of a reload.                   *)
LEMMA WithinMarks ==
  ASSUME OneHeight, WithinInv,
         DownloadItem \/ CatchupFeed \/ CatchupAll \/ ToggleRead \/ CycleDone
  PROVE  Within(mw')
  <1>1. \E db : /\ Remarked(db)
                /\ \/ Update(UpdatedOrFeeds(mw, db), db)
                   \/ Update(Regenerated(mw, db), db)
                   \/ Ok(Regenerated(mw, db), db)
                   \/ Update(mw, db)
    <2>1. CASE DownloadItem \/ CatchupFeed \/ CatchupAll \/ ToggleRead
      BY <2>1, MarkingEnds DEF WithinInv, MarkingEnd
    <2>2. CASE CycleDone
      BY <2>2 DEF CycleDone, WithinInv, WindowInv, State, Remarked
    <2> QED
      BY <2>1, <2>2
  <1>2. PICK db, w : /\ IsCache(db)
                     /\ w = mw \/ w = Regenerated(mw, db) \/ w = UpdatedOrFeeds(mw, db)
                     /\ Update(w, db) \/ Ok(w, db)
    BY <1>1 DEF Remarked
  <1>3. State(entry, newsize, height) /\ Window(mw) /\ Within(mw)
    BY DEF WithinInv, WindowInv
  <1>4. Window(w) /\ Within(w)
    BY <1>2, <1>3, WithinLists
  <1> QED
    BY <1>2, <1>3, <1>4, WithinEnds

(* Every step.                                                             *)
LEMMA WithinStep ==
  ASSUME OneHeight, WithinInv, [Next]_vars
  PROVE  Within(mw')
  <1>1. CASE RedrawScreen
    <2>1. PICK junk \in Ids : mw' = Shown(Resized(mw, height, junk, entry))
      BY <1>1 DEF RedrawScreen
    <2>2. height = mw.body_len /\ Window(mw) /\ Within(mw) /\ IsCache(entry)
      BY WindowFields DEF OneHeight, WithinInv, WindowInv, State
    <2>3. PICK u : u = Resized(mw, mw.body_len, junk, entry)
      OBVIOUS
    <2>4. Window(u) /\ Within(u)
      BY <2>2, <2>3, ResizedSame, WithinSame
    <2>5. mw' = Shown(u)
      BY <2>1, <2>2, <2>3
    <2> QED
      BY <2>4, <2>5, WithinShown
  <1>2. CASE CatchResize \/ Import \/ UNCHANGED vars
    BY <1>2 DEF CatchResize, Import, vars, WithinInv
  <1>3. CASE Key \/ CycleDone
    BY <1>3, WithinMoves, WithinContext, WithinMarks DEF Key
  <1> QED
    BY <1>1, <1>2, <1>3 DEF Next

(* The first state.                                                        *)
LEMMA WithinInit == Init => Within(mw)
  <1>1. SUFFICES ASSUME Init
                 PROVE  Within(mw)
    OBVIOUS
  <1>2. PICK w : /\ Window(w) /\ mw = Shown(Regenerated(w, entry))
                 /\ w.cursor_i = 0 /\ w.content_bw_max = 0 /\ w.backup_cursor_i = 0
    BY <1>1, FirstWindow
  <1>3. Within(w) /\ IsCache(entry)
    BY <1>1, <1>2, WindowFields, WindowAssumption DEF Within, Init
  <1>4. PICK u : u = Regenerated(w, entry)
    OBVIOUS
  <1>5. Window(u) /\ Within(u)
    BY <1>2, <1>3, <1>4, WithinLists
  <1> QED
    BY <1>2, <1>4, <1>5, WithinShown

(* In a terminal of one size the cursor and low_item stay within the rows  *)
(* that body_w and lv have, whatever keys are pressed, whichever feeds are *)
(* listed and whatever a reload does to the cache in between.              *)
THEOREM StaysInBounds == OneHeight => (Spec => []InBounds)
  <1>1. OneHeight => []OneHeight
    <2>1. OneHeight => OneHeight'
      BY DEF OneHeight
    <2> QED
      BY <2>1, PTL
  <1>2. Init => WithinInv
    BY InitWindowInv, WithinInit DEF WithinInv
  <1>3. OneHeight /\ WithinInv /\ [Next]_vars => WithinInv'
    BY NextWindowInv, WithinStep DEF WithinInv
  <1>4. WithinInv => InBounds
    BY DEF WithinInv, Within, InBounds
  <1> QED
    BY <1>1, <1>2, <1>3, <1>4, PTL DEF Spec

-----------------------------------------------------------------------------

(* Between reloads, with the feeds listed that are read and a terminal     *)
(* that keeps its size, the list of feeds stays as it is, and a list of    *)
(* articles is left when nothing remains of it: no page is empty.          *)
Settled == ShowReadFeeds /\ ~MayImport /\ \E h : Heights = {h}

Fresh(w, db) == Lines(w, db) # << >> /\ RowsAre(w, Lines(w, db))

(* The way back to the feed that the articles are of.                      *)
Backed(w, db) ==
    LET lines == FeedLines(w.backup_page_num, w.body_len, db)
    IN  w.ctx_type = "entries" =>
            /\ lines # << >>
            /\ w.backup_cursor_i < w.body_len
            /\ w.backup_cursor_i < Len(lines) => lines[w.backup_cursor_i + 1] = w.ctx_id

Steady(w, db) == Fresh(w, db) /\ Backed(w, db) /\ w.cursor_i < w.body_len
CountOf(w, db) == w.content_bw_max = Len(Lines(w, db)) - 1
SteadyInv == Steady(mw, entry) /\ CountOf(mw, entry)

(* LIMIT returns a row if there is one at its start.                       *)
LEMMA LimitNonEmpty ==
  ASSUME NEW X, NEW s \in Seq(X), NEW start \in Nat, NEW n \in Nat \ {0}
  PROVE  Limit(s, start, n) # << >> <=> start < Len(s)
  <1> DEFINE m == Min({start + n, Len(s)})
  <1>1. m \in Nat /\ m <= Len(s) /\ (m = start + n \/ m = Len(s))
    <2>1. Len(s) \in Nat /\ start + n \in Nat
      OBVIOUS
    <2>2. {start + n, Len(s)} \in SUBSET (0 .. start + n + Len(s)) /\ start + n + Len(s) \in Nat
      BY <2>1
    <2>3. m \in {start + n, Len(s)} /\ \A y \in {start + n, Len(s)} : m <= y
      BY <2>2, MinOf
    <2> QED
      BY <2>1, <2>3
  <1> HIDE DEF m
  <1>2. \A i \in start + 1 .. m : s[i] \in X
    BY <1>1
  <1>3. /\ SubSeq(s, start + 1, m) \in Seq(X)
        /\ Len(SubSeq(s, start + 1, m)) = IF start + 1 <= m THEN m - (start + 1) + 1 ELSE 0
    BY <1>1, <1>2, SubSeqProperties
  <1>4. Limit(s, start, n) = SubSeq(s, start + 1, m)
    BY DEF Limit, m
  <1>5. Len(Limit(s, start, n)) = 0 <=> ~(start < Len(s))
    <2>1. Len(s) \in Nat
      OBVIOUS
    <2> QED
      BY <1>1, <1>3, <1>4, <2>1
  <1>6. Limit(s, start, n) \in Seq(X)
    BY <1>3, <1>4
  <1>7. Limit(s, start, n) = << >> <=> Len(Limit(s, start, n)) = 0
    BY <1>6, EmptySeq
  <1> QED
    BY <1>5, <1>7

(* Page q ends where page q + 1 begins.                                    *)
LEMMA Distributed ==
  ASSUME NEW q \in Int, NEW len \in Int
  PROVE  (q + 1) * len = q * len + len
  OBVIOUS

(* A page before one that has lines has lines.                             *)
LEMMA PageBefore ==
  ASSUME NEW w, Window(w), NEW u, Window(u), NEW db, IsCache(db), Lines(w, db) # << >>,
         w.page > 0, u.page = w.page - 1, u.ctx_type = w.ctx_type,
         u.ctx_id = w.ctx_id, u.body_len = w.body_len
  PROVE  Lines(u, db) # << >>
  <1>1. PICK len \in Nat \ {0}, p \in Nat, q \in Nat :
          len = w.body_len /\ p = w.page /\ q = p - 1
    BY WindowFields
  <1>2. PICK far \in Nat, near \in Nat : far = p * len /\ near = q * len
    BY <1>1
  <1>3. near < far /\ (q = 0 <=> near = 0)
    <2>1. p = q + 1
      BY <1>1
    <2>2. far = near + len
      <3>1. (q + 1) * len = q * len + len
        BY Distributed
      <3> QED
        BY <1>2, <2>1, <3>1
    <2>3. q # 0 => near # 0
      BY <1>1, <1>2
    <2> QED
      BY <1>1, <1>2, <2>2, <2>3
  <1>4. w.ctx_id \in Nat
    BY ConstantFacts, WindowFields
  <1>5. CASE w.ctx_type = "feeds"
    <2>1. Lines(w, db) = FeedLines(p, len, db) /\ Lines(u, db) = FeedLines(q, len, db)
      BY <1>1, <1>5 DEF Lines
    <2>2. CASE q = 0
      BY <1>1, <2>1, <2>2, FeedLinesFacts
    <2>3. CASE q # 0
      <3>1. /\ Lines(w, db) = Limit(FeedList(db), far - 1, len)
            /\ Lines(u, db) = Limit(FeedList(db), near - 1, len)
        BY <1>2, <1>3, <2>1, <2>3 DEF FeedLines
      <3>2. PICK s : s = FeedList(db) /\ s \in Seq(Ids) /\ Len(s) \in Nat
        BY FeedListFacts
      <3>3. far - 1 \in Nat /\ near - 1 \in Nat
        BY <1>3, <2>3
      <3>4. far - 1 < Len(s)
        BY <3>1, <3>2, <3>3, LimitNonEmpty
      <3>5. near - 1 < Len(s)
        BY <1>3, <3>2, <3>4
      <3> QED
        BY <3>1, <3>2, <3>3, <3>5, LimitNonEmpty
    <2> QED
      BY <2>2, <2>3
  <1>6. CASE w.ctx_type # "feeds"
    <2>1. PICK s : s = EntryList(w.ctx_id, db)
      OBVIOUS
    <2>2. s \in Seq(Entries) /\ Len(s) \in Nat
      BY <1>4, <2>1, EntryListFacts
    <2>3. Lines(w, db) = Limit(s, far, len) /\ Lines(u, db) = Limit(s, near, len)
      BY <1>1, <1>2, <1>6, <2>1 DEF Lines
    <2>4. far < Len(s)
      BY <2>2, <2>3, LimitNonEmpty
    <2>5. near < Len(s)
      BY <1>3, <2>2, <2>4
    <2> QED
      BY <2>2, <2>3, <2>5, LimitNonEmpty
  <1> QED
    BY <1>5, <1>6

(* The rows that are filled are the first ones.                            *)
LEMMA FilledFacts ==
  ASSUME NEW w, Window(w), NEW db, IsCache(db), Fresh(w, db)
  PROVE  LET n == Len(Lines(w, db))
         IN /\ n \in Nat \ {0} /\ n <= w.body_len
            /\ Filled(w) = 0 .. n - 1
            /\ Max(Filled(w)) = n - 1
            /\ \A i \in 0 .. n - 1 : w.lv[i].id = Lines(w, db)[i + 1]
  <1> DEFINE n == Len(Lines(w, db))
  <1>1. n \in Nat \ {0} /\ n <= w.body_len
    BY LinesFacts, EmptySeq DEF Fresh
  <1>2. w.body_len \in Nat /\ DOMAIN w.lv = 0 .. w.body_len - 1
    BY WindowFields
  <1>3. \A i \in 0 .. w.body_len - 1 :
           IF i < n THEN ~w.lv[i].blank /\ w.lv[i].id = Lines(w, db)[i + 1] ELSE w.lv[i].blank
    BY DEF Fresh, RowsAre
  <1> HIDE DEF n
  <1>4. Filled(w) = 0 .. n - 1
    <2>1. \A i \in 0 .. w.body_len - 1 : ~w.lv[i].blank <=> i < n
      BY <1>3
    <2>2. \A i : i \in 0 .. n - 1 <=> i \in 0 .. w.body_len - 1 /\ i < n
      BY <1>1, <1>2
    <2> QED
      BY <1>2, <2>1, <2>2 DEF Filled
  <1>5. Max(0 .. n - 1) = n - 1
    <2>1. n - 1 \in Nat /\ 0 .. n - 1 \in SUBSET (0 .. n - 1) /\ n - 1 \in 0 .. n - 1
      BY <1>1
    <2>2. Max(0 .. n - 1) \in 0 .. n - 1 /\ n - 1 <= Max(0 .. n - 1)
      BY <2>1, MaxOf
    <2> QED
      BY <2>1, <2>2
  <1>6. \A i \in 0 .. n - 1 : i \in 0 .. w.body_len - 1 /\ i < n
    BY <1>1, <1>2
  <1> QED
    BY <1>1, <1>3, <1>4, <1>5, <1>6 DEF n

(* Windows that show the same list, and are left the same way.             *)
LEMMA BackedSame ==
  ASSUME NEW w, NEW u, NEW db, Backed(w, db),
         u.ctx_type = w.ctx_type, u.ctx_id = w.ctx_id, u.body_len = w.body_len,
         u.backup_cursor_i = w.backup_cursor_i, u.backup_page_num = w.backup_page_num
  PROVE  Backed(u, db)
  BY DEF Backed

(* Rows that were generated from a list are those of that list.            *)
LEMMA SteadyRegenerated ==
  ASSUME NEW w, Window(w), NEW db, IsCache(db), Lines(w, db) # << >>, Backed(w, db),
         w.cursor_i < w.body_len
  PROVE  /\ Window(Regenerated(w, db)) /\ Same(w, Regenerated(w, db))
         /\ Steady(Regenerated(w, db), db) /\ Lines(Regenerated(w, db), db) = Lines(w, db)
  <1>1. PICK u : u = Regenerated(w, db)
    OBVIOUS
  <1>2. Window(u) /\ Same(w, u) /\ RowsAre(u, Lines(w, db))
    BY <1>1, RegeneratedFacts DEF Failed
  <1>3. Lines(u, db) = Lines(w, db)
    BY <1>2, SameLines
  <1>4. Backed(u, db)
    BY <1>2, BackedSame DEF Same
  <1>5. u.cursor_i < u.body_len
    BY <1>2 DEF Same
  <1> QED
    BY <1>1, <1>2, <1>3, <1>4, <1>5 DEF Steady, Fresh

(* update_view counts the lines.                                           *)
LEMMA SteadyShown ==
  ASSUME NEW w, Window(w), NEW db, IsCache(db), Steady(w, db)
  PROVE  /\ Window(Shown(w)) /\ Steady(Shown(w), db) /\ CountOf(Shown(w), db)
         /\ Lines(Shown(w), db) = Lines(w, db)
         /\ Shown(w).cursor_i = w.cursor_i
  <1>1. PICK u : u = Shown(w)
    OBVIOUS
  <1>2. PICK c \in Nat : u = [w EXCEPT !.content_bw_max = c]
    BY <1>1, ShownFacts
  <1>3. /\ u.page = w.page /\ u.ctx_type = w.ctx_type /\ u.ctx_id = w.ctx_id
        /\ u.body_len = w.body_len /\ u.lv = w.lv /\ u.cursor_i = w.cursor_i
        /\ u.backup_cursor_i = w.backup_cursor_i /\ u.backup_page_num = w.backup_page_num
    BY <1>2 DEF Window
  <1>4. Window(u)
    BY <1>1, ShownFacts
  <1>5. Lines(u, db) = Lines(w, db)
    BY <1>3 DEF Lines
  <1>6. Fresh(u, db)
    BY <1>3, <1>5 DEF Steady, Fresh, RowsAre
  <1>7. Backed(u, db)
    BY <1>3, BackedSame DEF Steady
  <1>8. CountOf(u, db)
    <2>1. /\ Filled(w) = 0 .. Len(Lines(w, db)) - 1 /\ Len(Lines(w, db)) \in Nat \ {0}
          /\ Max(Filled(w)) = Len(Lines(w, db)) - 1
      BY FilledFacts DEF Steady
    <2>2. 0 \in Filled(w)
      BY <2>1
    <2>3. u.content_bw_max = Max(Filled(w))
      BY <1>1, <2>2, ShownFacts
    <2> QED
      BY <1>5, <2>1, <2>3 DEF CountOf
  <1>9. u.cursor_i < u.body_len
    BY <1>3 DEF Steady
  <1> QED
    BY <1>1, <1>3, <1>4, <1>5, <1>6, <1>7, <1>8, <1>9 DEF Steady

(* A redraw in a terminal of the same size.                                *)
LEMMA SteadyResized ==
  ASSUME NEW w, Window(w), NEW db, IsCache(db), Steady(w, db), NEW junk \in Ids
  PROVE  /\ Window(Resized(w, w.body_len, junk, db))
         /\ Steady(Resized(w, w.body_len, junk, db), db)
         /\ Lines(Resized(w, w.body_len, junk, db), db) = Lines(w, db)
         /\ Resized(w, w.body_len, junk, db).cursor_i = w.cursor_i
  <1>1. PICK v : /\ Window(v) /\ Resized(w, w.body_len, junk, db) = Regenerated(v, db)
                 /\ Same(w, v)
    <2>1. PICK h \in Heights : h = w.body_len
      BY WindowFields
    <2>2. PICK v : /\ Window(v) /\ Resized(w, h, junk, db) = Regenerated(v, db)
                   /\ h = w.body_len => Same(w, v)
      BY ResizedIs
    <2> QED
      BY <2>1, <2>2
  <1>2. Lines(v, db) = Lines(w, db) /\ Lines(v, db) # << >>
    BY <1>1, SameLines DEF Steady, Fresh
  <1>3. Backed(v, db) /\ v.cursor_i < v.body_len /\ v.cursor_i = w.cursor_i
    BY <1>1, BackedSame DEF Steady, Same
  <1>4. PICK u : u = Regenerated(v, db)
    OBVIOUS
  <1>5. Window(u) /\ Same(v, u) /\ Steady(u, db) /\ Lines(u, db) = Lines(v, db)
    BY <1>1, <1>2, <1>3, <1>4, SteadyRegenerated
  <1> QED
    BY <1>1, <1>2, <1>3, <1>4, <1>5 DEF Same

(* What a handler leaves, after update_view.                               *)
LEMMA SteadyUpdate ==
  ASSUME Settled, State(entry, newsize, height),
         NEW w, Window(w), NEW db, IsCache(db), Steady(w, db), Update(w, db)
  PROVE  /\ SteadyInv' /\ Window(mw')
         /\ Lines(mw', entry') = Lines(w, db) /\ mw'.cursor_i = w.cursor_i
  <1>1. height = w.body_len
    BY WindowFields DEF Settled, State
  <1>2. entry' = db
    BY DEF Update
  <1>3. PICK m : m = mw'
    OBVIOUS
  <1>4. PICK u : Window(u) /\ Steady(u, db) /\ Lines(u, db) = Lines(w, db)
                 /\ u.cursor_i = w.cursor_i /\ m = Shown(u)
    <2>1. CASE mw' = Shown(w)
      BY <1>3, <2>1
    <2>2. CASE \E junk \in Ids : mw' = Shown(Resized(w, height, junk, db))
      <3>1. PICK junk \in Ids : mw' = Shown(Resized(w, height, junk, db))
        BY <2>2
      <3>2. PICK u : u = Resized(w, w.body_len, junk, db)
        OBVIOUS
      <3>3. m = Shown(u)
        BY <1>1, <1>3, <3>1, <3>2
      <3>4. Window(u) /\ Steady(u, db) /\ Lines(u, db) = Lines(w, db) /\ u.cursor_i = w.cursor_i
        BY <3>2, SteadyResized
      <3> QED
        BY <3>3, <3>4
    <2> QED
      BY <2>1, <2>2 DEF Update
  <1>5. /\ Window(m) /\ Steady(m, db) /\ CountOf(m, db)
        /\ Lines(m, db) = Lines(w, db) /\ m.cursor_i = w.cursor_i
    BY <1>4, SteadyShown
  <1> QED
    BY <1>2, <1>3, <1>5 DEF SteadyInv

-----------------------------------------------------------------------------

(* The keys, one by one.                                                   *)
LEMMA ToItemSteady ==
  ASSUME WindowInv, SteadyInv, NEW i \in Nat, i < mw.body_len, ToItem(i)
  PROVE  SteadyInv'
  <1>1. PICK m, w : m = mw /\ w = [mw EXCEPT !.cursor_i = i]
    OBVIOUS
  <1>2. Window(m)
    BY <1>1 DEF WindowInv
  <1>3. w = [m EXCEPT !.cursor_i = i]
    BY <1>1
  <1>4. /\ w.page = m.page /\ w.ctx_type = m.ctx_type /\ w.ctx_id = m.ctx_id
        /\ w.body_len = m.body_len /\ w.lv = m.lv /\ w.cursor_i = i
        /\ w.content_bw_max = m.content_bw_max
        /\ w.backup_cursor_i = m.backup_cursor_i /\ w.backup_page_num = m.backup_page_num
    BY <1>2, <1>3 DEF Window
  <1>5. Fresh(m, entry) /\ Backed(m, entry) /\ CountOf(m, entry)
    BY <1>1 DEF SteadyInv, Steady
  <1>6. Lines(w, entry) = Lines(m, entry)
    BY <1>4 DEF Lines
  <1>7. Fresh(w, entry)
    BY <1>4, <1>5, <1>6 DEF Fresh, RowsAre
  <1>8. Backed(w, entry)
    BY <1>4, <1>5, BackedSame
  <1>9. CountOf(w, entry) /\ w.cursor_i < w.body_len
    BY <1>1, <1>4, <1>5, <1>6 DEF CountOf
  <1>10. mw' = w /\ entry' = entry
    BY <1>1 DEF ToItem, Ok
  <1> QED
    BY <1>7, <1>8, <1>9, <1>10 DEF SteadyInv, Steady

(* The cursor and the last row are rows of the window.                     *)
LEMMA CountFacts ==
  ASSUME WindowInv, SteadyInv
  PROVE  /\ mw.content_bw_max \in Nat /\ mw.content_bw_max < mw.body_len
         /\ mw.cursor_i \in 0 .. mw.body_len - 1 /\ mw.body_len \in Nat \ {0}
  <1>1. PICK m : m = mw
    OBVIOUS
  <1>2. /\ Window(m) /\ Fresh(m, entry) /\ CountOf(m, entry) /\ m.cursor_i < m.body_len
        /\ IsCache(entry)
    BY <1>1 DEF WindowInv, State, SteadyInv, Steady
  <1>3. Len(Lines(m, entry)) \in Nat /\ Len(Lines(m, entry)) <= m.body_len
    BY <1>2, FilledFacts
  <1>4. m.body_len \in Nat \ {0} /\ m.cursor_i \in Nat /\ m.content_bw_max \in Nat
    BY <1>2, WindowFields
  <1> QED
    BY <1>1, <1>2, <1>3, <1>4 DEF CountOf

(* A page turned to, which has lines.                                      *)
LEMMA TurnSteady ==
  ASSUME Settled, WindowInv, SteadyInv, NEW i \in Nat, i < mw.body_len, NEW p \in Nat,
         Lines([mw EXCEPT !.cursor_i = i, !.page = p], entry) # << >>,
         Update(Regenerated([mw EXCEPT !.cursor_i = i, !.page = p], entry), entry)
  PROVE  SteadyInv'
  <1>1. PICK m, w : m = mw /\ w = [mw EXCEPT !.cursor_i = i, !.page = p]
    OBVIOUS
  <1>2. Window(m) /\ Backed(m, entry) /\ State(entry, newsize, height) /\ IsCache(entry)
    BY <1>1 DEF WindowInv, State, SteadyInv, Steady
  <1>3. w = [m EXCEPT !.cursor_i = i, !.page = p]
    BY <1>1
  <1>4. /\ w.ctx_type = m.ctx_type /\ w.ctx_id = m.ctx_id /\ w.body_len = m.body_len
        /\ w.cursor_i = i
        /\ w.backup_cursor_i = m.backup_cursor_i /\ w.backup_page_num = m.backup_page_num
    BY <1>2, <1>3 DEF Window
  <1>5. Window(w)
    BY <1>2, <1>3 DEF Window
  <1>6. Backed(w, entry)
    BY <1>2, <1>4, BackedSame
  <1>7. PICK u : u = Regenerated(w, entry)
    OBVIOUS
  <1>8. Lines(w, entry) # << >> /\ w.cursor_i < w.body_len
    BY <1>1, <1>4
  <1>9. Window(u) /\ Steady(u, entry)
    BY <1>2, <1>5, <1>6, <1>7, <1>8, SteadyRegenerated
  <1>10. Update(u, entry)
    BY <1>1, <1>7
  <1> QED
    BY <1>2, <1>9, <1>10, SteadyUpdate

(* Going down keeps the rows those of the list.                            *)
LEMMA NextItemSteady ==
  ASSUME Settled, WindowInv, SteadyInv, NextItem
  PROVE  SteadyInv'
  <1>1. /\ mw.content_bw_max \in Nat /\ mw.content_bw_max < mw.body_len
        /\ mw.cursor_i \in 0 .. mw.body_len - 1 /\ mw.body_len \in Nat \ {0}
    BY CountFacts
  <1>2. mw.page + 1 \in Nat
    BY WindowFields DEF WindowInv
  <1>3. CASE mw.cursor_i < mw.content_bw_max /\ ToItem(mw.cursor_i + 1)
    <2>1. mw.cursor_i + 1 \in Nat /\ mw.cursor_i + 1 < mw.body_len
      BY <1>1, <1>3
    <2> QED
      BY <1>3, <2>1, ToItemSteady
  <1>4. CASE LET w == [mw EXCEPT !.cursor_i = 0, !.page = @ + 1]
             IN IF Failed(w, entry) THEN ToItem(mw.content_bw_max)
                ELSE Update(Regenerated(w, entry), entry)
    <2>1. CASE ToItem(mw.content_bw_max)
      BY <1>1, <2>1, ToItemSteady
    <2>2. CASE /\ ~Failed([mw EXCEPT !.cursor_i = 0, !.page = mw.page + 1], entry)
               /\ Update(Regenerated([mw EXCEPT !.cursor_i = 0, !.page = mw.page + 1], entry),
                         entry)
      <3>1. PICK i \in Nat : i = 0 /\ i < mw.body_len
        BY <1>1
      <3> QED
        BY <1>2, <2>2, <3>1, TurnSteady DEF Failed
    <2> QED
      BY <1>4, <2>1, <2>2
  <1> QED
    BY <1>3, <1>4 DEF NextItem

(* So does going up.                                                       *)
LEMMA PrevItemSteady ==
  ASSUME Settled, WindowInv, SteadyInv, PrevItem
  PROVE  SteadyInv'
  <1>1. mw.cursor_i \in 0 .. mw.body_len - 1 /\ mw.body_len \in Nat \ {0}
    BY CountFacts
  <1>2. CASE mw.cursor_i > 0 /\ ToItem(mw.cursor_i - 1)
    <2>1. mw.cursor_i - 1 \in Nat /\ mw.cursor_i - 1 < mw.body_len
      BY <1>1, <1>2
    <2> QED
      BY <1>2, <2>1, ToItemSteady
  <1>3. CASE /\ mw.page > 0
             /\ Update(Regenerated([mw EXCEPT !.cursor_i = mw.body_len - 1, !.page = mw.page - 1],
                                   entry), entry)
    <2>1. PICK i, p : i = mw.body_len - 1 /\ p = mw.page - 1
      OBVIOUS
    <2>2. i \in Nat /\ i < mw.body_len /\ p \in Nat /\ mw.page \in Nat
      BY <1>1, <1>3, <2>1, WindowFields DEF WindowInv
    <2>3. PICK m, w : m = mw /\ w = [m EXCEPT !.cursor_i = i, !.page = p]
      OBVIOUS
    <2>4. Window(m) /\ Lines(m, entry) # << >> /\ IsCache(entry)
      BY <2>3 DEF WindowInv, State, SteadyInv, Steady, Fresh
    <2>5. Window(w) /\ w.page = p /\ w.ctx_type = m.ctx_type /\ w.ctx_id = m.ctx_id
          /\ w.body_len = m.body_len
      BY <2>2, <2>3, <2>4 DEF Window
    <2>6. m.page > 0 /\ w.page = m.page - 1
      BY <1>3, <2>1, <2>3, <2>5
    <2>7. Lines(w, entry) # << >>
      BY <2>4, <2>5, <2>6, PageBefore
    <2>8. /\ Lines([mw EXCEPT !.cursor_i = i, !.page = p], entry) # << >>
          /\ Update(Regenerated([mw EXCEPT !.cursor_i = i, !.page = p], entry), entry)
      BY <1>3, <2>1, <2>3, <2>7
    <2> QED
      BY <2>2, <2>8, TurnSteady
  <1> QED
    BY <1>2, <1>3 DEF PrevItem

(* A feed is entered, with the way back to it, or the list stays.          *)
LEMMA SelectFeedSteady ==
  ASSUME Settled, WindowInv, SteadyInv, SelectFeed
  PROVE  SteadyInv'
  <1>1. PICK m : m = mw
    OBVIOUS
  <1>2. /\ Window(m) /\ Fresh(m, entry) /\ CountOf(m, entry) /\ m.cursor_i < m.body_len
        /\ State(entry, newsize, height) /\ IsCache(entry) /\ m.ctx_type = "feeds"
    BY <1>1 DEF WindowInv, State, SteadyInv, Steady, SelectFeed
  <1>3. m.cursor_i \in 0 .. m.body_len - 1 /\ m.page \in Nat /\ m.body_len \in Nat \ {0}
    BY <1>2, WindowFields
  <1>4. PICK id : /\ id = m.lv[m.cursor_i].id
                  /\ LET w == [m EXCEPT !.ctx_type = "entries", !.ctx_id = id,
                                        !.backup_page_num = m.page, !.page = 0]
                     IN IF Failed(w, entry) THEN Ok(ViewToFeeds(w, entry), entry)
                        ELSE Update([Regenerated(w, entry) EXCEPT !.backup_cursor_i = m.cursor_i,
                                                                  !.cursor_i = 0], entry)
    BY <1>1, <1>2 DEF SelectFeed, AtCursor
  <1>5. PICK w : w = [m EXCEPT !.ctx_type = "entries", !.ctx_id = id,
                               !.backup_page_num = m.page, !.page = 0]
    OBVIOUS
  <1>6. id \in Ids
    BY <1>2, <1>3, <1>4, WindowFields
  <1>7. Window(w)
    BY <1>2, <1>3, <1>5, <1>6 DEF Window
  <1>8. /\ w.ctx_type = "entries" /\ w.ctx_id = id /\ w.body_len = m.body_len
        /\ w.cursor_i = m.cursor_i /\ w.content_bw_max = m.content_bw_max
        /\ w.backup_page_num = m.page
    BY <1>2, <1>5 DEF Window
  <1>9. Lines(m, entry) = FeedLines(m.page, m.body_len, entry)
    BY <1>2 DEF Lines
  <1>10. CASE Failed(w, entry)
    <2>1. PICK u : u = ViewToFeeds(w, entry)
      OBVIOUS
    <2>2. Window(u) /\ RowsAre(u, Lines(m, entry)) /\ u.ctx_type = "feeds"
      <3>1. FeedLines(w.backup_page_num, w.body_len, entry) # << >>
        BY <1>2, <1>8, <1>9 DEF Fresh
      <3> QED
        BY <1>2, <1>7, <1>8, <1>9, <2>1, <3>1, ViewToFeedsFacts
    <2>3. /\ u.page = m.page /\ u.body_len = m.body_len /\ u.cursor_i = m.cursor_i
          /\ u.content_bw_max = m.content_bw_max
      <3>1. PICK v : v = [w EXCEPT !.page = w.backup_page_num, !.ctx_type = "feeds", !.ctx_id = 0]
        OBVIOUS
      <3>2. Same(v, u)
        BY <1>2, <1>7, <2>1, <3>1, ViewToFeedsFacts
      <3>3. /\ v.page = w.backup_page_num /\ v.body_len = w.body_len
            /\ v.cursor_i = w.cursor_i /\ v.content_bw_max = w.content_bw_max
        BY <1>7, <3>1 DEF Window
      <3> QED
        BY <1>8, <3>2, <3>3 DEF Same
    <2>4. Lines(u, entry) = Lines(m, entry)
      BY <1>9, <2>2, <2>3 DEF Lines
    <2>5. Fresh(u, entry) /\ Backed(u, entry) /\ CountOf(u, entry) /\ u.cursor_i < u.body_len
      BY <1>2, <2>2, <2>3, <2>4 DEF Fresh, Backed, CountOf
    <2>6. mw' = u /\ entry' = entry
      BY <1>4, <1>5, <1>10, <2>1 DEF Ok
    <2> QED
      BY <2>5, <2>6 DEF SteadyInv, Steady
  <1>11. CASE ~Failed(w, entry)
    <2>1. PICK r : r = Regenerated(w, entry)
      OBVIOUS
    <2>2. Window(r) /\ Same(w, r) /\ RowsAre(r, Lines(w, entry))
      BY <1>2, <1>7, <1>11, <2>1, RegeneratedFacts
    <2>3. PICK i : i = m.cursor_i /\ i \in Nat
      BY <1>3
    <2>4. PICK u : u = [r EXCEPT !.backup_cursor_i = i, !.cursor_i = 0]
      OBVIOUS
    <2>5. /\ Window(u) /\ u.lv = r.lv /\ u.page = r.page /\ u.ctx_type = r.ctx_type
          /\ u.ctx_id = r.ctx_id /\ u.body_len = r.body_len /\ u.cursor_i = 0
          /\ u.backup_cursor_i = i /\ u.backup_page_num = r.backup_page_num
      BY <2>2, <2>3, <2>4 DEF Window
    <2>6. Lines(u, entry) = Lines(w, entry)
      BY <2>2, <2>5 DEF Lines, Same
    <2>7. Fresh(u, entry)
      BY <1>11, <2>2, <2>5, <2>6 DEF Fresh, RowsAre, Failed
    <2>8. Backed(u, entry)
      <3>1. FeedLines(u.backup_page_num, u.body_len, entry) = Lines(m, entry)
        BY <1>8, <1>9, <2>2, <2>5 DEF Same
      <3>2. i < Len(Lines(m, entry)) => Lines(m, entry)[i + 1] = id
        BY <1>2, <1>3, <1>4, <2>3 DEF Fresh, RowsAre
      <3>3. u.ctx_id = id /\ u.body_len = m.body_len
        BY <1>8, <2>2, <2>5 DEF Same
      <3> QED
        BY <1>2, <2>3, <2>5, <3>1, <3>2, <3>3 DEF Backed, Fresh
    <2>9. u.cursor_i < u.body_len
      BY <1>3, <1>8, <2>2, <2>5 DEF Same
    <2>10. Update(u, entry)
      BY <1>4, <1>5, <1>11, <2>1, <2>3, <2>4
    <2> QED
      BY <1>2, <2>5, <2>7, <2>8, <2>9, <2>10, SteadyUpdate DEF Steady
  <1> QED
    BY <1>10, <1>11

(* With all feeds shown, marks change no list of feeds.                    *)
LEMMA FeedsKept ==
  ASSUME Settled, NEW db, Remarked(db)
  PROVE  \A page, len : FeedLines(page, len, db) = FeedLines(page, len, entry)
  <1>1. {db[e].FeedID : e \in DOMAIN db} = {entry[e].FeedID : e \in DOMAIN entry}
    BY DEF Remarked
  <1>2. FeedList(db) = FeedList(entry)
    BY <1>1 DEF Settled, FeedList
  <1> QED
    BY <1>2 DEF FeedLines

(* Nor the place to which leaving a feed returns.                          *)
LEMMA BackedKept ==
  ASSUME Settled, NEW db, Remarked(db), NEW w, Backed(w, entry)
  PROVE  Backed(w, db)
  BY FeedsKept DEF Backed

(* Nor, with the articles that are read shown, the list of a feed's.       *)
LEMMA EntriesKept ==
  ASSUME ShowReadEntries, NEW db, Remarked(db), NEW f \in Nat \ {0}
  PROVE  EntryList(f, db) = EntryList(f, entry)
  <1> DEFINE S == {e \in DOMAIN entry : entry[e].FeedID = f}
             At(d, i) == CHOOSE x \in S : Cardinality({y \in S : Newer(d, y, x)}) = i - 1
             n == Cardinality(S)
  <1>1. {e \in DOMAIN db : db[e].FeedID = f} = S
    BY DEF Remarked
  <1>2. EntryList(f, db) = NewestFirst(S, db) /\ EntryList(f, entry) = NewestFirst(S, entry)
    BY <1>1, f > 0 DEF EntryList
  <1>3. \A x, y \in S : Newer(db, x, y) <=> Newer(entry, x, y)
    BY DEF Remarked, Newer
  <1> HIDE DEF S
  <1>4. \A x \in S : {y \in S : Newer(db, y, x)} = {y \in S : Newer(entry, y, x)}
    BY <1>3
  <1>5. \A i \in 1 .. n : At(db, i) = At(entry, i)
    BY <1>4
  <1>6. /\ NewestFirst(S, db) = [i \in 1 .. n |-> At(db, i)]
        /\ NewestFirst(S, entry) = [i \in 1 .. n |-> At(entry, i)]
    BY DEF NewestFirst
  <1> HIDE DEF At, n
  <1> QED
    BY <1>2, <1>5, <1>6

(* The list again, or that of the feeds when nothing remains of it.        *)
LEMMA SteadyUpdated ==
  ASSUME Settled, IsCache(entry), NEW db, Remarked(db), NEW w, Window(w), Steady(w, entry)
  PROVE  /\ Window(UpdatedOrFeeds(w, db)) /\ Steady(UpdatedOrFeeds(w, db), db)
         /\ w.ctx_type = "feeds" =>
              Window(Regenerated(w, db)) /\ Steady(Regenerated(w, db), db)
  <1>1. w.ctx_type \in {"feeds", "entries"} /\ w.cursor_i < w.body_len /\ IsCache(db)
    BY WindowFields DEF Steady, Remarked
  <1>2. Backed(w, db)
    BY BackedKept DEF Steady
  <1>3. CASE ~Failed(w, db)
    BY <1>1, <1>2, <1>3, SteadyRegenerated DEF UpdatedOrFeeds, Failed
  <1>4. CASE Failed(w, db)
    <2>1. w.ctx_type = "entries"
      <3>1. SUFFICES ASSUME w.ctx_type = "feeds"
                     PROVE  FALSE
        BY <1>1
      <3>2. Lines(w, db) = Lines(w, entry)
        BY <3>1, FeedsKept DEF Lines
      <3> QED
        BY <1>4, <3>2 DEF Failed, Steady, Fresh
    <2>2. FeedLines(w.backup_page_num, w.body_len, db) # << >>
      BY <1>2, <2>1 DEF Backed
    <2>3. PICK u : u = ViewToFeeds(w, db)
      OBVIOUS
    <2>4. /\ Window(u) /\ u.ctx_type = "feeds"
          /\ RowsAre(u, FeedLines(w.backup_page_num, w.body_len, db))
      BY <1>1, <2>2, <2>3, ViewToFeedsFacts
    <2>5. /\ u.page = w.backup_page_num /\ u.body_len = w.body_len /\ u.cursor_i = w.cursor_i
      <3>1. PICK v : v = [w EXCEPT !.page = w.backup_page_num, !.ctx_type = "feeds", !.ctx_id = 0]
        OBVIOUS
      <3>2. Same(v, u)
        BY <1>1, <2>3, <3>1, ViewToFeedsFacts
      <3>3. v.page = w.backup_page_num /\ v.body_len = w.body_len /\ v.cursor_i = w.cursor_i
        BY <3>1 DEF Window
      <3> QED
        BY <3>2, <3>3 DEF Same
    <2>6. Lines(u, db) = FeedLines(w.backup_page_num, w.body_len, db)
      BY <2>4, <2>5 DEF Lines
    <2>7. Steady(u, db)
      BY <1>1, <2>2, <2>4, <2>5, <2>6 DEF Steady, Fresh, Backed
    <2> QED
      BY <1>4, <2>1, <2>3, <2>4, <2>7 DEF UpdatedOrFeeds
  <1> QED
    BY <1>3, <1>4

(* The keys that mark articles end with the list, or the feeds.            *)
LEMMA MarkingSteady ==
  ASSUME Settled, WindowInv, SteadyInv, DownloadItem \/ CatchupFeed \/ CatchupAll \/ ToggleRead
  PROVE  SteadyInv'
  <1>1. PICK db : Remarked(db) /\ MarkingEnd(db)
    BY MarkingEnds
  <1>2. PICK m, u, r : m = mw /\ u = UpdatedOrFeeds(m, db) /\ r = Regenerated(m, db)
    OBVIOUS
  <1>3. /\ Window(m) /\ Steady(m, entry) /\ CountOf(m, entry) /\ State(entry, newsize, height)
        /\ IsCache(entry) /\ IsCache(db)
    BY <1>1, <1>2 DEF WindowInv, SteadyInv, State, Remarked
  <1>4. /\ Window(u) /\ Steady(u, db)
        /\ m.ctx_type = "feeds" => Window(r) /\ Steady(r, db)
    BY <1>1, <1>2, <1>3, SteadyUpdated
  <1>5. CASE Update(u, db)
    BY <1>3, <1>4, <1>5, SteadyUpdate
  <1>6. CASE m.ctx_type = "feeds" /\ Update(r, db)
    BY <1>3, <1>4, <1>6, SteadyUpdate
  <1>7. CASE db = entry /\ Update(m, db)
    BY <1>3, <1>7, SteadyUpdate
  <1>8. CASE /\ m.ctx_type = "entries" /\ m.ctx_id # 0 /\ ShowReadEntries
             /\ ~Failed(m, db) /\ Ok(r, db)
    <2>1. m.ctx_id \in Nat \ {0}
      BY <1>3, <1>8, WindowFields, ConstantFacts
    <2>2. EntryList(m.ctx_id, db) = EntryList(m.ctx_id, entry)
      BY <1>1, <1>8, <2>1, EntriesKept
    <2>3. Lines(m, db) = Lines(m, entry)
      BY <1>8, <2>2 DEF Lines
    <2>4. Backed(m, db)
      BY <1>1, <1>3, BackedKept DEF Steady
    <2>5. Same(m, r) /\ Steady(r, db) /\ Lines(r, db) = Lines(m, db)
      BY <1>2, <1>3, <1>8, <2>4, SteadyRegenerated DEF Steady, Failed
    <2>6. CountOf(r, db)
      BY <1>3, <2>3, <2>5 DEF CountOf, Same
    <2> QED
      BY <1>8, <2>5, <2>6 DEF Ok, SteadyInv
  <1> QED
    BY <1>1, <1>2, <1>5, <1>6, <1>7, <1>8 DEF MarkingEnd

(* Out of the articles: the cursor is on their feed, or past the rows.     *)
LEMMA ContextExitSteady ==
  ASSUME Settled, WindowInv, SteadyInv, ContextExit
  PROVE  /\ SteadyInv'
         /\ mw'.cursor_i \in Filled(mw') => mw'.lv[mw'.cursor_i].id = mw.ctx_id
  <1>1. PICK m, w : m = mw /\ w = [m EXCEPT !.cursor_i = m.backup_cursor_i, !.ctx_type = "feeds",
                                            !.ctx_id = 0, !.page = m.backup_page_num]
    OBVIOUS
  <1>2. /\ Window(m) /\ Backed(m, entry) /\ State(entry, newsize, height) /\ IsCache(entry)
        /\ m.ctx_type = "entries"
    BY <1>1 DEF WindowInv, State, SteadyInv, Steady, ContextExit
  <1>3. PICK c, p : c = m.backup_cursor_i /\ p = m.backup_page_num /\ c \in Nat /\ p \in Nat
    BY <1>2, WindowFields
  <1>4. w = [m EXCEPT !.cursor_i = c, !.ctx_type = "feeds", !.ctx_id = 0, !.page = p]
    BY <1>1, <1>3
  <1>5. Window(w) /\ w.ctx_type = "feeds" /\ w.page = p /\ w.cursor_i = c
        /\ w.body_len = m.body_len
    BY <1>2, <1>3, <1>4, ConstantFacts DEF Window
  <1>6. Lines(w, entry) = FeedLines(p, m.body_len, entry)
    BY <1>5 DEF Lines
  <1>7. /\ Lines(w, entry) # << >> /\ c < m.body_len
        /\ c < Len(Lines(w, entry)) => Lines(w, entry)[c + 1] = m.ctx_id
    BY <1>2, <1>3, <1>6 DEF Backed
  <1>8. PICK u : u = Regenerated(w, entry)
    OBVIOUS
  <1>9. Window(u) /\ Steady(u, entry) /\ Lines(u, entry) = Lines(w, entry) /\ u.cursor_i = c
    <2>1. Backed(w, entry)
      BY <1>5 DEF Backed
    <2> QED
      BY <1>2, <1>5, <1>7, <1>8, <2>1, SteadyRegenerated DEF Same
  <1>10. Update(u, entry)
    BY <1>1, <1>8 DEF ContextExit
  <1>11. SteadyInv' /\ Window(mw') /\ Lines(mw', entry') = Lines(w, entry) /\ mw'.cursor_i = c
    BY <1>2, <1>9, <1>10, SteadyUpdate
  <1>12. PICK m1, db1 : m1 = mw' /\ db1 = entry'
    OBVIOUS
  <1>13. /\ Window(m1) /\ Fresh(m1, db1) /\ Lines(m1, db1) = Lines(w, entry)
         /\ IsCache(db1)
    BY <1>2, <1>10, <1>11, <1>12 DEF Update, SteadyInv, Steady
  <1>14. c \in Filled(m1) => m1.lv[c].id = m.ctx_id
    <2>1. /\ Len(Lines(w, entry)) \in Nat
          /\ Filled(m1) = 0 .. Len(Lines(w, entry)) - 1
          /\ \A i \in 0 .. Len(Lines(w, entry)) - 1 : m1.lv[i].id = Lines(w, entry)[i + 1]
      BY <1>13, FilledFacts
    <2> QED
      BY <1>3, <1>7, <2>1
  <1> QED
    BY <1>1, <1>11, <1>12, <1>14

(* So does redrawing the screen.                                           *)
LEMMA RedrawScreenSteady ==
  ASSUME Settled, WindowInv, SteadyInv, RedrawScreen
  PROVE  SteadyInv'
  <1>1. PICK m, m1 : m = mw /\ m1 = mw'
    OBVIOUS
  <1>2. Window(m) /\ Steady(m, entry) /\ height = m.body_len /\ IsCache(entry)
    BY <1>1, WindowFields DEF WindowInv, SteadyInv, Settled, State
  <1>3. PICK junk \in Ids : m1 = Shown(Resized(m, m.body_len, junk, entry))
    BY <1>1, <1>2 DEF RedrawScreen
  <1>4. PICK u : u = Resized(m, m.body_len, junk, entry)
    OBVIOUS
  <1>5. Window(u) /\ Steady(u, entry)
    BY <1>2, <1>4, SteadyResized
  <1>6. Steady(m1, entry) /\ CountOf(m1, entry)
    BY <1>2, <1>3, <1>4, <1>5, SteadyShown
  <1> QED
    BY <1>1, <1>6 DEF RedrawScreen, SteadyInv

(* So does every step.                                                     *)
LEMMA NextSteady ==
  ASSUME Settled, WindowInv, SteadyInv, [Next]_vars
  PROVE  SteadyInv'
  <1>1. CASE LowItem \/ MidItem \/ HighItem
    <2>1. mw.content_bw_max \in Nat /\ mw.content_bw_max < mw.body_len /\ mw.body_len \in Nat \ {0}
      BY CountFacts
    <2>2. mw.content_bw_max \div 2 \in Nat /\ mw.content_bw_max \div 2 < mw.body_len
      BY <2>1
    <2>3. 0 \in Nat /\ 0 < mw.body_len
      BY <2>1
    <2> QED
      BY <1>1, <2>1, <2>2, <2>3, ToItemSteady DEF LowItem, MidItem, HighItem
  <1>2. CASE Key
    BY <1>1, <1>2, NextItemSteady, PrevItemSteady, SelectFeedSteady, MarkingSteady,
       ContextExitSteady DEF Key
  <1>3. CASE CycleDone \/ Import
    BY <1>3 DEF CycleDone, Import, Settled
  <1>4. CASE CatchResize \/ UNCHANGED vars
    BY <1>4 DEF CatchResize, vars, SteadyInv
  <1> QED
    BY <1>2, <1>3, <1>4, RedrawScreenSteady DEF Next

(* And they are at first.                                                  *)
LEMMA InitSteady == Settled /\ Init => SteadyInv
  <1>1. SUFFICES ASSUME Settled, Init
                 PROVE  SteadyInv
    OBVIOUS
  <1>2. PICK w : /\ Window(w) /\ w.ctx_type = "feeds" /\ w.page = 0 /\ w.cursor_i = 0
                 /\ mw = Shown(Regenerated(w, entry))
    BY <1>1, FirstWindow
  <1>7. IsCache(entry)
    BY <1>1, WindowAssumption DEF Init
  <1>3. Lines(w, entry) # << >>
    BY <1>2, <1>7, FeedLinesFacts, WindowFields DEF Lines
  <1>4. Backed(w, entry) /\ w.cursor_i < w.body_len
    BY <1>2, WindowFields DEF Backed
  <1>5. PICK u : u = Regenerated(w, entry)
    OBVIOUS
  <1>6. Window(u) /\ Steady(u, entry)
    BY <1>2, <1>3, <1>4, <1>5, <1>7, SteadyRegenerated
  <1> QED
    BY <1>2, <1>5, <1>6, <1>7, SteadyShown DEF SteadyInv

(* Settled is about constants.                                             *)
LEMMA SettledStays == Settled => Settled'
  BY DEF Settled

(* The inductive invariant between reloads, in a terminal of one size.     *)
THEOREM SteadyInvariant == Settled => (Spec => [](WindowInv /\ SteadyInv))
  <1>1. Settled => []Settled
    BY SettledStays, PTL
  <1>2. Settled /\ Init => WindowInv /\ SteadyInv
    BY InitWindowInv, InitSteady
  <1>3. Settled /\ WindowInv /\ SteadyInv /\ [Next]_vars => (WindowInv /\ SteadyInv)'
    BY NextWindowInv, NextSteady
  <1> QED
    BY <1>1, <1>2, <1>3, PTL DEF Spec

(* The row that low_item and next_item take for the last is the last one   *)
(* with something on it, also after the keys that do not draw the list.    *)
THEOREM LastRowRight == Settled => (Spec => []RowsCounted)
  <1>1. ASSUME WindowInv, SteadyInv
        PROVE  RowsCounted
    <2>1. PICK m : m = mw
      OBVIOUS
    <2>2. Window(m) /\ Fresh(m, entry) /\ CountOf(m, entry) /\ IsCache(entry)
      BY <1>1, <2>1 DEF WindowInv, State, SteadyInv, Steady
    <2>3. /\ Len(Lines(m, entry)) \in Nat \ {0}
          /\ Filled(m) = 0 .. Len(Lines(m, entry)) - 1
          /\ Max(Filled(m)) = Len(Lines(m, entry)) - 1
      BY <2>2, FilledFacts
    <2>4. 0 \in Filled(m)
      BY <2>3
    <2> QED
      BY <2>1, <2>2, <2>3, <2>4 DEF RowsCounted, CountOf
  <1> QED
    BY <1>1, SteadyInvariant, PTL

(* The rows on the screen are those of the list, after any keys: toggling, *)
(* catching up, turning pages, going in and out of feeds.                  *)
THEOREM NoRowStale == Settled => (Spec => []RowsFresh)
  <1>1. WindowInv /\ SteadyInv => RowsFresh
    BY WindowFields DEF WindowInv, SteadyInv, Steady, Fresh, RowsAre, RowsFresh
  <1> QED
    BY <1>1, SteadyInvariant, PTL

(* Leaving the articles of a feed finds the cursor on that feed again.     *)
THEOREM ExitFindsFeed == Settled => (Spec => ExitReturns)
  <1>1. Settled => []Settled
    BY SettledStays, PTL
  <1>2. Settled /\ WindowInv /\ SteadyInv
          => [ContextExit /\ mw'.cursor_i \in Filled(mw')
                 => mw'.lv[mw'.cursor_i].id = mw.ctx_id]_vars
    BY ContextExitSteady
  <1> QED
    BY <1>1, <1>2, SteadyInvariant, PTL DEF Spec, ExitReturns
-----------------------------------------------------------------------------

(* The rows of the first page are those of its list until an import        *)
(* changes the cache: of the feeds there is always the row Unread          *)
(* Articles, and a list of articles is left for the feeds when nothing     *)
(* remains of it.  So a first page that is generated anew has lines, also  *)
(* after a later page that had lost its own.                               *)
Stocked(w, db) == w.ctx_type = "entries" => EntryList(w.ctx_id, db) # << >>
First(w, db) == (w.page = 0 => Fresh(w, db)) /\ Stocked(w, db)
FirstInv == WindowInv /\ First(mw, entry)

(* The list of an article window has lines from its first one on, and a    *)
(* page of it that has lines is a page of a list that has some.            *)
LEMMA StockedLines ==
  ASSUME NEW w, Window(w), NEW db, IsCache(db)
  PROVE  /\ Stocked(w, db) /\ w.page = 0 => Lines(w, db) # << >>
         /\ Lines(w, db) # << >> => Stocked(w, db)
  <1>1. PICK len \in Nat \ {0}, p \in Nat : len = w.body_len /\ p = w.page
    BY WindowFields
  <1>2. PICK far \in Nat : far = p * len /\ (p = 0 => far = 0)
    BY <1>1
  <1>3. CASE w.ctx_type = "feeds"
    <2>1. Lines(w, db) = FeedLines(p, len, db)
      BY <1>1, <1>3 DEF Lines
    <2> QED
      BY <1>1, <1>3, <2>1, FeedLinesFacts DEF Stocked
  <1>4. CASE w.ctx_type = "entries"
    <2>1. PICK s : s = EntryList(w.ctx_id, db)
      OBVIOUS
    <2>2. s \in Seq(Entries) /\ Len(s) \in Nat
      <3>1. w.ctx_id \in Nat
        BY ConstantFacts, WindowFields
      <3> QED
        BY <2>1, <3>1, EntryListFacts
    <2>3. Lines(w, db) = Limit(s, far, len)
      BY <1>1, <1>2, <1>4, <2>1 DEF Lines
    <2>4. Lines(w, db) # << >> <=> far < Len(s)
      BY <2>2, <2>3, LimitNonEmpty
    <2>5. s # << >> <=> 0 < Len(s)
      BY <2>2, EmptySeq
    <2>6. Stocked(w, db) <=> 0 < Len(s)
      BY <1>4, <2>1, <2>5 DEF Stocked
    <2>7. far < Len(s) => 0 < Len(s)
      BY <2>2
    <2> QED
      BY <1>1, <1>2, <2>4, <2>6, <2>7
  <1> QED
    BY <1>3, <1>4, WindowFields

(* It is a matter of the list and of the rows.                             *)
LEMMA FirstSame ==
  ASSUME NEW w, NEW u, NEW db, First(w, db), u.lv = w.lv, u.page = w.page,
         u.ctx_type = w.ctx_type, u.ctx_id = w.ctx_id, u.body_len = w.body_len
  PROVE  First(u, db)
  <1>1. Lines(u, db) = Lines(w, db)
    BY DEF Lines
  <1> QED
    BY <1>1 DEF First, Fresh, Stocked, RowsAre

(* What is generated of a list that has lines is a first page of it.       *)
LEMMA FirstRegenerated ==
  ASSUME NEW w, Window(w), NEW db, IsCache(db), Stocked(w, db)
  PROVE  First(Regenerated(w, db), db)
  <1>1. PICK u : u = Regenerated(w, db)
    OBVIOUS
  <1>2. Window(u) /\ Same(w, u) /\ (~Failed(w, db) => RowsAre(u, Lines(w, db)))
    BY <1>1, RegeneratedFacts
  <1>3. Lines(u, db) = Lines(w, db) /\ u.page = w.page /\ Stocked(u, db)
    BY <1>2, SameLines DEF Same, Stocked
  <1>4. w.page = 0 => Lines(w, db) # << >>
    BY StockedLines
  <1> QED
    BY <1>1, <1>2, <1>3, <1>4 DEF First, Fresh, Failed

(* Back to the feeds, on any page of them, and with the list of articles   *)
(* generated anew if there are any left.                                   *)
LEMMA FirstLists ==
  ASSUME NEW w, Window(w), NEW db, IsCache(db)
  PROVE  /\ Window(ViewToFeeds(w, db)) /\ First(ViewToFeeds(w, db), db)
         /\ Window(UpdatedOrFeeds(w, db)) /\ First(UpdatedOrFeeds(w, db), db)
  <1>1. Window(ViewToFeeds(w, db)) /\ First(ViewToFeeds(w, db), db)
    <2>1. PICK v : v = [w EXCEPT !.page = w.backup_page_num, !.ctx_type = "feeds", !.ctx_id = 0]
      OBVIOUS
    <2>2. Window(v) /\ Stocked(v, db)
      BY <2>1, ConstantFacts DEF Window, Stocked
    <2>3. ViewToFeeds(w, db) = Regenerated(v, db)
      BY <2>1 DEF ViewToFeeds
    <2> QED
      BY <2>2, <2>3, FirstRegenerated, RegeneratedFacts
  <1>2. CASE Failed(w, db)
    BY <1>1, <1>2 DEF UpdatedOrFeeds
  <1>3. CASE ~Failed(w, db)
    <2>1. Stocked(w, db)
      BY <1>3, StockedLines DEF Failed
    <2> QED
      BY <1>1, <1>3, <2>1, FirstRegenerated, RegeneratedFacts DEF UpdatedOrFeeds
  <1> QED
    BY <1>1, <1>2, <1>3

(* A resize shows the first page again, in as many rows as there are now.  *)
LEMMA FirstResized ==
  ASSUME NEW w, Window(w), NEW h \in Heights, NEW junk \in Ids,
         NEW db, IsCache(db), Stocked(w, db)
  PROVE  Window(Resized(w, h, junk, db)) /\ First(Resized(w, h, junk, db), db)
  <1>1. PICK v : /\ Window(v) /\ Resized(w, h, junk, db) = Regenerated(v, db)
                 /\ v.ctx_type = w.ctx_type /\ v.ctx_id = w.ctx_id
    BY ResizedIs
  <1>2. Stocked(v, db)
    BY <1>1 DEF Stocked
  <1> QED
    BY <1>1, <1>2, FirstRegenerated, RegeneratedFacts

(* update_view leaves the rows as they are.                                *)
LEMMA FirstShown ==
  ASSUME NEW w, Window(w), NEW db, First(w, db)
  PROVE  First(Shown(w), db)
  <1>1. PICK c \in Nat : Shown(w) = [w EXCEPT !.content_bw_max = c]
    BY ShownFacts
  <1>2. PICK u : u = [w EXCEPT !.content_bw_max = c]
    OBVIOUS
  <1>3. u.lv = w.lv /\ u.page = w.page /\ u.ctx_type = w.ctx_type /\ u.ctx_id = w.ctx_id
        /\ u.body_len = w.body_len
    BY <1>2 DEF Window
  <1> QED
    BY <1>1, <1>2, <1>3, FirstSame

(* How a handler ends.                                                     *)
LEMMA FirstEnds ==
  ASSUME State(entry, newsize, height), NEW w, Window(w), NEW db, IsCache(db), First(w, db),
         Update(w, db) \/ Ok(w, db)
  PROVE  First(mw', entry')
  <1>1. entry' = db /\ Stocked(w, db)
    BY DEF Update, Ok, First
  <1>2. CASE Ok(w, db)
    BY <1>1, <1>2 DEF Ok
  <1>3. CASE mw' = Shown(w)
    BY <1>1, <1>3, FirstShown
  <1>4. CASE \E junk \in Ids : mw' = Shown(Resized(w, height, junk, db))
    <2>1. PICK junk \in Ids : mw' = Shown(Resized(w, height, junk, db))
      BY <1>4
    <2>2. PICK u : u = Resized(w, height, junk, db)
      OBVIOUS
    <2>3. height \in Heights
      BY DEF State
    <2>4. Window(u) /\ First(u, db)
      BY <1>1, <2>2, <2>3, FirstResized
    <2>5. mw' = Shown(u)
      BY <2>1, <2>2
    <2> QED
      BY <1>1, <2>4, <2>5, FirstShown
  <1> QED
    BY <1>2, <1>3, <1>4 DEF Update

(* The keys that move the cursor, and turn the page at either end of it.   *)
LEMMA FirstMoves ==
  ASSUME FirstInv, LowItem \/ MidItem \/ HighItem \/ NextItem \/ PrevItem
  PROVE  First(mw', entry')
  <1>1. /\ State(entry, newsize, height) /\ IsCache(entry) /\ Window(mw) /\ First(mw, entry)
        /\ mw.cursor_i \in Nat /\ mw.content_bw_max \in Nat /\ mw.content_bw_max \div 2 \in Nat
        /\ mw.body_len \in Nat \ {0} /\ mw.page \in Nat
    BY WindowFields DEF FirstInv, WindowInv, State
  <1>2. ASSUME NEW i, ToItem(i)
        PROVE  First(mw', entry')
    <2>1. PICK m, u : m = mw /\ u = [m EXCEPT !.cursor_i = i]
      OBVIOUS
    <2>2. mw' = u /\ entry' = entry
      BY <1>2, <2>1 DEF ToItem, Ok
    <2>3. u.lv = m.lv /\ u.page = m.page /\ u.ctx_type = m.ctx_type /\ u.ctx_id = m.ctx_id
          /\ u.body_len = m.body_len
      BY <1>1, <2>1 DEF Window
    <2>4. First(m, entry)
      BY <1>1, <2>1
    <2>5. First(u, entry)
      BY <2>3, <2>4, FirstSame
    <2> QED
      BY <2>2, <2>5
  <1>3. ASSUME NEW i \in Nat, NEW p \in Nat,
               Update(Regenerated([mw EXCEPT !.cursor_i = i, !.page = p], entry), entry)
        PROVE  First(mw', entry')
    <2>1. PICK w : w = [mw EXCEPT !.cursor_i = i, !.page = p]
      OBVIOUS
    <2>2. Window(w) /\ Stocked(w, entry)
      BY <1>1, <2>1 DEF Window, First, Stocked
    <2>3. PICK u : u = Regenerated(w, entry)
      OBVIOUS
    <2>4. Window(u) /\ First(u, entry) /\ Update(u, entry)
      BY <1>1, <1>3, <2>1, <2>2, <2>3, RegeneratedFacts, FirstRegenerated
    <2> QED
      BY <1>1, <2>4, FirstEnds
  <1>4. CASE LowItem \/ MidItem \/ HighItem
    BY <1>2, <1>4 DEF LowItem, MidItem, HighItem
  <1>5. CASE NextItem
    <2>1. CASE ToItem(mw.cursor_i + 1) \/ ToItem(mw.content_bw_max)
      BY <1>2, <2>1
    <2>2. CASE Update(Regenerated([mw EXCEPT !.cursor_i = 0, !.page = mw.page + 1], entry), entry)
      <3>1. 0 \in Nat /\ mw.page + 1 \in Nat
        BY <1>1
      <3> QED
        BY <1>3, <2>2, <3>1
    <2> QED
      BY <1>5, <2>1, <2>2 DEF NextItem
  <1>6. CASE PrevItem
    <2>1. CASE ToItem(mw.cursor_i - 1)
      BY <1>2, <2>1
    <2>2. CASE /\ mw.page > 0
               /\ Update(Regenerated([mw EXCEPT !.cursor_i = mw.body_len - 1,
                                                !.page = mw.page - 1], entry), entry)
      <3>1. mw.body_len - 1 \in Nat /\ mw.page - 1 \in Nat
        BY <1>1, <2>2
      <3> QED
        BY <1>3, <2>2, <3>1
    <2> QED
      BY <1>6, <2>1, <2>2 DEF PrevItem
  <1> QED
    BY <1>4, <1>5, <1>6

(* A feed is entered on its first page, or not at all if it has nothing to *)
(* show, and left for the feeds.                                           *)
LEMMA FirstContext ==
  ASSUME FirstInv, SelectFeed \/ ContextExit
  PROVE  First(mw', entry')
  <1>1. State(entry, newsize, height) /\ IsCache(entry) /\ Window(mw)
    BY DEF FirstInv, WindowInv, State
  <1>2. CASE SelectFeed
    <2>1. PICK id \in AtCursor :
            LET w == [mw EXCEPT !.ctx_type = "entries", !.ctx_id = id,
                                !.backup_page_num = mw.page, !.page = 0]
            IN IF Failed(w, entry) THEN Ok(ViewToFeeds(w, entry), entry)
               ELSE Update([Regenerated(w, entry) EXCEPT !.backup_cursor_i = mw.cursor_i,
                                                         !.cursor_i = 0], entry)
      BY <1>2 DEF SelectFeed
    <2>2. PICK w : w = [mw EXCEPT !.ctx_type = "entries", !.ctx_id = id,
                                  !.backup_page_num = mw.page, !.page = 0]
      OBVIOUS
    <2>3. id \in Ids
      BY <1>1, AtCursorType
    <2>4. Window(w)
      BY <1>1, <2>2, <2>3 DEF Window
    <2>5. PICK v, r, i : v = ViewToFeeds(w, entry) /\ r = Regenerated(w, entry) /\ i = mw.cursor_i
      OBVIOUS
    <2>6. PICK u : u = [r EXCEPT !.backup_cursor_i = i, !.cursor_i = 0]
      OBVIOUS
    <2>7. CASE Failed(w, entry)
      <3>1. Ok(v, entry)
        BY <2>1, <2>2, <2>5, <2>7
      <3> QED
        BY <1>1, <2>4, <2>5, <3>1, FirstLists, FirstEnds
    <2>8. CASE ~Failed(w, entry)
      <3>1. Window(r) /\ First(r, entry)
        BY <1>1, <2>4, <2>5, <2>8, StockedLines, FirstRegenerated, RegeneratedFacts DEF Failed
      <3>2. i \in Nat
        BY <1>1, <2>5, WindowFields
      <3>3. Window(u) /\ u.lv = r.lv /\ u.page = r.page /\ u.ctx_type = r.ctx_type
            /\ u.ctx_id = r.ctx_id /\ u.body_len = r.body_len
        BY <2>6, <3>1, <3>2 DEF Window
      <3>4. First(u, entry)
        BY <3>1, <3>3, FirstSame
      <3>5. Update(u, entry)
        BY <2>1, <2>2, <2>5, <2>6, <2>8
      <3> QED
        BY <1>1, <3>3, <3>4, <3>5, FirstEnds
    <2> QED
      BY <2>7, <2>8
  <1>3. CASE ContextExit
    <2>1. PICK w : w = [mw EXCEPT !.cursor_i = mw.backup_cursor_i, !.ctx_type = "feeds",
                                  !.ctx_id = 0, !.page = mw.backup_page_num]
      OBVIOUS
    <2>2. Window(w) /\ Stocked(w, entry)
      BY <1>1, <2>1, ConstantFacts DEF Window, Stocked
    <2>3. PICK u : u = Regenerated(w, entry)
      OBVIOUS
    <2>4. Window(u) /\ First(u, entry) /\ Update(u, entry)
      BY <1>1, <1>3, <2>1, <2>2, <2>3, RegeneratedFacts, FirstRegenerated DEF ContextExit
    <2> QED
      BY <1>1, <2>4, FirstEnds
  <1> QED
    BY <1>2, <1>3

(* The keys that mark articles look whether any line is left, but for      *)
(* those in the list of feeds.                                             *)
LEMMA FirstMarks ==
  ASSUME FirstInv, DownloadItem \/ CatchupFeed \/ CatchupAll \/ ToggleRead
  PROVE  First(mw', entry')
  <1>1. State(entry, newsize, height) /\ Window(mw) /\ First(mw, entry)
    BY DEF FirstInv, WindowInv
  <1>2. PICK db : Remarked(db) /\ MarkingEnd(db)
    BY MarkingEnds DEF FirstInv
  <1>3. PICK m, u, r : m = mw /\ u = UpdatedOrFeeds(m, db) /\ r = Regenerated(m, db)
    OBVIOUS
  <1>4. IsCache(db) /\ Window(m)
    BY <1>1, <1>2, <1>3 DEF Remarked
  <1>5. Window(u) /\ First(u, db)
    BY <1>3, <1>4, FirstLists
  <1>6. Window(r) /\ (Stocked(m, db) => First(r, db))
    BY <1>3, <1>4, RegeneratedFacts, FirstRegenerated
  <1>7. CASE Update(u, db)
    BY <1>1, <1>4, <1>5, <1>7, FirstEnds
  <1>8. CASE m.ctx_type = "feeds" /\ Update(r, db)
    BY <1>1, <1>4, <1>6, <1>8, FirstEnds DEF Stocked
  <1>9. CASE ~Failed(m, db) /\ Ok(r, db)
    <2>1. Stocked(m, db)
      BY <1>4, <1>9, StockedLines DEF Failed
    <2> QED
      BY <1>1, <1>4, <1>6, <1>9, <2>1, FirstEnds
  <1>10. CASE db = entry /\ Update(m, db)
    BY <1>1, <1>3, <1>4, <1>10, FirstEnds
  <1> QED
    BY <1>2, <1>3, <1>7, <1>8, <1>9, <1>10 DEF MarkingEnd

(* Every step but an import, which may also find the list regenerated that *)
(* a reload has made stale.                                                *)
LEMMA FirstStep ==
  ASSUME FirstInv, [Next]_vars, ~Import
  PROVE  First(mw', entry')
  <1>1. CASE RedrawScreen
    <2>1. PICK junk \in Ids : mw' = Shown(Resized(mw, height, junk, entry))
      BY <1>1 DEF RedrawScreen
    <2>2. /\ height \in Heights /\ Window(mw) /\ Stocked(mw, entry)
          /\ entry' = entry /\ IsCache(entry)
      BY <1>1 DEF FirstInv, WindowInv, State, First, RedrawScreen
    <2>3. PICK u : u = Resized(mw, height, junk, entry)
      OBVIOUS
    <2>4. Window(u) /\ First(u, entry)
      BY <2>2, <2>3, FirstResized
    <2>5. mw' = Shown(u)
      BY <2>1, <2>3
    <2> QED
      BY <2>2, <2>4, <2>5, FirstShown
  <1>2. CASE CatchResize \/ UNCHANGED vars
    BY <1>2 DEF CatchResize, vars, FirstInv
  <1>3. CASE Key
    BY <1>3, FirstMoves, FirstContext, FirstMarks DEF Key
  <1>4. CASE CycleDone
    <2>1. State(entry, newsize, height) /\ IsCache(entry) /\ Window(mw) /\ Stocked(mw, entry)
      BY DEF FirstInv, WindowInv, State, First
    <2>2. PICK u : u = Regenerated(mw, entry)
      OBVIOUS
    <2>3. Window(u) /\ First(u, entry) /\ Update(u, entry)
      BY <1>4, <2>1, <2>2, RegeneratedFacts, FirstRegenerated DEF CycleDone
    <2> QED
      BY <2>1, <2>3, FirstEnds
  <1> QED
    BY <1>1, <1>2, <1>3, <1>4 DEF Next

(* The first state shows the first page.                                   *)
LEMMA FirstInit == Init => First(mw, entry)
  <1>1. SUFFICES ASSUME Init
                 PROVE  First(mw, entry)
    OBVIOUS
  <1>2. PICK w : Window(w) /\ w.ctx_type = "feeds" /\ mw = Shown(Regenerated(w, entry))
    BY <1>1, FirstWindow
  <1>3. Stocked(w, entry) /\ IsCache(entry)
    BY <1>1, <1>2, WindowAssumption DEF Stocked, Init
  <1>4. PICK u : u = Regenerated(w, entry)
    OBVIOUS
  <1>5. Window(u) /\ First(u, entry)
    BY <1>2, <1>3, <1>4, RegeneratedFacts, FirstRegenerated
  <1> QED
    BY <1>2, <1>3, <1>4, <1>5, FirstShown

(* This is what FirstPageRight says of the state.                          *)
LEMMA FirstIsRight == WindowInv => (FirstPageRight <=> FirstInv)
  <1>1. SUFFICES ASSUME WindowInv
                 PROVE  FirstPageRight <=> First(mw, entry)
    BY DEF FirstInv
  <1>2. Window(mw) /\ DOMAIN mw.lv = 0 .. mw.body_len - 1 /\ IsCache(entry)
    BY <1>1, WindowFields DEF WindowInv, State
  <1>3. RowsFresh <=> RowsAre(mw, Lines(mw, entry))
    BY <1>2 DEF RowsFresh, RowsAre
  <1>4. Stocked(mw, entry) /\ mw.page = 0 => Lines(mw, entry) # << >>
    BY <1>2, StockedLines
  <1> QED
    BY <1>3, <1>4 DEF FirstPageRight, First, Fresh, Stocked

(* Only an import makes the first page stale: no key, no resize and no end *)
(* of a reload does, whichever feeds and articles are listed and whatever  *)
(* leaves the lists as it is read.                                         *)
THEOREM FirstPageStays == Spec => FirstPageKept
  <1>1. WindowInv' => (FirstPageRight' <=> FirstInv')
    BY FirstIsRight, PTL
  <1>2. ASSUME WindowInv, WindowInv', [Next]_vars, ~Import, FirstPageRight
        PROVE  FirstPageRight'
    BY <1>1, <1>2, FirstIsRight, FirstStep DEF FirstInv
  <1>3. WindowInv /\ WindowInv' /\ [Next]_vars
          => [FirstPageRight => FirstPageRight' \/ Import]_vars
    BY <1>2
  <1> QED
    BY <1>3, WindowInvariant, PTL DEF Spec, FirstPageKept

(* So between reloads no row of the first page is ever stale.              *)
THEOREM FirstPageNeverStale == ~MayImport => (Spec => [](mw.page = 0 => RowsFresh))
  <1>1. ~MayImport => [](~MayImport)
    <2>1. ~MayImport => (~MayImport)'
      OBVIOUS
    <2> QED
      BY <2>1, PTL
  <1>2. Init => FirstInv
    BY InitWindowInv, FirstInit DEF FirstInv
  <1>3. ~MayImport /\ FirstInv /\ [Next]_vars => FirstInv'
    BY NextWindowInv, FirstStep DEF FirstInv, Import
  <1>4. FirstInv => (mw.page = 0 => RowsFresh)
    BY FirstIsRight DEF FirstInv, FirstPageRight
  <1> QED
    BY <1>1, <1>2, <1>3, <1>4, PTL DEF Spec

-----------------------------------------------------------------------------

(* The pages of feeds, one after the other.                                *)

(* What the flattening of a sequence of sequences is: the last of the      *)
(* sequences that each add one of them.                                    *)
LEMMA FlattenIs ==
  ASSUME NEW n \in Nat \ {0}, NEW seqs, Len(seqs) = n,
         NEW g, g = [i \in 1 .. n |-> IF i = 1 THEN seqs[i] ELSE g[i - 1] \o seqs[i]]
  PROVE  FlattenSeq(seqs) = g[n]
  <1> DEFINE Step(h) == [i \in 1 .. n |-> IF i = 1 THEN seqs[i] ELSE h[i - 1] \o seqs[i]]
             F == CHOOSE h : h = Step(h)
             Apart == {i \in 1 .. n : F[i] # g[i]}
  <1>1. F = Step(F)
    <2>1. \E h : h = Step(h)
      OBVIOUS
    <2> HIDE DEF Step
    <2> QED
      BY <2>1
  <1>2. FlattenSeq(seqs) = F[n]
    BY DEF FlattenSeq
  <1> HIDE DEF F
  <1>3. Apart = {}
    <2> SUFFICES ASSUME Apart # {}
                 PROVE  FALSE
      OBVIOUS
    <2>1. Apart \in SUBSET (0 .. n)
      OBVIOUS
    <2> DEFINE i == Min(Apart)
    <2>2. i \in Apart /\ \A j \in Apart : i <= j
      <3> HIDE DEF Apart
      <3> QED
        BY <2>1, MinOf
    <2> HIDE DEF i
    <2>3. CASE i = 1
      BY <1>1, <2>2, <2>3
    <2>4. CASE i # 1
      <3>1. i - 1 \in 1 .. n /\ i \in 1 .. n /\ i - 1 \notin Apart
        BY <2>2, <2>4
      <3>2. F[i - 1] = g[i - 1]
        BY <3>1
      <3>3. F[i] = F[i - 1] \o seqs[i] /\ g[i] = g[i - 1] \o seqs[i]
        BY <1>1, <2>4, <3>1
      <3> QED
        BY <2>2, <3>2, <3>3
    <2> QED
      BY <2>3, <2>4
  <1>4. n \in 1 .. n
    OBVIOUS
  <1>5. F[n] = g[n]
    BY <1>3, <1>4
  <1> QED
    BY <1>2, <1>5

(* LIMIT returns the lines from the one after start on, as many as asked   *)
(* for or as there are.                                                    *)
LEMMA LimitIs ==
  ASSUME NEW X, NEW s \in Seq(X), NEW start \in Nat, NEW n \in Nat
  PROVE  \E m \in Nat :
           /\ m <= Len(s) /\ m <= start + n /\ (m = start + n \/ m = Len(s))
           /\ Len(Limit(s, start, n)) = IF start < m THEN m - start ELSE 0
           /\ \A i \in 1 .. Len(Limit(s, start, n)) : Limit(s, start, n)[i] = s[start + i]
  <1> DEFINE m == Min({start + n, Len(s)})
  <1>1. m \in Nat /\ m <= Len(s) /\ m <= start + n /\ (m = start + n \/ m = Len(s))
    <2>1. Len(s) \in Nat /\ start + n \in Nat
      OBVIOUS
    <2>2. {start + n, Len(s)} \in SUBSET (0 .. start + n + Len(s)) /\ start + n + Len(s) \in Nat
      BY <2>1
    <2>3. m \in {start + n, Len(s)} /\ \A y \in {start + n, Len(s)} : m <= y
      BY <2>2, MinOf
    <2> QED
      BY <2>1, <2>3
  <1> HIDE DEF m
  <1>2. \A i \in start + 1 .. m : s[i] \in X
    BY <1>1
  <1>3. /\ Len(SubSeq(s, start + 1, m)) = IF start + 1 <= m THEN m - (start + 1) + 1 ELSE 0
        /\ \A i \in 1 .. m - (start + 1) + 1 : SubSeq(s, start + 1, m)[i] = s[start + 1 + i - 1]
    BY <1>1, <1>2, SubSeqProperties
  <1>4. Limit(s, start, n) = SubSeq(s, start + 1, m)
    BY DEF Limit, m
  <1>5. Len(Limit(s, start, n)) = IF start < m THEN m - start ELSE 0
    BY <1>1, <1>3, <1>4
  <1>6. \A i \in 1 .. Len(Limit(s, start, n)) : Limit(s, start, n)[i] = s[start + i]
    BY <1>1, <1>3, <1>4, <1>5
  <1> QED
    BY <1>1, <1>5, <1>6

(* A part of a sequence and the part after it.                             *)
LEMMA Extended ==
  ASSUME NEW X, NEW s \in Seq(X), NEW a \in Nat, NEW b \in Nat, a <= b, b <= Len(s),
         NEW part \in Seq(X), Len(part) = b - a,
         \A i \in 1 .. Len(part) : part[i] = s[a + i]
  PROVE  SubSeq(s, 1, a) \o part = SubSeq(s, 1, b)
  <1>1. \A c \in 0 .. Len(s) :
          /\ SubSeq(s, 1, c) \in Seq(X) /\ Len(SubSeq(s, 1, c)) = c
          /\ \A i \in 1 .. c : SubSeq(s, 1, c)[i] = s[i]
    <2> TAKE c \in 0 .. Len(s)
    <2>1. \A i \in 1 .. c : s[i] \in X
      OBVIOUS
    <2>2. c \in Int /\ 1 \in Int /\ c - 1 + 1 = c
      OBVIOUS
    <2>3. /\ SubSeq(s, 1, c) \in Seq(X)
          /\ Len(SubSeq(s, 1, c)) = IF 1 <= c THEN c - 1 + 1 ELSE 0
          /\ \A i \in 1 .. c - 1 + 1 : SubSeq(s, 1, c)[i] = s[1 + i - 1]
      BY <2>1, <2>2, SubSeqProperties
    <2> QED
      BY <2>3
  <1>2. PICK left, whole : left = SubSeq(s, 1, a) /\ whole = SubSeq(s, 1, b)
    OBVIOUS
  <1>3. /\ left \in Seq(X) /\ Len(left) = a /\ \A i \in 1 .. a : left[i] = s[i]
        /\ whole \in Seq(X) /\ Len(whole) = b /\ \A i \in 1 .. b : whole[i] = s[i]
    BY <1>1, <1>2
  <1>4. /\ left \o part \in Seq(X) /\ Len(left \o part) = Len(left) + Len(part)
        /\ \A i \in 1 .. Len(left) + Len(part) :
              (left \o part)[i] = IF i <= Len(left) THEN left[i] ELSE part[i - Len(left)]
    <2>1. left \in Seq(X) /\ part \in Seq(X)
      BY <1>3
    <2>2. \A p, q \in Seq(X) :
            /\ p \o q \in Seq(X) /\ Len(p \o q) = Len(p) + Len(q)
            /\ \A i \in 1 .. Len(p) + Len(q) :
                  (p \o q)[i] = IF i <= Len(p) THEN p[i] ELSE q[i - Len(p)]
      BY ConcatProperties
    <2> QED
      BY <2>1, <2>2, Zenon
  <1>5. \A i \in 1 .. b : (left \o part)[i] = s[i]
    <2> TAKE i \in 1 .. b
    <2>1. (left \o part)[i] = IF i <= a THEN left[i] ELSE part[i - a]
      <3>1. Len(left) = a /\ i \in 1 .. Len(left) + Len(part)
        BY <1>3
      <3> QED
        BY <1>4, <3>1
    <2>2. CASE i <= a
      BY <1>3, <2>1, <2>2
    <2>3. CASE ~(i <= a)
      <3>1. i - a \in 1 .. Len(part) /\ a + (i - a) = i
        BY <2>3
      <3> QED
        BY <2>1, <2>3, <3>1
    <2> QED
      BY <2>2, <2>3
  <1>6. Len(left \o part) = b
    BY <1>3, <1>4
  <1>7. left \o part = whole
    BY <1>3, <1>4, <1>5, <1>6, SeqEqual
  <1> QED
    BY <1>2, <1>7

(* The end of a list of n lines, or k if that comes before it.             *)
Upto(k, n) == IF k <= n THEN k ELSE n

(* A page of the feeds s, from line k on.                                  *)
PageFrom(s, k, len) ==
    IF k = 0 THEN <<0>> \o Limit(s, 0, len - 1) ELSE Limit(s, k - 1, len)

(* A page of feeds is a part of the list with the row Unread Articles on   *)
(* top: the part from the end of the page before on.                       *)
LEMMA PageIsPart ==
  ASSUME NEW s \in Seq(Ids), NEW len \in Nat \ {0}, NEW k \in Nat
  PROVE  LET page == PageFrom(s, k, len)
             whole == <<0>> \o s
             a == Upto(k, Len(whole))
             b == Upto(k + len, Len(whole))
         IN  /\ page \in Seq(Ids) /\ Len(page) = b - a
             /\ \A i \in 1 .. Len(page) : page[i] = whole[a + i]
  <1> DEFINE page == PageFrom(s, k, len)
             whole == <<0>> \o s
             a == Upto(k, Len(whole))
             b == Upto(k + len, Len(whole))
  <1>1. PICK n \in Nat : n = Len(s)
    OBVIOUS
  <1>2. <<0>> \in Seq(Ids) /\ Len(<<0>>) = 1 /\ <<0>>[1] = 0
    BY ConstantFacts
  <1>3. /\ Len(whole) = n + 1 /\ whole[1] = 0
        /\ \A i \in 1 .. n : whole[i + 1] = s[i]
    <2>1. /\ Len(whole) = 1 + n
          /\ \A i \in 1 .. 1 + n : whole[i] = IF i <= 1 THEN <<0>>[i] ELSE s[i - 1]
      BY <1>1, <1>2, ConcatProperties
    <2>2. \A i \in 1 .. n : i + 1 \in 1 .. 1 + n /\ ~(i + 1 <= 1) /\ (i + 1) - 1 = i
      OBVIOUS
    <2>3. 1 \in 1 .. 1 + n /\ 1 <= 1
      OBVIOUS
    <2> QED
      BY <1>2, <2>1, <2>2, <2>3
  <1> HIDE DEF page, whole
  <1>4. CASE k = 0
    <2>1. PICK rest : rest = Limit(s, 0, len - 1)
      OBVIOUS
    <2>2. len - 1 \in Nat
      OBVIOUS
    <2>3. PICK m \in Nat :
            /\ m <= n /\ m <= len - 1 /\ (m = len - 1 \/ m = n)
            /\ Len(rest) = m /\ \A i \in 1 .. m : rest[i] = s[i]
      <3>1. PICK m \in Nat :
              /\ m <= Len(s) /\ m <= 0 + (len - 1) /\ (m = 0 + (len - 1) \/ m = Len(s))
              /\ Len(rest) = IF 0 < m THEN m - 0 ELSE 0
              /\ \A i \in 1 .. Len(rest) : rest[i] = s[0 + i]
        BY <2>1, <2>2, LimitIs
      <3>2. Len(rest) = m
        BY <3>1
      <3>3. \A i \in 1 .. m : rest[i] = s[i]
        BY <3>1, <3>2
      <3> QED
        BY <1>1, <3>1, <3>2, <3>3
    <2>4. rest \in Seq(Ids)
      BY <2>1, <2>2, LimitFacts
    <2>5. page = <<0>> \o rest
      BY <1>4, <2>1 DEF page, PageFrom
    <2>6. /\ page \in Seq(Ids) /\ Len(page) = 1 + m
          /\ \A i \in 1 .. 1 + m : page[i] = IF i <= 1 THEN <<0>>[i] ELSE rest[i - 1]
      BY <1>2, <2>3, <2>4, <2>5, ConcatProperties
    <2>7. a = 0 /\ b = 1 + m
      BY <1>3, <1>4, <2>3 DEF Upto
    <2>8. ASSUME NEW i \in 1 .. 1 + m
          PROVE  page[i] = whole[0 + i]
      <3>1. CASE i = 1
        BY <1>2, <1>3, <2>6, <3>1
      <3>2. CASE i # 1
        <4>1. i - 1 \in 1 .. m /\ i - 1 \in 1 .. n /\ (i - 1) + 1 = i /\ 0 + i = i
          BY <2>3, <3>2
        <4>2. page[i] = rest[i - 1]
          BY <2>6, <3>2, <4>1
        <4>3. rest[i - 1] = s[i - 1]
          BY <2>3, <4>1
        <4>4. whole[(i - 1) + 1] = s[i - 1]
          BY <1>3, <4>1
        <4> QED
          BY <4>1, <4>2, <4>3, <4>4
      <3> QED
        BY <3>1, <3>2
    <2>9. Len(page) = b - a
      BY <2>6, <2>7
    <2> HIDE DEF a, b, page, whole
    <2>10. \A i \in 1 .. Len(page) : page[i] = whole[a + i]
      BY <2>6, <2>7, <2>8
    <2> QED
      BY <2>6, <2>9, <2>10 DEF a, b, page, whole
  <1>5. CASE k # 0
    <2>1. page = Limit(s, k - 1, len)
      BY <1>5 DEF page, PageFrom
    <2>2. k - 1 \in Nat /\ len \in Nat
      BY <1>5
    <2>3. PICK m \in Nat :
            /\ m <= n /\ m <= k - 1 + len /\ (m = k - 1 + len \/ m = n)
            /\ Len(page) = IF k - 1 < m THEN m - (k - 1) ELSE 0
            /\ \A i \in 1 .. Len(page) : page[i] = s[k - 1 + i]
      <3>1. PICK m \in Nat :
              /\ m <= Len(s) /\ m <= k - 1 + len /\ (m = k - 1 + len \/ m = Len(s))
              /\ Len(page) = IF k - 1 < m THEN m - (k - 1) ELSE 0
              /\ \A i \in 1 .. Len(page) : page[i] = s[k - 1 + i]
        BY <2>1, <2>2, LimitIs
      <3> QED
        BY <1>1, <3>1
    <2>6. page \in Seq(Ids)
      BY <2>1, <2>2, LimitFacts
    <2>4. CASE k <= n
      <3>1. a = k /\ b = m + 1
        BY <1>3, <2>3, <2>4 DEF Upto
      <3>2. Len(page) = m - (k - 1) /\ Len(page) = b - a
        BY <1>5, <2>3, <2>4, <3>1
      <3>3. ASSUME NEW i \in 1 .. Len(page)
            PROVE  page[i] = whole[a + i]
        <4>1. i \in 1 .. m - (k - 1)
          BY <3>2
        <4>2. k - 1 + i \in 1 .. n /\ (k - 1 + i) + 1 = k + i
          BY <1>5, <2>3, <2>4, <4>1
        <4> QED
          BY <1>3, <2>3, <3>1, <4>2
      <3> QED
        BY <2>6, <3>2, <3>3 DEF a, b, page, whole
    <2>5. CASE ~(k <= n)
      <3>1. a = n + 1 /\ b = n + 1
        BY <1>3, <2>5 DEF Upto
      <3>2. Len(page) = 0
        BY <2>3, <2>5
      <3>3. Len(page) = b - a /\ \A i \in 1 .. Len(page) : page[i] = whole[a + i]
        BY <3>1, <3>2
      <3> QED
        BY <2>6, <3>3 DEF a, b, page, whole
    <2> QED
      BY <2>4, <2>5
  <1> QED
    BY <1>4, <1>5

(* A page for each feed, and one, holds at least the whole list.           *)
LEMMA PagesEnough ==
  ASSUME NEW n \in Nat, NEW len \in Nat \ {0}
  PROVE  n <= n * len
  OBVIOUS

(* The pages of feeds, one after the other, are the list: for every number *)
(* of feeds and every height of the window, in every state of the cache.   *)
THEOREM PagesAreList == Spec => []PagesTile
  <1>1. ASSUME NEW db, IsCache(db), NEW len \in Heights
        PROVE  FlattenSeq([p \in 1 .. Len(FeedList(db)) + 1 |-> FeedLines(p - 1, len, db)])
                 = <<0>> \o FeedList(db)
    <2>1. PICK s, whole, n : s = FeedList(db) /\ whole = <<0>> \o s /\ n = Len(s) + 1
      OBVIOUS
    <2> DEFINE pages == [p \in 1 .. n |-> FeedLines(p - 1, len, db)]
               g == [i \in 1 .. n |-> SubSeq(whole, 1, Upto(i * len, n))]
    <2>2. /\ len \in Nat \ {0} /\ s \in Seq(Ids) /\ n \in Nat \ {0}
          /\ whole \in Seq(Ids) /\ Len(whole) = n
      <3>1. s \in Seq(Ids) /\ Len(s) \in Nat
        BY <1>1, <2>1, FeedListFacts
      <3>2. <<0>> \in Seq(Ids) /\ Len(<<0>>) = 1
        BY ConstantFacts
      <3>3. whole \in Seq(Ids) /\ Len(whole) = 1 + Len(s)
        BY <2>1, <3>1, <3>2, ConcatProperties
      <3>4. len \in Nat \ {0}
        BY ConstantFacts
      <3> QED
        BY <2>1, <3>1, <3>3, <3>4
    <2>3. ASSUME NEW i \in 1 .. n
          PROVE  LET b == Upto(i * len, n)
                     a == Upto((i - 1) * len, n)
                 IN  /\ FeedLines(i - 1, len, db) \in Seq(Ids)
                     /\ Len(FeedLines(i - 1, len, db)) = b - a
                     /\ \A j \in 1 .. Len(FeedLines(i - 1, len, db)) :
                           FeedLines(i - 1, len, db)[j] = whole[a + j]
                     /\ a \in Nat /\ b \in Nat /\ a <= b /\ b <= n
                     /\ i = 1 => a = 0
      <3>1. PICK p \in Nat, k \in Nat : p = i - 1 /\ k = p * len
        BY <2>2
      <3>2. (p + 1) * len = p * len + len
        BY <2>2, Distributed
      <3>3. i = p + 1 /\ i * len = k + len
        BY <2>2, <3>1, <3>2
      <3>4. i = 1 => k = 0
        BY <2>2, <3>1
      <3>5. Upto(k, n) <= Upto(k + len, n) /\ Upto(k + len, n) <= n
            /\ Upto(k, n) \in Nat /\ Upto(k + len, n) \in Nat
        BY <2>2 DEF Upto
      <3>6. i = 1 => Upto(k, n) = 0
        BY <2>2, <3>4 DEF Upto
      <3>7. /\ FeedLines(p, len, db) \in Seq(Ids)
            /\ Len(FeedLines(p, len, db)) = Upto(k + len, n) - Upto(k, n)
            /\ \A j \in 1 .. Len(FeedLines(p, len, db)) :
                  FeedLines(p, len, db)[j] = whole[Upto(k, n) + j]
        <4>1. FeedLines(p, len, db) = PageFrom(s, k, len)
          BY <2>1, <3>1 DEF FeedLines, PageFrom
        <4>2. /\ PageFrom(s, k, len) \in Seq(Ids)
              /\ Len(PageFrom(s, k, len)) = Upto(k + len, Len(<<0>> \o s)) - Upto(k, Len(<<0>> \o s))
              /\ \A j \in 1 .. Len(PageFrom(s, k, len)) :
                    PageFrom(s, k, len)[j] = (<<0>> \o s)[Upto(k, Len(<<0>> \o s)) + j]
          <5>1. s \in Seq(Ids) /\ len \in Nat \ {0} /\ k \in Nat
            BY <2>2
          <5> QED
            BY <5>1, PageIsPart
        <4>3. <<0>> \o s = whole /\ Len(whole) = n
          BY <2>1, <2>2
        <4> QED
          BY <4>1, <4>2, <4>3
      <3> QED
        BY <3>1, <3>3, <3>5, <3>6, <3>7
    <2>4. Len(pages) = n /\ \A i \in 1 .. n : pages[i] = FeedLines(i - 1, len, db)
      BY <2>2
    <2>5. \A i \in 1 .. n : g[i] = IF i = 1 THEN pages[i] ELSE g[i - 1] \o pages[i]
      <3> TAKE i \in 1 .. n
      <3>1. PICK a \in Nat, b \in Nat :
              a = Upto((i - 1) * len, n) /\ b = Upto(i * len, n) /\ a <= b /\ b <= n
              /\ (i = 1 => a = 0)
        BY <2>3
      <3>2. SubSeq(whole, 1, a) \o FeedLines(i - 1, len, db) = SubSeq(whole, 1, b)
        <4>1. /\ FeedLines(i - 1, len, db) \in Seq(Ids)
              /\ Len(FeedLines(i - 1, len, db)) = b - a
              /\ \A j \in 1 .. Len(FeedLines(i - 1, len, db)) :
                    FeedLines(i - 1, len, db)[j] = whole[a + j]
          BY <2>3, <3>1
        <4>2. PICK part : part = FeedLines(i - 1, len, db)
          OBVIOUS
        <4>3. /\ a \in Nat /\ b \in Nat /\ a <= b /\ b <= Len(whole) /\ whole \in Seq(Ids)
              /\ part \in Seq(Ids) /\ Len(part) = b - a
              /\ \A j \in 1 .. Len(part) : part[j] = whole[a + j]
          BY <2>2, <3>1, <4>1, <4>2
        <4>4. SubSeq(whole, 1, a) \o part = SubSeq(whole, 1, b)
          BY <4>3, Extended
        <4> QED
          BY <4>2, <4>4
      <3>3. CASE i = 1
        <4>1. SubSeq(whole, 1, a) = << >>
          BY <3>1, <3>3
        <4>2. << >> \o FeedLines(i - 1, len, db) = FeedLines(i - 1, len, db)
          BY <2>3, ConcatEmptySeq
        <4>3. g[i] = SubSeq(whole, 1, b)
          BY <3>1
        <4> QED
          BY <2>4, <3>2, <3>3, <4>1, <4>2, <4>3
      <3>4. CASE i # 1
        <4>1. i - 1 \in 1 .. n
          BY <2>2, <3>4
        <4>2. g[i] = SubSeq(whole, 1, b) /\ g[i - 1] = SubSeq(whole, 1, a)
          BY <3>1, <4>1
        <4> QED
          BY <2>4, <3>2, <3>4, <4>2
      <3> QED
        BY <3>3, <3>4
    <2>6. g = [i \in 1 .. n |-> IF i = 1 THEN pages[i] ELSE g[i - 1] \o pages[i]]
      <3> DEFINE h == [i \in 1 .. n |-> IF i = 1 THEN pages[i] ELSE g[i - 1] \o pages[i]]
      <3>1. \A i \in 1 .. n : g[i] = h[i]
        BY <2>5
      <3> QED
        BY <3>1
    <2>7. g[n] = whole
      <3>1. n <= n * len /\ n * len \in Nat
        BY <2>2, PagesEnough
      <3>2. Upto(n * len, n) = n
        BY <2>2, <3>1 DEF Upto
      <3>3. g[n] = SubSeq(whole, 1, n)
        BY <2>2, <3>2
      <3>4. SubSeq(whole, 1, n) = whole
        BY <2>2
      <3> QED
        BY <3>3, <3>4
    <2> HIDE DEF g, pages
    <2>8. FlattenSeq(pages) = g[n]
      <3>1. n \in Nat \ {0} /\ Len(pages) = n
        BY <2>2, <2>4
      <3>2. \A f : f = [i \in 1 .. n |-> IF i = 1 THEN pages[i] ELSE f[i - 1] \o pages[i]]
                    => FlattenSeq(pages) = f[n]
        BY <3>1, FlattenIs
      <3> QED
        BY <2>6, <3>2, Zenon
    <2> QED
      BY <2>1, <2>7, <2>8 DEF pages
  <1>2. WindowInv => PagesTile
    BY <1>1 DEF WindowInv, State, PagesTile
  <1> QED
    BY <1>2, WindowInvariant, PTL
=============================================================================
