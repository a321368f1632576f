----------------------------- MODULE ConfReader -----------------------------
(***************************************************************************)
(* The line reader of src/src/config.c (read_config_line, check_for_line,  *)
(* move_buf) that reads the configuration and the URL file, and the        *)
(* splitting of a line into words (get_line_word, copy_strarr).            *)
(*                                                                         *)
(* The file is read into a buffer that grows by CONF_BUF_INC whenever it   *)
(* is full.  A line is returned in place, at the start of the buffer, with *)
(* its newline replaced by NUL; the call after moves the rest to the front *)
(* or finds the next line in it.                                           *)
(*                                                                         *)
(* A cell of the buffer holds the position of a byte in the file, so that  *)
(* it can be told whether bytes get lost, doubled or stale, or one of:     *)
(*   NUL, written by check_for_line,                                       *)
(*   Newline, appended by read_config_line to an unfinished last line,     *)
(*   Junk, memory that was never written.                                  *)
(***************************************************************************)
EXTENDS Integers, Sequences, FiniteSetsExt, SequencesExt

CONSTANTS
    CONF_BUF_INC,   \* what the buffer grows by
    MaxFile         \* bound: the length of the files

ASSUME ReaderAssumption == CONF_BUF_INC \in Nat \ {0} /\ MaxFile \in Nat

VARIABLES
    file,       \* the bytes of the file: a letter, a blank or a newline
    pos,        \* how much of it has been read
    buf, b_stored, l_ret, eof,  \* struct conf_read; b_alloc is buf's size
    pc,         \* before a call, in the loop of read_config_line, at the end
    lines       \* what the calls returned: the C string at buf

c == <<buf, b_stored, l_ret, eof>>
vars == <<file, pos, c, pc, lines>>

NUL == 0
Newline == -1
Junk == -2

Byte == {"letter", "blank", "newline"}
IsNewline(b) == b = Newline \/ (b \in DOMAIN file /\ file[b] = "newline")
IsBlank(b) == b \in DOMAIN file /\ file[b] = "blank"

b_alloc == Cardinality(DOMAIN buf)

-----------------------------------------------------------------------------

(* memmove(buf, buf + k, n).                                               *)
MoveDown(b, k, n) == [i \in DOMAIN b |-> IF i < n THEN b[i + k] ELSE b[i]]

(* realloc: CONF_BUF_INC more cells.                                       *)
Grown(b) ==
    [i \in 0 .. Cardinality(DOMAIN b) + CONF_BUF_INC - 1 |->
        IF i \in DOMAIN b THEN b[i] ELSE Junk]

(* check_for_line skips the newlines from r on, with s cells stored, and   *)
(* looks for the end of the line that begins there.                        *)
Skipped(b, s, r) ==
    IF r >= s THEN r
    ELSE Min({i \in r .. s : i = s \/ ~IsNewline(b[i])})
LineEnds(b, s, r) == {i \in Skipped(b, s, r) .. s - 1 : IsNewline(b[i])}

(* The C string at the start of b: up to the first NUL, or to memory that  *)
(* was never written, after which anything may follow.                     *)
StringAt(b) ==
    LET stops == {i \in DOMAIN b : b[i] \in {NUL, Junk}}
        n == IF stops = {} THEN Cardinality(DOMAIN b) ELSE Min(stops)
    IN [i \in 1 .. n |-> b[i - 1]]

(* check_for_line found the end of a line: it terminates it and moves it   *)
(* to the front, l_ret is where the rest begins (move_buf).                *)
Rest_Kept(e, start) == e - start                     \* mutant: NUL not skipped
Rest(e, start) == e - start + 1
LineFound(b, s, r) ==
    /\ LineEnds(b, s, r) # {}
    /\ LET start == Skipped(b, s, r)
           end == Min(LineEnds(b, s, r))
           moved == MoveDown([b EXCEPT ![end] = NUL], start, s - start)
       IN /\ buf' = moved
          /\ b_stored' = s - start
          /\ l_ret' = Rest(end, start)
          /\ lines' = Append(lines, StringAt(moved))

(* read_config_line: there was another line in the buffer.                 *)
NextInBuffer ==
    /\ pc = "call"
    /\ LineFound(buf, b_stored, l_ret)
    /\ UNCHANGED <<file, pos, eof, pc>>

(* There was none, and nothing is left to read.                            *)
NothingMore ==
    /\ pc = "call"
    /\ LineEnds(buf, b_stored, l_ret) = {}
    /\ eof
    /\ l_ret' = Skipped(buf, b_stored, l_ret)
    /\ pc' = "end"
    /\ UNCHANGED <<file, pos, buf, b_stored, eof, lines>>

(* Else what is left of the buffer goes to its front.                      *)
MoveToFront ==
    /\ pc = "call"
    /\ LineEnds(buf, b_stored, l_ret) = {}
    /\ ~eof
    /\ LET start == Skipped(buf, b_stored, l_ret) IN
       /\ buf' = MoveDown(buf, start, b_stored - start)
       /\ b_stored' = b_stored - start
    /\ l_ret' = 0
    /\ pc' = "read"
    /\ UNCHANGED <<file, pos, eof, lines>>

(* A read(2) fills the buffer or comes to the end of the file; a buffer    *)
(* that is full then grows.                                                *)
nr == Min({Len(file) - pos, b_alloc - b_stored})
Filled ==
    [i \in DOMAIN buf |->
        IF i \in b_stored .. b_stored + nr - 1 THEN pos + 1 + i - b_stored ELSE buf[i]]
AfterRead_Full == Filled                             \* mutant: never grows
AfterRead == IF b_stored + nr = b_alloc THEN Grown(Filled) ELSE Filled

ReadMore ==
    /\ pc = "read" /\ nr > 0
    /\ LET b == AfterRead
           s == b_stored + nr
       IN /\ pos' = pos + nr
          /\ \/ LineFound(b, s, l_ret) /\ pc' = "call"
             \/ /\ LineEnds(b, s, l_ret) = {}
                /\ buf' = b /\ b_stored' = s
                /\ l_ret' = Skipped(b, s, l_ret)
                /\ UNCHANGED <<pc, lines>>
    /\ UNCHANGED <<file, eof>>

(* A read that returns 0.  A last line without a newline gets one, behind  *)
(* the cells that count, and is returned with whatever follows in memory.  *)
(* So is the rest of the buffer when it holds newlines only.               *)
Unfinished == b_stored > 0 /\ ~IsNewline(buf[b_stored - 1])
LastLine_Dropped == FALSE                            \* mutant: only whole lines
LastLine == b_stored > 0
ReadEnd ==
    /\ pc = "read" /\ nr = 0
    /\ eof' = TRUE
    /\ buf' = IF Unfinished THEN [buf EXCEPT ![b_stored] = Newline] ELSE buf
    /\ l_ret' = Skipped(buf, b_stored, l_ret)
    /\ IF LastLine
       THEN pc' = "call" /\ lines' = Append(lines, StringAt(buf'))
       ELSE pc' = "end" /\ UNCHANGED lines
    /\ UNCHANGED <<file, pos, b_stored>>

Init ==
    /\ file \in BoundedSeq(Byte, MaxFile)
    /\ pos = 0
    /\ buf = [i \in 0 .. CONF_BUF_INC - 1 |-> Junk]
    /\ b_stored = 0 /\ l_ret = 0 /\ eof = FALSE
    /\ pc = "call"
    /\ lines = <<>>

Next == NextInBuffer \/ NothingMore \/ MoveToFront \/ ReadMore \/ ReadEnd

Spec == Init /\ [][Next]_vars

-----------------------------------------------------------------------------

(* get_line_word: the first word of a C string s, and the string after it  *)
(* and all blanks that follow.  The string ends when that is empty.        *)
WordLength(s) == Min({n \in 0 .. Len(s) : n = Len(s) \/ IsBlank(s[n + 1])})
Word(s) == SubSeq(s, 1, WordLength(s))
AfterBlanks_One(s) == SubSeq(s, WordLength(s) + 2, Len(s))   \* mutant: skips one
AfterBlanks(s) ==
    LET from == {i \in WordLength(s) + 2 .. Len(s) : ~IsBlank(s[i])}
    IN IF from = {} THEN <<>> ELSE SubSeq(s, Min(from), Len(s))

(* What is left of s after each call, and the words until it is empty.     *)
Left(s) ==
    LET left[n \in 0 .. Len(s) + 1] ==
            IF n = 0 THEN s ELSE AfterBlanks(left[n - 1])
    IN left
NWords(s) == Min({n \in 0 .. Len(s) + 1 : Left(s)[n] = <<>>})
Words(s) == [n \in 1 .. NWords(s) |-> Word(Left(s)[n - 1])]

(* copy_strarr counts the words, then copies as many strings from the line *)
(* in which get_line_word has put a NUL over the first blank after each:   *)
(* an argument begins right after the NUL of the one before it.            *)
WordEnd(s, n) == Len(s) - Len(Left(s)[n - 1]) + WordLength(Left(s)[n - 1])
Arg(s, n) == SubSeq(s, IF n = 1 THEN 1 ELSE WordEnd(s, n - 1) + 2, WordEnd(s, n))
Args(s) == [n \in 1 .. NWords(s) |-> Arg(s, n)]

(* urlparse puts the first word of each line in front of the list.         *)
Urls_Last == [i \in DOMAIN lines |-> Last(Words(lines[i]))]  \* mutant: a tag
Urls == Reverse([i \in DOMAIN lines |-> Word(lines[i])])

-----------------------------------------------------------------------------

(* The maximal runs of positions of f for which In holds, in order: what   *)
(* the lines of a file and the words of a line should be.                  *)
Runs(n, In(_)) ==
    LET first == {i \in 1 .. n : In(i) /\ (i = 1 \/ ~In(i - 1))}
        last(i) == Max({k \in i .. n : \A m \in i .. k : In(m)})
        start(k) == CHOOSE i \in first : Cardinality({j \in first : j < i}) = k - 1
    IN [k \in 1 .. Cardinality(first) |->
           [m \in 1 .. last(start(k)) - start(k) + 1 |-> start(k) + m - 1]]
Written == Runs(Len(file), LAMBDA i : file[i] # "newline")
Fields(s) ==
    LET runs == Runs(Len(s), LAMBDA i : ~IsBlank(s[i]))
    IN [k \in DOMAIN runs |-> [m \in DOMAIN runs[k] |-> s[runs[k][m]]]]

TypeOK ==
    /\ b_stored \in 0 .. b_alloc - 1
    /\ l_ret \in 0 .. b_stored
    /\ buf \in [0 .. b_alloc - 1 -> {NUL, Newline, Junk} \cup DOMAIN file]
    /\ \A i \in 0 .. b_stored - 1 : buf[i] # Junk
    /\ pos \in 0 .. Len(file)
    /\ pc \in {"call", "read", "end"}
    /\ eof \in BOOLEAN

(* A file whose last line ends with a newline, no empty line behind it.    *)
EndsWell ==
    file # <<>> =>
        /\ Last(file) = "newline"
        /\ Len(file) > 1 /\ file[Len(file) - 1] # "newline"

(* Of every file the lines before its end are returned in order, each once *)
(* and whole, wherever the reads and the buffer cut them, and without the  *)
(* empty ones; of a file that ends well exactly all of them.               *)
LinesRead ==
    /\ ~eof => IsPrefix(lines, Written)
    /\ pc = "end" /\ EndsWell => lines = Written

(* And no byte is lost: what read_config_line appends when the last line   *)
(* has no newline, or is empty, is one string at most.                     *)
BytesKept ==
    /\ Len(lines) <= Len(Written) + 1
    /\ pc = "end" =>
          \A i \in DOMAIN file : file[i] # "newline" =>
              \E l \in Range(lines) : Contains(l, i)

(* get_line_word finds the words of a line and an empty one in front when  *)
(* the line begins with a blank; the arguments of pager and downloader     *)
(* (copy_strarr) are its words when no two blanks follow one another.      *)
WordsSplit ==
    \A l \in Range(lines) :
        /\ Words(l) = IF l # <<>> /\ IsBlank(l[1]) THEN <<(<<>>)>> \o Fields(l) ELSE Fields(l)
        /\ (\A i \in 1 .. Len(l) - 1 : ~(IsBlank(l[i]) /\ IsBlank(l[i + 1])))
              => Args(l) = Words(l)

(* The URL list is that of the first words of the file's lines, the last   *)
(* line first (urlparse).                                                  *)
UrlsRead ==
    pc = "end" /\ EndsWell =>
        Urls = Reverse([k \in DOMAIN Written |->
                           IF IsBlank(Head(Written[k])) THEN <<>> ELSE Head(Fields(Written[k]))])
=============================================================================
