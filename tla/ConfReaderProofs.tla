-------------------------- MODULE ConfReaderProofs --------------------------
(***************************************************************************)
(* The line reader for every file and every size of its buffer: the buffer *)
(* is never overrun, and the lines of the file are returned whole, in      *)
(* order and each once.                                                    *)
(***************************************************************************)
EXTENDS ConfReader, Extrema, SequenceTheorems

Cell == {NUL, Newline, Junk} \cup DOMAIN file

(* A line of f begins at each position in First(f); the one that begins at *)
(* x is RunFrom(f, x).                                                     *)
First(f) == {i \in 1 .. Len(f) : f[i] # "newline" /\ (i = 1 \/ ~(f[i - 1] # "newline"))}
LastOf(f, x) == Max({k \in x .. Len(f) : \A m \in x .. k : f[m] # "newline"})
RunFrom(f, x) == [m \in 1 .. LastOf(f, x) - x + 1 |-> x + m - 1]
Before(f, x) == {y \in First(f) : y < x}
UpTo(f, q) == {y \in First(f) : y <= q}

(* The lines of f as far as q have been returned, no byte was left out.    *)
Kept(f, ls, q) ==
    \A i \in 1 .. q : f[i] # "newline" => \E k \in 1 .. Len(ls) : Contains(ls[k], i)
Done(f, ls, q) ==
    /\ q \in 0 .. Len(f) /\ (q = 0 \/ f[q] = "newline")
    /\ Len(ls) = Cardinality(UpTo(f, q))
    /\ \A k \in 1 .. Len(ls) :
          \E x \in First(f) : Cardinality(Before(f, x)) = k - 1 /\ ls[k] = RunFrom(f, x)
    /\ Kept(f, ls, q)

(* The cells of b from r on hold the bytes before p.                       *)
Cells(b, s, r, p) == \A i \in r .. s - 1 : b[i] = p - s + i + 1

Reading ==
    /\ b_stored <= pos
    /\ Cells(buf, b_stored, l_ret, pos)
    /\ Done(file, lines, pos - b_stored + l_ret)

InLoop ==
    /\ Cells(buf, b_stored, 0, pos)
    /\ pos - b_stored = 0 \/ file[pos - b_stored] = "newline"
    /\ \A i \in 0 .. l_ret - 1 : IsNewline(buf[i])
    /\ LineEnds(buf, b_stored, l_ret) = {}

AtEnd ==
    /\ LineEnds(buf, b_stored, l_ret) = {}
    /\ Kept(file, lines, Len(file))
    /\ Len(lines) <= Cardinality(First(file)) + 1
    /\ EndsWell => Done(file, lines, Len(file))

Typed ==
    /\ file \in Seq(Byte) /\ lines \in Seq(Seq(Int)) /\ b_alloc \in Nat
    /\ TypeOK

ReaderInv ==
    /\ Typed
    /\ ~eof => Reading
    /\ pc = "read" => ~eof /\ InLoop
    /\ pc = "end" => eof
    /\ eof => AtEnd

-----------------------------------------------------------------------------

(* Where the lines of a file begin.                                        *)
LEMMA FirstFacts ==
  ASSUME NEW f \in Seq(Byte)
  PROVE  /\ Len(f) \in Nat /\ IsFiniteSet(First(f)) /\ Cardinality(First(f)) \in Nat
         /\ \A x \in First(f) : x \in 1 .. Len(f) /\ f[x] # "newline"
         /\ \A q : /\ IsFiniteSet(UpTo(f, q)) /\ Cardinality(UpTo(f, q)) \in Nat
                   /\ Cardinality(UpTo(f, q)) <= Cardinality(First(f))
  <1>1. Len(f) \in Nat /\ IsFiniteSet(1 .. Len(f))
    BY FS_Interval
  <1>2. First(f) \in SUBSET (1 .. Len(f)) /\ \A x \in First(f) : f[x] # "newline"
    BY DEF First
  <1>3. IsFiniteSet(First(f)) /\ Cardinality(First(f)) \in Nat
    BY <1>1, <1>2, FS_Subset, FS_CardinalityType
  <1>4. \A q : UpTo(f, q) \in SUBSET First(f)
    BY DEF UpTo
  <1>5. \A q : /\ IsFiniteSet(UpTo(f, q)) /\ Cardinality(UpTo(f, q)) \in Nat
               /\ Cardinality(UpTo(f, q)) <= Cardinality(First(f))
    BY <1>3, <1>4, FS_Subset, FS_CardinalityType
  <1> QED
    BY <1>1, <1>2, <1>3, <1>5

(* Two lines do not have the same number of lines before them.             *)
LEMMA RankUnique ==
  ASSUME NEW f \in Seq(Byte), NEW x \in First(f), NEW y \in First(f),
         Cardinality(Before(f, x)) = Cardinality(Before(f, y))
  PROVE  x = y
  <1>1. ASSUME NEW u \in First(f), NEW v \in First(f), u < v
        PROVE  Cardinality(Before(f, u)) # Cardinality(Before(f, v))
    <2>1. u \in Nat /\ v \in Nat /\ \A z \in First(f) : z \in Nat
      BY FirstFacts
    <2>2. Before(f, u) \in SUBSET Before(f, v) /\ u \in Before(f, v) /\ u \notin Before(f, u)
      <3>1. \A z \in First(f) : z < u => z < v
        BY <1>1, <2>1
      <3>2. u < v /\ ~(u < u)
        BY <1>1, <2>1
      <3> QED
        BY <3>1, <3>2 DEF Before
    <2>3. Before(f, v) \in SUBSET First(f)
      BY DEF Before
    <2>4. IsFiniteSet(Before(f, v))
      BY <2>3, FirstFacts, FS_Subset
    <2> QED
      BY <2>2, <2>4, FS_Subset
  <1>2. x \in Nat /\ y \in Nat
    BY FirstFacts
  <1>3. x < y \/ y < x \/ x = y
    BY <1>2
  <1> QED
    BY <1>1, <1>3

(* Newlines between two lines add nothing.                                 *)
LEMMA SkipDone ==
  ASSUME NEW f \in Seq(Byte), NEW ls, NEW q, Done(f, ls, q), NEW e \in q .. Len(f),
         \A i \in q + 1 .. e : f[i] = "newline"
  PROVE  Done(f, ls, e)
  <1>1. q \in Nat /\ e \in Nat /\ Len(f) \in Nat /\ q <= e
    BY DEF Done
  <1>2. UpTo(f, e) = UpTo(f, q)
    <2>1. ASSUME NEW y \in First(f), y <= e
          PROVE  y <= q
      <3>1. y \in Nat /\ f[y] # "newline"
        BY FirstFacts
      <3>2. ~(y \in q + 1 .. e)
        BY <3>1
      <3> QED
        BY <1>1, <2>1, <3>1, <3>2
    <2>2. ASSUME NEW y \in First(f), y <= q
          PROVE  y <= e
      BY <1>1, <2>2, FirstFacts
    <2> QED
      BY <2>1, <2>2 DEF UpTo
  <1>3. e = 0 \/ f[e] = "newline"
    <2>1. CASE e = q
      BY <2>1 DEF Done
    <2>2. CASE e # q
      BY <1>1, <2>2
    <2> QED
      BY <2>1, <2>2
  <1>4. Kept(f, ls, e)
    <2>1. \A i \in 1 .. e : f[i] # "newline" => i \in 1 .. q
      BY <1>1
    <2> QED
      BY <2>1 DEF Kept, Done
  <1> QED
    BY <1>1, <1>2, <1>3, <1>4 DEF Done

(* The line from one newline to the next.                                  *)
LEMMA RunIs ==
  ASSUME NEW f \in Seq(Byte), NEW x \in 1 .. Len(f), NEW e \in x + 1 .. Len(f),
         f[e] = "newline", \A i \in x .. e - 1 : f[i] # "newline"
  PROVE  RunFrom(f, x) = [m \in 1 .. e - x |-> x + m - 1]
  <1> DEFINE M == {k \in x .. Len(f) : \A m \in x .. k : f[m] # "newline"}
  <1>1. Len(f) \in Nat /\ x \in Nat /\ e \in Nat /\ M \in SUBSET (0 .. Len(f))
    OBVIOUS
  <1>2. e - 1 \in M
    BY <1>1
  <1>3. \A k \in M : k <= e - 1
    <2>1. SUFFICES ASSUME NEW k \in M, ~(k <= e - 1)
                   PROVE  FALSE
      OBVIOUS
    <2>2. e \in x .. k
      BY <1>1, <2>1
    <2> QED
      BY <2>1, <2>2
  <1>4. Max(M) \in M /\ e - 1 <= Max(M)
    <2> HIDE DEF M
    <2> QED
      BY <1>1, <1>2, MaxOf
  <1>5. Max(M) = e - 1
    <2>1. Max(M) \in Int /\ e - 1 \in Int /\ Max(M) <= e - 1 /\ e - 1 <= Max(M)
      BY <1>1, <1>3, <1>4
    <2> HIDE DEF M
    <2> QED
      BY <2>1
  <1>6. LastOf(f, x) = e - 1
    BY <1>5 DEF LastOf
  <1>7. LastOf(f, x) - x + 1 = e - x
    BY <1>1, <1>6
  <1> QED
    BY <1>7 DEF RunFrom

(* A line that ends with the newline at e is the next one to return.       *)
LEMMA LineDone ==
  ASSUME NEW f \in Seq(Byte), NEW ls \in Seq(Seq(Int)), NEW q, Done(f, ls, q),
         NEW e \in q + 2 .. Len(f), f[e] = "newline",
         \A i \in q + 1 .. e - 1 : f[i] # "newline"
  PROVE  /\ [m \in 1 .. e - (q + 1) |-> (q + 1) + m - 1] \in Seq(Int)
         /\ Done(f, Append(ls, [m \in 1 .. e - (q + 1) |-> (q + 1) + m - 1]), e)
  <1>1. PICK x, line : x = q + 1 /\ line = [m \in 1 .. e - x |-> x + m - 1]
    OBVIOUS
  <1>2. /\ q \in Nat /\ Len(f) \in Nat /\ e \in Nat /\ x \in 1 .. Len(f) /\ e \in x + 1 .. Len(f)
        /\ \A i \in x .. e - 1 : f[i] # "newline"
    BY <1>1 DEF Done
  <1>3. x \in First(f)
    <2>1. f[x] # "newline"
      BY <1>2
    <2>2. x = 1 \/ f[x - 1] = "newline"
      BY <1>1, <1>2 DEF Done
    <2> QED
      BY <1>2, <2>1, <2>2 DEF First
  <1>4. RunFrom(f, x) = line
    BY <1>1, <1>2, RunIs
  <1>5. line \in Seq(Int) /\ \A i \in x .. e - 1 : Contains(line, i)
    <2>1. e - x \in Nat /\ \A m \in 1 .. e - x : x + m - 1 \in Int
      BY <1>2
    <2>2. line \in [1 .. e - x -> Int]
      BY <1>1, <2>1
    <2>3. line \in Seq(Int) /\ Len(line) = e - x
      <3>1. PICK n \in Nat : n = e - x
        BY <2>1
      <3>2. line \in [1 .. n -> Int]
        BY <2>2, <3>1
      <3>3. line \in Seq(Int) /\ Len(line) = n
        BY ONLY <3>2, n \in Nat
      <3> QED
        BY <3>1, <3>3
    <2>4. ASSUME NEW i \in x .. e - 1
          PROVE  Contains(line, i)
      <3>1. i - x + 1 \in 1 .. e - x /\ x + (i - x + 1) - 1 = i
        BY <1>2
      <3>2. line[i - x + 1] = i
        BY <1>1, <3>1
      <3> QED
        BY <2>3, <3>1, <3>2 DEF Contains
    <2> QED
      BY <2>3, <2>4
  <1>6. Before(f, x) = UpTo(f, q)
    <2>1. \A y \in First(f) : y < x <=> y <= q
      BY <1>1, <1>2, FirstFacts
    <2> QED
      BY <2>1 DEF Before, UpTo
  <1>7. UpTo(f, e) = UpTo(f, q) \cup {x} /\ x \notin UpTo(f, q)
    <2>1. ASSUME NEW y \in First(f), y <= e, y # x
          PROVE  y <= q
      <3>1. y \in 1 .. Len(f) /\ f[y] # "newline" /\ (y = 1 \/ f[y - 1] = "newline")
        BY DEF First
      <3>2. ~(y - 1 \in x .. e - 1)
        BY <1>2, <3>1
      <3> QED
        BY <1>1, <1>2, <2>1, <3>1, <3>2
    <2>2. ASSUME NEW y \in First(f), y <= q
          PROVE  y <= e
      BY <1>1, <1>2, <2>2, FirstFacts
    <2>3. x <= e /\ ~(x <= q)
      BY <1>1, <1>2
    <2> QED
      BY <1>3, <2>1, <2>2, <2>3 DEF UpTo
  <1>8. Cardinality(UpTo(f, e)) = Cardinality(UpTo(f, q)) + 1
    BY <1>7, FirstFacts, FS_AddElement
  <1>9. PICK new : new = Append(ls, line)
    OBVIOUS
  <1>10. /\ new \in Seq(Seq(Int)) /\ Len(new) = Len(ls) + 1 /\ Len(ls) \in Nat
         /\ \A k \in 1 .. Len(ls) : new[k] = ls[k]
         /\ new[Len(ls) + 1] = line
    BY <1>5, <1>9
  <1>11. ASSUME NEW k \in 1 .. Len(new)
         PROVE  \E z \in First(f) : Cardinality(Before(f, z)) = k - 1 /\ new[k] = RunFrom(f, z)
    <2>1. CASE k \in 1 .. Len(ls)
      BY <1>10, <2>1 DEF Done
    <2>2. CASE k = Len(ls) + 1
      <3>1. Cardinality(Before(f, x)) = k - 1
        BY <1>6, <1>10, <2>2 DEF Done
      <3> QED
        BY <1>3, <1>4, <1>10, <2>2, <3>1
    <2> QED
      BY <1>10, <2>1, <2>2
  <1>12. Kept(f, new, e)
    <2>1. SUFFICES ASSUME NEW i \in 1 .. e, f[i] # "newline"
                   PROVE  \E k \in 1 .. Len(new) : Contains(new[k], i)
      BY DEF Kept
    <2>2. CASE i \in 1 .. q
      <3>1. PICK k \in 1 .. Len(ls) : Contains(ls[k], i)
        BY <2>1, <2>2 DEF Done, Kept
      <3>2. k \in 1 .. Len(new) /\ new[k] = ls[k]
        BY <1>10
      <3> QED
        BY <3>1, <3>2
    <2>3. CASE i \in x .. e - 1
      <3>1. Len(ls) + 1 \in 1 .. Len(new) /\ new[Len(ls) + 1] = line
        BY <1>10
      <3> QED
        BY <1>5, <2>3, <3>1
    <2>4. i = e \/ i \in 1 .. q \/ i \in x .. e - 1
      BY <1>1, <1>2
    <2> QED
      BY <2>1, <2>2, <2>3, <2>4
  <1>13. Len(new) = Cardinality(UpTo(f, e))
    BY <1>8, <1>10 DEF Done
  <1>14. Done(f, new, e)
    BY <1>2, <1>11, <1>12, <1>13 DEF Done
  <1> QED
    BY <1>1, <1>5, <1>9, <1>14

-----------------------------------------------------------------------------

(* The size of a buffer is the number of its cells.                        *)
LEMMA BufferSize ==
  ASSUME NEW n \in Nat, NEW X, NEW b \in [0 .. n - 1 -> X]
  PROVE  Cardinality(DOMAIN b) = n
  <1>1. DOMAIN b = 0 .. n - 1
    OBVIOUS
  <1>2. PICK m \in Int : m = n - 1
    OBVIOUS
  <1>3. Cardinality(0 .. m) = IF 0 > m THEN 0 ELSE m - 0 + 1
    BY FS_Interval
  <1>4. (IF 0 > m THEN 0 ELSE m - 0 + 1) = n
    BY <1>2
  <1> QED
    BY <1>1, <1>2, <1>3, <1>4

(* A cell with the position of a byte is no other kind of cell.            *)
LEMMA CellFacts ==
  ASSUME file \in Seq(Byte)
  PROVE  /\ DOMAIN file = 1 .. Len(file) /\ Len(file) \in Nat /\ Cell \subseteq Int
         /\ NUL \in Cell /\ Newline \in Cell /\ Junk \in Cell
         /\ \A p \in 1 .. Len(file) :
               /\ p \in Cell /\ p \notin {NUL, Junk}
               /\ IsNewline(p) <=> file[p] = "newline"
  <1>1. DOMAIN file = 1 .. Len(file) /\ Len(file) \in Nat
    OBVIOUS
  <1>2. ASSUME NEW p \in 1 .. Len(file)
        PROVE  p \notin {NUL, Junk, Newline}
    BY <1>1 DEF NUL, Junk, Newline
  <1> QED
    BY <1>1, <1>2 DEF Cell, IsNewline, NUL, Junk, Newline

(* Skipped stops at the first cell that is no newline, or at s.            *)
LEMMA SkippedFacts ==
  ASSUME NEW b, NEW s \in Nat, NEW r \in 0 .. s
  PROVE  /\ Skipped(b, s, r) \in r .. s
         /\ \A i \in r .. Skipped(b, s, r) - 1 : IsNewline(b[i])
         /\ Skipped(b, s, r) < s => ~IsNewline(b[Skipped(b, s, r)])
  <1> DEFINE S == {i \in r .. s : i = s \/ ~IsNewline(b[i])}
  <1>1. CASE r >= s
    BY <1>1 DEF Skipped
  <1>2. CASE ~(r >= s)
    <2>1. S \in SUBSET (0 .. s) /\ s \in S
      OBVIOUS
    <2>2. Skipped(b, s, r) = Min(S)
      BY <1>2 DEF Skipped
    <2>3. Min(S) \in S /\ \A y \in S : Min(S) <= y
      <3> HIDE DEF S
      <3> QED
        BY <2>1, MinOf
    <2>4. PICK m \in S : m = Skipped(b, s, r) /\ \A y \in S : m <= y
      BY <2>2, <2>3
    <2>5. ASSUME NEW i \in r .. m - 1
          PROVE  IsNewline(b[i])
      <3>1. i \in r .. s /\ ~(m <= i)
        OBVIOUS
      <3>2. i \notin S
        BY <2>4, <3>1
      <3> QED
        BY <3>1, <3>2
    <2>6. m < s => ~IsNewline(b[m])
      OBVIOUS
    <2> QED
      BY <2>4, <2>5, <2>6
  <1> QED
    BY <1>1, <1>2

(* The string at the front of the buffer: all up to the first NUL, and     *)
(* whatever cells come before the first that may end it.                   *)
LEMMA StringFacts ==
  ASSUME file \in Seq(Byte), NEW n \in Nat, NEW b \in [0 .. n - 1 -> Cell], NEW k \in 0 .. n,
         \A i \in 0 .. k - 1 : b[i] \notin {NUL, Junk}
  PROVE  /\ StringAt(b) \in Seq(Int)
         /\ \A i \in 0 .. k - 1 : Contains(StringAt(b), b[i])
         /\ k < n /\ b[k] = NUL => StringAt(b) = [i \in 1 .. k |-> b[i - 1]]
  <1> DEFINE stops == {i \in DOMAIN b : b[i] \in {NUL, Junk}}
             z == IF stops = {} THEN Cardinality(DOMAIN b) ELSE Min(stops)
  <1>1. DOMAIN b = 0 .. n - 1 /\ Cardinality(DOMAIN b) = n
    BY BufferSize
  <1>2. stops \in SUBSET (0 .. n) /\ \A i \in stops : i \in 0 .. n - 1 /\ ~(i < k)
    BY <1>1
  <1>3. z \in k .. n /\ (k < n /\ b[k] = NUL => z = k)
    <2>1. CASE stops = {}
      <3>1. z = n
        BY <1>1, <2>1
      <3>2. k < n => k \in DOMAIN b
        BY <1>1
      <3> QED
        BY <2>1, <3>1, <3>2
    <2>2. CASE stops # {}
      <3>1. z = Min(stops)
        BY <2>2
      <3>2. z \in stops /\ \A y \in stops : z <= y
        <4> HIDE DEF stops, z
        <4> QED
          BY <1>2, <2>2, <3>1, MinOf
      <3>3. z \in 0 .. n - 1 /\ ~(z < k)
        BY <1>2, <3>2
      <3>4. k < n /\ b[k] = NUL => k \in stops
        BY <1>1
      <3> HIDE DEF stops, z
      <3> QED
        BY <3>2, <3>3, <3>4
    <2> QED
      BY <2>1, <2>2
  <1>4. StringAt(b) = [i \in 1 .. z |-> b[i - 1]]
    BY DEF StringAt
  <1> HIDE DEF z
  <1>5. \A i \in 1 .. z : b[i - 1] \in Int
    <2>1. \A i \in 1 .. z : i - 1 \in 0 .. n - 1
      BY <1>3
    <2> QED
      BY <2>1, CellFacts
  <1>6. StringAt(b) \in Seq(Int) /\ Len(StringAt(b)) = z
    <2>1. PICK str : str = StringAt(b) /\ str \in [1 .. z -> Int]
      BY <1>4, <1>5
    <2>2. z \in Nat
      BY <1>3
    <2>3. str \in Seq(Int) /\ Len(str) = z
      BY ONLY <2>1, <2>2
    <2> QED
      BY <2>1, <2>3
  <1>7. ASSUME NEW i \in 0 .. k - 1
        PROVE  Contains(StringAt(b), b[i])
    <2>1. i + 1 \in 1 .. z /\ i + 1 - 1 = i
      BY <1>3
    <2>2. StringAt(b)[i + 1] = b[i]
      BY <1>4, <2>1
    <2> QED
      BY <1>6, <2>1, <2>2 DEF Contains
  <1> QED
    BY <1>3, <1>4, <1>6, <1>7

(* check_for_line, when there is a line: it is moved to the front.         *)
LineAt(b, n, s, r, start, end) ==
    /\ start \in r .. s - 1 /\ end \in start + 1 .. s - 1
    /\ \A i \in r .. start - 1 : IsNewline(b[i])
    /\ \A i \in start .. end - 1 : ~IsNewline(b[i])
    /\ IsNewline(b[end])
    /\ buf' \in [0 .. n - 1 -> Cell]
    /\ \A i \in 0 .. s - start - 1 : buf'[i] = IF i = end - start THEN NUL ELSE b[i + start]
    /\ b_stored' = s - start
    /\ l_ret' = end - start + 1
    /\ lines' = Append(lines, StringAt(buf'))

(* A line that was found lies between two places of the buffer.            *)
LEMMA LineFoundFacts ==
  ASSUME file \in Seq(Byte), NEW n \in Nat, NEW b \in [0 .. n - 1 -> Cell],
         NEW s \in 0 .. n - 1, NEW r \in 0 .. s, LineFound(b, s, r)
  PROVE  \E start, end : LineAt(b, n, s, r, start, end)
  <1> DEFINE E == LineEnds(b, s, r)
  <1>0. s \in Nat /\ r \in 0 .. s
    OBVIOUS
  <1>1. PICK start : start = Skipped(b, s, r)
    OBVIOUS
  <1>2. /\ start \in r .. s /\ \A i \in r .. start - 1 : IsNewline(b[i])
        /\ start < s => ~IsNewline(b[start])
    BY <1>0, <1>1, SkippedFacts
  <1>3. E = {i \in start .. s - 1 : IsNewline(b[i])} /\ E # {}
    BY <1>1 DEF LineEnds, LineFound
  <1>4. E \in SUBSET (0 .. s)
    BY <1>2, <1>3
  <1>5. PICK end \in E : end = Min(E) /\ \A y \in E : end <= y
    <2>1. E # {} /\ s \in Nat
      BY <1>0, <1>3
    <2> HIDE DEF E
    <2>2. Min(E) \in E /\ \A y \in E : Min(E) <= y
      BY <1>4, <2>1, MinOf
    <2> QED
      BY <2>2
  <1>6. end \in start .. s - 1 /\ IsNewline(b[end])
    BY <1>3
  <1>7. start \in r .. s - 1 /\ end \in start + 1 .. s - 1
    <2>1. start < s
      BY <1>2, <1>6
    <2>2. end # start
      BY <1>2, <1>6, <2>1
    <2> QED
      BY <1>2, <1>6, <2>1, <2>2
  <1>8. ASSUME NEW i \in start .. end - 1
        PROVE  ~IsNewline(b[i])
    <2>1. i \in start .. s - 1 /\ ~(end <= i)
      BY <1>7
    <2>2. i \notin E
      BY <1>5, <2>1
    <2> QED
      BY <1>3, <2>1, <2>2
  <1>9. PICK c1, moved : c1 = [b EXCEPT ![end] = NUL] /\ moved = MoveDown(c1, start, s - start)
    OBVIOUS
  <1>10. /\ buf' = moved /\ b_stored' = s - start /\ l_ret' = end - start + 1
         /\ lines' = Append(lines, StringAt(moved))
    BY <1>1, <1>5, <1>9 DEF LineFound, Rest
  <1>11. c1 \in [0 .. n - 1 -> Cell] /\ \A i \in 0 .. n - 1 : c1[i] = IF i = end THEN NUL ELSE b[i]
    BY <1>9, CellFacts
  <1>12. moved = [i \in 0 .. n - 1 |-> IF i < s - start THEN c1[i + start] ELSE c1[i]]
    BY <1>9, <1>11 DEF MoveDown
  <1>13. moved \in [0 .. n - 1 -> Cell]
    <2>1. ASSUME NEW i \in 0 .. n - 1, i < s - start
          PROVE  i + start \in 0 .. n - 1
      BY <1>7, <2>1
    <2> QED
      BY <1>11, <1>12, <2>1
  <1>14. ASSUME NEW i \in 0 .. s - start - 1
         PROVE  moved[i] = IF i = end - start THEN NUL ELSE b[i + start]
    <2>1. i \in 0 .. n - 1 /\ i < s - start /\ i + start \in 0 .. n - 1
          /\ (i + start = end <=> i = end - start)
      BY <1>7
    <2>2. moved[i] = c1[i + start]
      BY <1>12, <2>1
    <2> QED
      BY <1>11, <2>1, <2>2
  <1> HIDE DEF E
  <1> QED
    BY <1>1, <1>2, <1>6, <1>7, <1>8, <1>10, <1>13, <1>14 DEF LineAt

(* The line returned is the next one of the file.                          *)
LEMMA LineKeeps ==
  ASSUME file \in Seq(Byte), lines \in Seq(Seq(Int)), NEW n \in Nat,
         NEW b \in [0 .. n - 1 -> Cell], NEW s \in 0 .. n - 1, NEW r \in 0 .. s,
         NEW p \in s .. Len(file), Cells(b, s, r, p), \A i \in 0 .. s - 1 : b[i] # Junk,
         Done(file, lines, p - s + r), LineFound(b, s, r), file' = file, pos' = p
  PROVE  /\ buf' \in [0 .. n - 1 -> Cell]
         /\ b_stored' \in 0 .. n - 1 /\ l_ret' \in 0 .. b_stored'
         /\ \A i \in 0 .. b_stored' - 1 : buf'[i] # Junk
         /\ lines' \in Seq(Seq(Int))
         /\ Reading'
  <1>0. PICK start, end : LineAt(b, n, s, r, start, end)
    BY LineFoundFacts
  <1>1. /\ start \in r .. s - 1 /\ end \in start + 1 .. s - 1
        /\ \A i \in r .. start - 1 : IsNewline(b[i])
        /\ \A i \in start .. end - 1 : ~IsNewline(b[i])
        /\ IsNewline(b[end])
        /\ buf' \in [0 .. n - 1 -> Cell]
        /\ \A i \in 0 .. s - start - 1 : buf'[i] = IF i = end - start THEN NUL ELSE b[i + start]
        /\ b_stored' = s - start
        /\ l_ret' = end - start + 1
        /\ lines' = Append(lines, StringAt(buf'))
    BY <1>0 DEF LineAt
  <1>2. PICK o \in Nat : o = p - s
    OBVIOUS
  <1>3. PICK q, e : q = o + start /\ e = o + end + 1
    OBVIOUS
  <1>4. /\ s \in Nat /\ r \in Nat /\ start \in Nat /\ end \in Nat /\ q \in Nat /\ e \in Nat
        /\ p \in Nat /\ Len(file) \in Nat /\ r <= start /\ start < end /\ end < s
        /\ s <= p /\ p <= Len(file) /\ p = o + s
    BY <1>1, <1>2, <1>3
  <1>5. ASSUME NEW i \in r .. s - 1
        PROVE  /\ b[i] = o + i + 1 /\ o + i + 1 \in 1 .. Len(file)
               /\ b[i] \notin {NUL, Junk}
               /\ IsNewline(b[i]) <=> file[o + i + 1] = "newline"
    <2>1. b[i] = o + i + 1
      BY <1>2, <1>4 DEF Cells
    <2>2. o + i + 1 \in 1 .. Len(file)
      BY <1>4
    <2> QED
      BY <2>1, <2>2, CellFacts
  <1>6. Done(file, lines, q)
    <2>1. Done(file, lines, o + r) /\ q \in o + r .. Len(file)
      BY <1>2, <1>3, <1>4
    <2>2. ASSUME NEW j \in o + r + 1 .. q
          PROVE  file[j] = "newline"
      <3>1. PICK i \in r .. start - 1 : j = o + i + 1
        <4>1. j - o - 1 \in r .. start - 1 /\ j = o + (j - o - 1) + 1
          BY <1>3, <1>4
        <4> QED
          BY <4>1
      <3>2. i \in r .. s - 1
        BY <1>4
      <3> QED
        BY <1>1, <1>5, <3>1, <3>2
    <2> QED
      BY <2>1, <2>2, SkipDone
  <1>7. e \in q + 2 .. Len(file) /\ file[e] = "newline"
    <2>1. end \in r .. s - 1
      BY <1>4
    <2> QED
      BY <1>1, <1>3, <1>4, <1>5, <2>1
  <1>8. ASSUME NEW j \in q + 1 .. e - 1
        PROVE  file[j] # "newline"
    <2>1. PICK i \in start .. end - 1 : j = o + i + 1
      <3>1. j - o - 1 \in start .. end - 1 /\ j = o + (j - o - 1) + 1
        BY <1>3, <1>4
      <3> QED
        BY <3>1
    <2>2. i \in r .. s - 1
      BY <1>4
    <2> QED
      BY <1>1, <1>5, <2>1, <2>2
  <1>9. PICK line : line = [m \in 1 .. e - (q + 1) |-> (q + 1) + m - 1]
    OBVIOUS
  <1>10. line \in Seq(Int) /\ Done(file, Append(lines, line), e)
    <2>1. /\ [m \in 1 .. e - (q + 1) |-> (q + 1) + m - 1] \in Seq(Int)
          /\ Done(file, Append(lines, [m \in 1 .. e - (q + 1) |-> (q + 1) + m - 1]), e)
      BY <1>6, <1>7, <1>8, LineDone
    <2> QED
      BY <1>9, <2>1
  <1>11. PICK moved : moved = buf'
    OBVIOUS
  <1>12. /\ moved \in [0 .. n - 1 -> Cell]
         /\ \A i \in 0 .. s - start - 1 : moved[i] = IF i = end - start THEN NUL ELSE b[i + start]
    BY <1>1, <1>11
  <1>13. StringAt(moved) = line
    <2>1. PICK k : k = end - start
      OBVIOUS
    <2>2. k \in 0 .. n /\ k < n /\ k \in 0 .. s - start - 1 /\ n \in Nat
      BY <1>4, <2>1
    <2>3. ASSUME NEW i \in 0 .. k - 1
          PROVE  moved[i] = o + start + i + 1 /\ moved[i] \notin {NUL, Junk}
      <3>1. i \in 0 .. s - start - 1 /\ i # end - start /\ i + start \in r .. s - 1
        BY <1>4, <2>1
      <3>2. moved[i] = b[i + start] /\ o + (i + start) + 1 = o + start + i + 1
        BY <1>4, <1>12, <3>1
      <3> QED
        BY <1>5, <3>1, <3>2
    <2>4. moved[k] = NUL
      BY <1>12, <2>1, <2>2
    <2>5. StringAt(moved) = [i \in 1 .. k |-> moved[i - 1]]
      <3>1. moved \in [0 .. n - 1 -> Cell] /\ file \in Seq(Byte)
        BY <1>12
      <3>2. \A i \in 0 .. k - 1 : moved[i] \notin {NUL, Junk}
        BY <2>3
      <3>3. n \in Nat /\ k \in 0 .. n /\ k < n
        BY <2>2
      <3> QED
        BY <2>4, <3>1, <3>2, <3>3, StringFacts
    <2>6. \A i \in 1 .. k : moved[i - 1] = (q + 1) + i - 1
      <3>1. SUFFICES ASSUME NEW i \in 1 .. k
                     PROVE  moved[i - 1] = (q + 1) + i - 1
        OBVIOUS
      <3>2. PICK j \in 0 .. k - 1 : j = i - 1
        BY <2>2
      <3> QED
        BY <1>3, <1>4, <2>3, <3>2
    <2>7. e - (q + 1) = k
      BY <1>3, <1>4, <2>1
    <2> QED
      BY <1>9, <2>5, <2>6, <2>7
  <1>14. lines' = Append(lines, line)
    BY <1>1, <1>11, <1>13
  <1>15. \A i \in 0 .. s - start - 1 : moved[i] # Junk
    <2>1. SUFFICES ASSUME NEW i \in 0 .. s - start - 1
                   PROVE  moved[i] # Junk
      OBVIOUS
    <2>2. i + start \in 0 .. s - 1
      BY <1>4
    <2>3. moved[i] = NUL \/ moved[i] = b[i + start]
      BY <1>12
    <2>4. b[i + start] # Junk /\ NUL # Junk
      BY <2>2 DEF NUL, Junk
    <2> QED
      BY <2>3, <2>4
  <1>16. Cells(moved, s - start, end - start + 1, p)
    <2>1. SUFFICES ASSUME NEW i \in end - start + 1 .. s - start - 1
                   PROVE  moved[i] = p - (s - start) + i + 1
      BY DEF Cells
    <2>2. i \in 0 .. s - start - 1 /\ i # end - start /\ i + start \in r .. s - 1
      BY <1>4
    <2>3. moved[i] = o + (i + start) + 1
      BY <1>5, <1>12, <2>2
    <2> QED
      BY <1>4, <2>2, <2>3
  <1>17. p - (s - start) + (end - start + 1) = e
    BY <1>3, <1>4
  <1>18. Reading'
    <2>1. b_stored' = s - start /\ l_ret' = end - start + 1 /\ buf' = moved /\ pos' = p
          /\ file' = file
      BY <1>1, <1>11
    <2>2. b_stored' <= pos'
      BY <1>4, <2>1
    <2>3. Cells(buf', b_stored', l_ret', pos')
      BY <1>16, <2>1
    <2>4. Done(file', lines', pos' - b_stored' + l_ret')
      BY <1>10, <1>14, <1>17, <2>1
    <2> QED
      BY <2>2, <2>3, <2>4 DEF Reading
  <1>19. b_stored' \in 0 .. n - 1 /\ l_ret' \in 0 .. b_stored'
    BY <1>1, <1>4
  <1>20. lines' \in Seq(Seq(Int))
    BY <1>10, <1>14
  <1>21. \A i \in 0 .. b_stored' - 1 : buf'[i] # Junk
    BY <1>1, <1>11, <1>15
  <1> QED
    BY <1>1, <1>18, <1>19, <1>20, <1>21

-----------------------------------------------------------------------------

(* What Typed says of each variable.                                       *)
LEMMA TypedFacts ==
  ASSUME Typed
  PROVE  /\ file \in Seq(Byte) /\ lines \in Seq(Seq(Int))
         /\ b_alloc \in Nat /\ buf \in [0 .. b_alloc - 1 -> Cell]
         /\ b_stored \in 0 .. b_alloc - 1 /\ l_ret \in 0 .. b_stored
         /\ \A i \in 0 .. b_stored - 1 : buf[i] # Junk
         /\ pos \in 0 .. Len(file) /\ Len(file) \in Nat
         /\ pc \in {"call", "read", "end"} /\ eof \in BOOLEAN
  BY CellFacts DEF Typed, TypeOK, Cell

(* What the next state has to be to be Typed.                              *)
LEMMA TypedNext ==
  ASSUME file \in Seq(Byte), file' = file, lines' \in Seq(Seq(Int)),
         NEW n \in Nat, buf' \in [0 .. n - 1 -> Cell],
         b_stored' \in 0 .. n - 1, l_ret' \in 0 .. b_stored',
         \A i \in 0 .. b_stored' - 1 : buf'[i] # Junk,
         pos' \in 0 .. Len(file), pc' \in {"call", "read", "end"}, eof' \in BOOLEAN
  PROVE  Typed'
  <1>1. b_alloc' = n
    <2>1. PICK b \in [0 .. n - 1 -> Cell] : b = buf'
      OBVIOUS
    <2>2. Cardinality(DOMAIN b) = n
      BY BufferSize
    <2> QED
      BY <2>1, <2>2 DEF b_alloc
  <1>2. buf' \in [0 .. n - 1 -> {NUL, Newline, Junk} \cup DOMAIN file']
    BY DEF Cell
  <1> QED
    BY <1>1, <1>2 DEF Typed, TypeOK

(* What is a newline does not change with the reader's state.              *)
LEMMA NewlineStays ==
  ASSUME file' = file
  PROVE  /\ \A p : IsNewline(p)' <=> IsNewline(p)
         /\ \A b, s, r : LineEnds(b, s, r)' = LineEnds(b, s, r)
  BY DEF LineEnds, Skipped, IsNewline

(* After the newlines are skipped there is none to skip.                   *)
LEMMA SkippedTwice ==
  ASSUME NEW b, NEW s \in Nat, NEW r \in 0 .. s, LineEnds(b, s, r) = {}
  PROVE  /\ LineEnds(b, s, Skipped(b, s, r)) = {}
         /\ \A i \in Skipped(b, s, r) .. s - 1 : ~IsNewline(b[i])
  <1>1. PICK z : z = Skipped(b, s, r)
    OBVIOUS
  <1>2. z \in r .. s /\ z \in 0 .. s
    <2>1. z \in r .. s
      BY <1>1, SkippedFacts
    <2> QED
      BY <2>1
  <1>3. \A i \in z .. s - 1 : ~IsNewline(b[i])
    BY <1>1 DEF LineEnds
  <1>4. Skipped(b, s, z) \in z .. s
    BY <1>2, SkippedFacts
  <1>5. \A i \in Skipped(b, s, z) .. s - 1 : i \in z .. s - 1
    BY <1>2, <1>4
  <1> QED
    BY <1>1, <1>3, <1>5 DEF LineEnds

(* Without a newline there is no line.                                     *)
LEMMA NoLine ==
  ASSUME NEW b, NEW s \in Nat, NEW r \in 0 .. s, \A i \in r .. s - 1 : ~IsNewline(b[i])
  PROVE  LineEnds(b, s, r) = {}
  <1>1. Skipped(b, s, r) \in r .. s
    BY SkippedFacts
  <1>2. \A i \in Skipped(b, s, r) .. s - 1 : i \in r .. s - 1
    BY <1>1
  <1> QED
    BY <1>2 DEF LineEnds

(* The newlines of the buffer that are skipped are those of the file.      *)
LEMMA SkippedDone ==
  ASSUME file \in Seq(Byte), NEW ls, NEW b, NEW s \in Nat, NEW r \in 0 .. s, NEW p \in s .. Len(file),
         Cells(b, s, r, p), Done(file, ls, p - s + r)
  PROVE  /\ Done(file, ls, p - s + Skipped(b, s, r))
         /\ \A i \in r .. s - 1 : p - s + i + 1 \in 1 .. Len(file)
                                  /\ (IsNewline(b[i]) <=> file[p - s + i + 1] = "newline")
  <1>1. PICK z : z = Skipped(b, s, r)
    OBVIOUS
  <1>2. z \in r .. s /\ \A i \in r .. z - 1 : IsNewline(b[i])
    BY <1>1, SkippedFacts
  <1>3. PICK o \in Nat : o = p - s
    OBVIOUS
  <1>4. Len(file) \in Nat /\ p \in Nat /\ p = o + s /\ z \in Nat /\ r \in Nat
    BY <1>2, <1>3
  <1>5. ASSUME NEW i \in r .. s - 1
        PROVE  o + i + 1 \in 1 .. Len(file) /\ (IsNewline(b[i]) <=> file[o + i + 1] = "newline")
    <2>1. o + i + 1 \in 1 .. Len(file)
      BY <1>4
    <2>2. b[i] = o + i + 1
      BY <1>3, <1>4 DEF Cells
    <2> QED
      BY <2>1, <2>2, CellFacts
  <1>6. ASSUME NEW j \in o + r + 1 .. o + z
        PROVE  file[j] = "newline"
    <2>1. PICK i \in r .. z - 1 : j = o + i + 1
      <3>1. j - o - 1 \in r .. z - 1 /\ j = o + (j - o - 1) + 1
        BY <1>4
      <3> QED
        BY <3>1
    <2>2. i \in r .. s - 1
      BY <1>2
    <2> QED
      BY <1>2, <1>5, <2>1, <2>2
  <1>7. o + z \in o + r .. Len(file)
    BY <1>2, <1>4
  <1>8. Done(file, ls, o + z)
    <2>1. Done(file, ls, o + r)
      BY <1>3
    <2> QED
      BY <1>6, <1>7, <2>1, SkipDone
  <1> QED
    BY <1>1, <1>3, <1>5, <1>8

(* What a read leaves in the buffer, which grows when it is full.          *)
LEMMA AfterReadFacts ==
  ASSUME Typed, b_stored <= pos, Cells(buf, b_stored, 0, pos)
  PROVE  /\ nr \in Nat /\ pos + nr \in b_stored + nr .. Len(file)
         /\ nr = 0 => pos = Len(file)
         /\ \E n \in Nat :
               /\ AfterRead \in [0 .. n - 1 -> Cell]
               /\ b_stored + nr \in 0 .. n - 1
         /\ \A i \in 0 .. b_stored + nr - 1 : AfterRead[i] # Junk
         /\ \A i \in 0 .. b_stored - 1 : AfterRead[i] = buf[i]
         /\ Cells(AfterRead, b_stored + nr, 0, pos + nr)
  <1>1. PICK n, s, p : n = b_alloc /\ s = b_stored /\ p = pos
    OBVIOUS
  <1>2. /\ n \in Nat /\ s \in 0 .. n - 1 /\ p \in s .. Len(file) /\ Len(file) \in Nat
        /\ buf \in [0 .. n - 1 -> Cell] /\ file \in Seq(Byte) /\ DOMAIN buf = 0 .. n - 1
        /\ \A i \in 0 .. s - 1 : buf[i] = p - s + i + 1 /\ buf[i] # Junk
    BY <1>1, TypedFacts DEF Cells
  <1>3. nr \in Nat /\ nr <= Len(file) - p /\ nr <= n - s /\ (nr = Len(file) - p \/ nr = n - s)
    <2> DEFINE S == {Len(file) - p, n - s}
    <2>1. Len(file) - p \in Nat /\ n - s \in Nat /\ Len(file) + n \in Nat
      BY <1>2
    <2>2. S \in SUBSET (0 .. Len(file) + n) /\ S # {}
      BY <1>2, <2>1
    <2>3. Min(S) \in S /\ \A y \in S : Min(S) <= y
      <3> HIDE DEF S
      <3> QED
        BY <2>1, <2>2, MinOf
    <2>4. nr = Min(S)
      BY <1>1 DEF nr
    <2> HIDE DEF nr
    <2> QED
      BY <2>1, <2>3, <2>4
  <1>4. PICK d \in Nat : d = nr
    BY <1>3
  <1>5. PICK fl : fl = Filled
    OBVIOUS
  <1>6. fl = [i \in 0 .. n - 1 |-> IF i \in s .. s + d - 1 THEN p + 1 + i - s ELSE buf[i]]
    BY <1>1, <1>2, <1>4, <1>5 DEF Filled
  <1>7. fl \in [0 .. n - 1 -> Cell]
    <2>1. ASSUME NEW i \in s .. s + d - 1
          PROVE  p + 1 + i - s \in Cell
      <3>1. p + 1 + i - s \in 1 .. Len(file)
        BY <1>2, <1>3, <1>4
      <3> QED
        BY <1>2, <3>1, CellFacts
    <2> QED
      BY <1>2, <1>6, <2>1
  <1>8. ASSUME NEW i \in 0 .. s + d - 1
        PROVE  /\ i \in 0 .. n - 1 /\ fl[i] = p - s + i + 1 /\ fl[i] # Junk
               /\ i < s => fl[i] = buf[i]
    <2>1. i \in 0 .. n - 1
      BY <1>2, <1>3, <1>4
    <2>2. CASE i < s
      <3>1. i \in 0 .. s - 1 /\ ~(i \in s .. s + d - 1)
        BY <1>2, <2>2
      <3> QED
        BY <1>2, <1>6, <2>1, <3>1
    <2>3. CASE ~(i < s)
      <3>1. i \in s .. s + d - 1
        BY <1>2, <2>3
      <3>2. fl[i] = p + 1 + i - s
        BY <1>6, <2>1, <3>1
      <3> QED
        BY <1>2, <2>1, <2>3, <3>1, <3>2 DEF Junk
    <2> QED
      BY <2>2, <2>3
  <1>9. PICK b : b = AfterRead
    OBVIOUS
  <1>10. \E m \in Nat : b \in [0 .. m - 1 -> Cell] /\ s + d \in 0 .. m - 1
                        /\ \A i \in 0 .. n - 1 : b[i] = fl[i]
    <2>1. CASE s + d = n
      <3>1. b = Grown(fl)
        BY <1>1, <1>4, <1>5, <1>9, <2>1 DEF AfterRead
      <3>2. DOMAIN fl = 0 .. n - 1 /\ Cardinality(DOMAIN fl) = n
        BY <1>2, <1>7, BufferSize
      <3>3. PICK m \in Nat : m = n + CONF_BUF_INC /\ n < m
        BY <1>2, ReaderAssumption
      <3>4. b = [i \in 0 .. m - 1 |-> IF i \in 0 .. n - 1 THEN fl[i] ELSE Junk]
        <4>1. b = [i \in 0 .. Cardinality(DOMAIN fl) + CONF_BUF_INC - 1 |->
                     IF i \in DOMAIN fl THEN fl[i] ELSE Junk]
          BY <3>1 DEF Grown
        <4>2. Cardinality(DOMAIN fl) + CONF_BUF_INC - 1 = m - 1
          BY <1>2, <3>2, <3>3, ReaderAssumption
        <4> QED
          BY <3>2, <4>1, <4>2
      <3>5. b \in [0 .. m - 1 -> Cell]
        BY <1>2, <1>7, <3>4, CellFacts
      <3>6. \A i \in 0 .. n - 1 : i \in 0 .. m - 1
        BY <1>2, <3>3
      <3>7. s + d \in 0 .. m - 1
        BY <1>2, <2>1, <3>3
      <3> QED
        BY <3>4, <3>5, <3>6, <3>7
    <2>2. CASE s + d # n
      <3>1. b = fl
        BY <1>1, <1>4, <1>5, <1>9, <2>2 DEF AfterRead
      <3>2. s + d \in 0 .. n - 1
        BY <1>2, <1>3, <1>4, <2>2
      <3> QED
        BY <1>2, <1>7, <3>1, <3>2
    <2> QED
      BY <2>1, <2>2
  <1>11. PICK m \in Nat : b \in [0 .. m - 1 -> Cell] /\ s + d \in 0 .. m - 1
                          /\ \A i \in 0 .. n - 1 : b[i] = fl[i]
    BY <1>10
  <1>12. \A i \in 0 .. s + d - 1 : b[i] = p - s + i + 1 /\ b[i] # Junk /\ (i < s => b[i] = buf[i])
    BY <1>8, <1>11
  <1>13. \A i \in 0 .. s - 1 : b[i] = buf[i]
    <2>1. \A i \in 0 .. s - 1 : i \in 0 .. s + d - 1 /\ i < s
      BY <1>2
    <2> QED
      BY <1>12, <2>1
  <1>14. Cells(b, s + d, 0, p + d)
    <2>1. PICK s1 \in Nat, p1 \in Nat : s1 = s + d /\ p1 = p + d /\ p1 - s1 = p - s
      BY <1>2
    <2>2. \A i \in 0 .. s1 - 1 : b[i] = p1 - s1 + i + 1
      BY <1>2, <1>12, <2>1
    <2>3. Cells(b, s1, 0, p1)
      BY <2>2 DEF Cells
    <2> QED
      BY <2>1, <2>3
  <1>15. p + d \in s + d .. Len(file) /\ (d = 0 => p = Len(file))
    BY <1>2, <1>3, <1>4
  <1> QED
    BY <1>1, <1>4, <1>9, <1>11, <1>12, <1>13, <1>14, <1>15

-----------------------------------------------------------------------------

(* Another line of the buffer keeps the invariant.                         *)
LEMMA NextInBufferKeeps ==
  ASSUME ReaderInv, NextInBuffer
  PROVE  ReaderInv'
  <1>1. Typed /\ pc = "call" /\ LineFound(buf, b_stored, l_ret)
        /\ file' = file /\ pos' = pos /\ eof' = eof /\ pc' = pc
    BY DEF ReaderInv, NextInBuffer
  <1>2. eof = FALSE /\ Reading
    <2>1. eof \in BOOLEAN /\ (eof => LineEnds(buf, b_stored, l_ret) = {})
      BY <1>1, TypedFacts DEF ReaderInv, AtEnd
    <2>2. LineEnds(buf, b_stored, l_ret) # {}
      BY <1>1 DEF LineFound
    <2> QED
      BY <2>1, <2>2 DEF ReaderInv
  <1>size. PICK n \in Nat : n = b_alloc
    BY <1>1, TypedFacts
  <1>3. PICK s, r, p, b : n = b_alloc /\ s = b_stored /\ r = l_ret /\ p = pos /\ b = buf
    BY <1>size
  <1>4. /\ file \in Seq(Byte) /\ lines \in Seq(Seq(Int)) /\ b \in [0 .. n - 1 -> Cell]
        /\ s \in 0 .. n - 1 /\ r \in 0 .. s /\ p \in 0 .. Len(file) /\ Len(file) \in Nat
        /\ \A i \in 0 .. s - 1 : b[i] # Junk
        /\ Cells(b, s, r, p) /\ s <= p /\ Done(file, lines, p - s + r)
        /\ LineFound(b, s, r) /\ pos' = p
    BY <1>1, <1>2, <1>3, TypedFacts DEF Reading
  <1>5. p \in s .. Len(file)
    BY <1>4
  <1>6. /\ buf' \in [0 .. n - 1 -> Cell]
        /\ b_stored' \in 0 .. n - 1 /\ l_ret' \in 0 .. b_stored'
        /\ \A i \in 0 .. b_stored' - 1 : buf'[i] # Junk
        /\ lines' \in Seq(Seq(Int))
        /\ Reading'
    BY <1>1, <1>4, <1>5, LineKeeps
  <1>7. Typed'
    BY <1>1, <1>2, <1>4, <1>6, TypedNext
  <1> QED
    BY <1>1, <1>2, <1>6, <1>7 DEF ReaderInv

(* So does the call that finds nothing left.                               *)
LEMMA NothingMoreKeeps ==
  ASSUME ReaderInv, NothingMore
  PROVE  ReaderInv'
  <1>1. /\ Typed /\ eof /\ AtEnd /\ LineEnds(buf, b_stored, l_ret) = {}
        /\ l_ret' = Skipped(buf, b_stored, l_ret) /\ pc' = "end"
        /\ file' = file /\ pos' = pos /\ buf' = buf /\ b_stored' = b_stored /\ eof' = eof
        /\ lines' = lines
    BY DEF ReaderInv, NothingMore
  <1>size. PICK n \in Nat : n = b_alloc
    BY <1>1, TypedFacts
  <1>2. PICK s, r, b : n = b_alloc /\ s = b_stored /\ r = l_ret /\ b = buf
    BY <1>size
  <1>3. s \in Nat /\ s \in 0 .. n - 1 /\ r \in 0 .. s
    BY <1>1, <1>2, TypedFacts
  <1>4. Skipped(b, s, r) \in r .. s /\ LineEnds(b, s, Skipped(b, s, r)) = {}
    BY <1>1, <1>2, <1>3, SkippedFacts, SkippedTwice
  <1>5. l_ret' \in 0 .. s
    BY <1>1, <1>2, <1>3, <1>4
  <1>6. Typed'
    BY <1>1, <1>2, <1>5, TypedFacts, TypedNext
  <1>7. LineEnds(buf, b_stored, l_ret)' = {}
    <2>1. PICK z : z = l_ret' /\ z = Skipped(b, s, r)
      BY <1>1, <1>2
    <2>2. LineEnds(b, s, z)' = {}
      BY <1>1, <1>4, <2>1, NewlineStays
    <2> QED
      BY <1>1, <1>2, <2>1, <2>2 DEF LineEnds, Skipped, IsNewline
  <1>8. AtEnd'
    BY <1>1, <1>7 DEF AtEnd, EndsWell
  <1> QED
    BY <1>1, <1>6, <1>8 DEF ReaderInv

(* So does the rest of the buffer moved to its front.                      *)
LEMMA MoveToFrontKeeps ==
  ASSUME ReaderInv, MoveToFront
  PROVE  ReaderInv'
  <1>1. /\ Typed /\ eof = FALSE /\ Reading /\ LineEnds(buf, b_stored, l_ret) = {}
        /\ buf' = MoveDown(buf, Skipped(buf, b_stored, l_ret),
                           b_stored - Skipped(buf, b_stored, l_ret))
        /\ b_stored' = b_stored - Skipped(buf, b_stored, l_ret)
        /\ l_ret' = 0 /\ pc' = "read"
        /\ file' = file /\ pos' = pos /\ eof' = eof /\ lines' = lines
    BY TypedFacts DEF ReaderInv, MoveToFront
  <1>size. PICK n \in Nat : n = b_alloc
    BY <1>1, TypedFacts
  <1>2. PICK s, r, p, b : n = b_alloc /\ s = b_stored /\ r = l_ret /\ p = pos /\ b = buf
    BY <1>size
  <1>3. /\ s \in Nat /\ s \in 0 .. n - 1 /\ r \in 0 .. s /\ p \in 0 .. Len(file) /\ Len(file) \in Nat
        /\ b \in [0 .. n - 1 -> Cell] /\ \A i \in 0 .. s - 1 : b[i] # Junk
        /\ file \in Seq(Byte) /\ lines \in Seq(Seq(Int))
        /\ s <= p /\ Cells(b, s, r, p) /\ Done(file, lines, p - s + r)
        /\ LineEnds(b, s, r) = {}
    BY <1>1, <1>2, TypedFacts DEF Reading
  <1>4. PICK start : start = Skipped(b, s, r)
    OBVIOUS
  <1>5. /\ start \in r .. s
        /\ \A i \in start .. s - 1 : ~IsNewline(b[i])
    BY <1>3, <1>4, SkippedFacts, SkippedTwice
  <1>6. Done(file, lines, p - s + start)
    <2>1. p \in s .. Len(file)
      BY <1>3
    <2> QED
      BY <1>3, <1>4, <2>1, SkippedDone
  <1>left. PICK k \in Nat : k = s - start
    BY <1>3, <1>5
  <1>7. PICK moved : k = s - start /\ moved = MoveDown(b, start, k)
    BY <1>left
  <1>8. /\ moved = [i \in 0 .. n - 1 |-> IF i < k THEN b[i + start] ELSE b[i]]
        /\ k \in 0 .. n - 1 /\ start \in Nat /\ r <= start /\ s = k + start
    BY <1>3, <1>5, <1>7 DEF MoveDown
  <1>9. ASSUME NEW i \in 0 .. k - 1
        PROVE  /\ i \in 0 .. n - 1 /\ i + start \in start .. s - 1 /\ i + start \in r .. s - 1
               /\ i + start \in 0 .. s - 1 /\ moved[i] = b[i + start]
    BY <1>3, <1>8
  <1>10. moved \in [0 .. n - 1 -> Cell]
    <2>1. \A i \in 0 .. n - 1 : i < k => i + start \in 0 .. n - 1
      BY <1>3, <1>8
    <2> QED
      BY <1>3, <1>8, <2>1
  <1>11. \A i \in 0 .. k - 1 : moved[i] # Junk /\ ~IsNewline(moved[i])
    BY <1>3, <1>5, <1>9
  <1>12. Cells(moved, k, 0, p)
    <2>1. SUFFICES ASSUME NEW i \in 0 .. k - 1
                   PROVE  moved[i] = p - k + i + 1
      BY DEF Cells
    <2>2. b[i + start] = p - s + (i + start) + 1
      BY <1>3, <1>9 DEF Cells
    <2>3. p - s + (i + start) + 1 = p - k + i + 1
      BY <1>3, <1>8
    <2> QED
      BY <1>9, <2>2, <2>3
  <1>13. p - k = p - s + start /\ p - k + 0 = p - k /\ k <= p
    BY <1>3, <1>8
  <1>14. /\ buf' = moved /\ b_stored' = k /\ l_ret' = 0 /\ pos' = p /\ file' = file
         /\ lines' = lines
    BY <1>1, <1>2, <1>4, <1>7
  <1>15. Typed'
    <2>1. l_ret' \in 0 .. b_stored' /\ b_stored' \in 0 .. n - 1
      BY <1>8, <1>14
    <2> QED
      BY <1>1, <1>3, <1>10, <1>11, <1>14, <2>1, TypedNext
  <1>16. Reading'
    <2>1. Done(file', lines', pos' - b_stored' + l_ret')
      BY <1>6, <1>13, <1>14
    <2> QED
      BY <1>12, <1>13, <1>14, <2>1 DEF Reading
  <1>17. InLoop'
    <2>1. LineEnds(buf, b_stored, l_ret)' = {}
      <3>1. LineEnds(moved, k, 0) = {}
        <4>1. 0 \in 0 .. k
          OBVIOUS
        <4> QED
          BY <1>11, <4>1, NoLine
      <3>2. LineEnds(moved, k, 0)' = {}
        BY <1>14, <3>1, NewlineStays
      <3> QED
        BY <1>14, <3>2 DEF LineEnds, Skipped, IsNewline
    <2>2. pos' - b_stored' = 0 \/ file'[pos' - b_stored'] = "newline"
      BY <1>6, <1>13, <1>14 DEF Done
    <2>3. \A i \in 0 .. l_ret' - 1 : FALSE
      BY <1>14
    <2> QED
      BY <1>12, <1>14, <2>1, <2>2, <2>3 DEF InLoop
  <1> QED
    BY <1>1, <1>15, <1>16, <1>17 DEF ReaderInv

(* So does a read, with the buffer grown or not, a line found or not.      *)
LEMMA ReadMoreKeeps ==
  ASSUME ReaderInv, ReadMore
  PROVE  ReaderInv'
  <1>1. /\ Typed /\ pc = "read" /\ eof = FALSE /\ Reading /\ InLoop /\ nr > 0
        /\ file' = file /\ eof' = eof /\ pos' = pos + nr
        /\ \/ LineFound(AfterRead, b_stored + nr, l_ret) /\ pc' = "call"
           \/ /\ LineEnds(AfterRead, b_stored + nr, l_ret) = {}
              /\ buf' = AfterRead /\ b_stored' = b_stored + nr
              /\ l_ret' = Skipped(AfterRead, b_stored + nr, l_ret)
              /\ UNCHANGED <<pc, lines>>
    BY TypedFacts DEF ReaderInv, ReadMore
  <1>2. PICK s0, p0, d, b, r : s0 = b_stored /\ p0 = pos /\ d = nr /\ b = AfterRead /\ r = l_ret
    OBVIOUS
  <1>3. /\ s0 \in Nat /\ r \in 0 .. s0 /\ p0 \in Nat /\ s0 <= p0 /\ Len(file) \in Nat
        /\ file \in Seq(Byte) /\ lines \in Seq(Seq(Int))
        /\ Cells(buf, s0, 0, p0) /\ Done(file, lines, p0 - s0 + r)
        /\ p0 - s0 = 0 \/ file[p0 - s0] = "newline"
        /\ \A i \in 0 .. r - 1 : IsNewline(buf[i])
    BY <1>1, <1>2, TypedFacts DEF Reading, InLoop
  <1>4. /\ d \in Nat /\ p0 + d \in s0 + d .. Len(file)
        /\ \E n \in Nat : b \in [0 .. n - 1 -> Cell] /\ s0 + d \in 0 .. n - 1
        /\ \A i \in 0 .. s0 + d - 1 : b[i] # Junk
        /\ \A i \in 0 .. s0 - 1 : b[i] = buf[i]
        /\ Cells(b, s0 + d, 0, p0 + d)
    <2>1. b_stored <= pos /\ Cells(buf, b_stored, 0, pos)
      BY <1>1 DEF Reading, InLoop
    <2> QED
      BY <1>1, <1>2, <2>1, AfterReadFacts
  <1>5. PICK n \in Nat : b \in [0 .. n - 1 -> Cell] /\ s0 + d \in 0 .. n - 1
    BY <1>4
  <1>6. PICK s \in Nat, p \in Nat : s = s0 + d /\ p = p0 + d
    BY <1>3, <1>4
  <1>7. /\ s \in 0 .. n - 1 /\ r \in 0 .. s /\ p \in s .. Len(file) /\ p - s = p0 - s0
        /\ s0 <= s
    BY <1>3, <1>4, <1>5, <1>6
  <1>8. Cells(b, s, 0, p) /\ Cells(b, s, r, p)
    <2>1. Cells(b, s, 0, p)
      BY <1>4, <1>6
    <2>2. \A i \in r .. s - 1 : i \in 0 .. s - 1
      BY <1>7
    <2> QED
      BY <2>1, <2>2 DEF Cells
  <1>9. Done(file, lines, p - s + r) /\ \A i \in 0 .. s - 1 : b[i] # Junk
    BY <1>3, <1>4, <1>6, <1>7
  <1>10. CASE LineFound(AfterRead, b_stored + nr, l_ret) /\ pc' = "call"
    <2>1. LineFound(b, s, r) /\ pos' = p
      BY <1>1, <1>2, <1>6, <1>10
    <2>2. /\ buf' \in [0 .. n - 1 -> Cell]
          /\ b_stored' \in 0 .. n - 1 /\ l_ret' \in 0 .. b_stored'
          /\ \A i \in 0 .. b_stored' - 1 : buf'[i] # Junk
          /\ lines' \in Seq(Seq(Int))
          /\ Reading'
      BY <1>1, <1>3, <1>5, <1>7, <1>8, <1>9, <2>1, LineKeeps
    <2>3. pos' \in 0 .. Len(file)
      BY <1>3, <1>7, <2>1
    <2>4. Typed'
      BY <1>1, <1>3, <1>10, <2>2, <2>3, TypedNext
    <2> QED
      BY <1>1, <1>10, <2>2, <2>4 DEF ReaderInv
  <1>11. CASE /\ LineEnds(AfterRead, b_stored + nr, l_ret) = {}
              /\ buf' = AfterRead /\ b_stored' = b_stored + nr
              /\ l_ret' = Skipped(AfterRead, b_stored + nr, l_ret)
              /\ UNCHANGED <<pc, lines>>
    <2>1. PICK z : z = Skipped(b, s, r)
      OBVIOUS
    <2>2. /\ LineEnds(b, s, r) = {} /\ buf' = b /\ b_stored' = s /\ l_ret' = z /\ pos' = p
          /\ pc' = pc /\ lines' = lines
      BY <1>1, <1>2, <1>6, <1>11, <2>1
    <2>3. z \in r .. s /\ \A i \in r .. z - 1 : IsNewline(b[i])
      BY <1>7, <2>1, SkippedFacts
    <2>4. LineEnds(b, s, z) = {}
      BY <1>7, <2>1, <2>2, SkippedTwice
    <2>5. Done(file, lines, p - s + z)
      BY <1>3, <1>7, <1>8, <1>9, <2>1, SkippedDone
    <2>6. \A i \in 0 .. z - 1 : IsNewline(b[i])
      <3>1. SUFFICES ASSUME NEW i \in 0 .. z - 1
                     PROVE  IsNewline(b[i])
        OBVIOUS
      <3>2. CASE i < r
        <4>1. i \in 0 .. r - 1 /\ i \in 0 .. s0 - 1
          BY <1>3, <2>3, <3>2
        <4> QED
          BY <1>3, <1>4, <4>1
      <3>3. CASE ~(i < r)
        <4>1. i \in r .. z - 1
          BY <1>3, <3>3
        <4> QED
          BY <2>3, <4>1
      <3> QED
        BY <3>2, <3>3
    <2>7. Typed'
      <3>1. l_ret' \in 0 .. b_stored' /\ b_stored' \in 0 .. n - 1 /\ pos' \in 0 .. Len(file)
        BY <1>3, <1>7, <2>2, <2>3
      <3>2. buf' \in [0 .. n - 1 -> Cell] /\ \A i \in 0 .. b_stored' - 1 : buf'[i] # Junk
        BY <1>5, <1>9, <2>2
      <3> QED
        BY <1>1, <1>3, <2>2, <3>1, <3>2, TypedNext
    <2>8. Reading'
      <3>1. \A i \in z .. s - 1 : i \in 0 .. s - 1
        BY <1>3, <2>3
      <3>2. Cells(b, s, z, p)
        BY <1>8, <3>1 DEF Cells
      <3>3. Done(file', lines', pos' - b_stored' + l_ret')
        BY <1>1, <2>2, <2>5
      <3> QED
        BY <1>7, <2>2, <3>2, <3>3 DEF Reading
    <2>9. InLoop'
      <3>1. LineEnds(buf, b_stored, l_ret)' = {}
        <4>1. LineEnds(b, s, z)' = {}
          BY <1>1, <2>4, NewlineStays
        <4> QED
          BY <2>2, <4>1 DEF LineEnds, Skipped, IsNewline
      <3>2. pos' - b_stored' = 0 \/ file'[pos' - b_stored'] = "newline"
        BY <1>1, <1>3, <1>7, <2>2
      <3>3. \A i \in 0 .. l_ret' - 1 : IsNewline(buf[i])'
        <4>1. \A i \in 0 .. z - 1 : IsNewline(b[i])'
          BY <1>1, <2>6, NewlineStays DEF IsNewline
        <4> QED
          BY <2>2, <4>1 DEF IsNewline
      <3> QED
        BY <1>8, <2>2, <3>1, <3>2, <3>3 DEF InLoop
    <2> QED
      BY <1>1, <2>2, <2>7, <2>8, <2>9 DEF ReaderInv
  <1> QED
    BY <1>1, <1>10, <1>11

(* So does the end of the file, with an unfinished last line or none.      *)
LEMMA ReadEndKeeps ==
  ASSUME ReaderInv, ReadEnd
  PROVE  ReaderInv'
  <1>1. /\ Typed /\ pc = "read" /\ Reading /\ InLoop /\ nr = 0
        /\ file' = file /\ pos' = pos /\ b_stored' = b_stored /\ eof' = TRUE
        /\ buf' = IF Unfinished THEN [buf EXCEPT ![b_stored] = Newline] ELSE buf
        /\ l_ret' = Skipped(buf, b_stored, l_ret)
        /\ IF b_stored > 0 THEN pc' = "call" /\ lines' = Append(lines, StringAt(buf'))
                           ELSE pc' = "end" /\ lines' = lines
    BY DEF ReaderInv, ReadEnd, LastLine
  <1>size. PICK n \in Nat : n = b_alloc
    BY <1>1, TypedFacts
  <1>2. PICK s, r, p, b, c1, z, o :
            /\ n = b_alloc /\ s = b_stored /\ r = l_ret /\ p = pos /\ b = buf /\ c1 = buf'
            /\ z = Skipped(b, s, r) /\ o = p - s
    BY <1>size
  <1>3. /\ s \in Nat /\ s \in 0 .. n - 1 /\ r \in 0 .. s /\ p \in Nat /\ s <= p /\ o \in Nat
        /\ Len(file) \in Nat /\ p = o + s /\ p = Len(file)
        /\ file \in Seq(Byte) /\ lines \in Seq(Seq(Int))
        /\ b \in [0 .. n - 1 -> Cell] /\ \A i \in 0 .. s - 1 : b[i] # Junk
        /\ Cells(b, s, 0, p) /\ Done(file, lines, o + r)
        /\ o = 0 \/ file[o] = "newline"
        /\ \A i \in 0 .. r - 1 : IsNewline(b[i])
        /\ LineEnds(b, s, r) = {}
    <2>1. pos = Len(file)
      BY <1>1, AfterReadFacts DEF Reading, InLoop
    <2>2. /\ s \in 0 .. n - 1 /\ r \in 0 .. s /\ n \in Nat /\ Len(file) \in Nat
          /\ p \in 0 .. Len(file) /\ file \in Seq(Byte) /\ lines \in Seq(Seq(Int))
          /\ b \in [0 .. n - 1 -> Cell] /\ \A i \in 0 .. s - 1 : b[i] # Junk
      BY <1>1, <1>2, TypedFacts
    <2>3. s <= p /\ Done(file, lines, p - s + r)
      BY <1>1, <1>2 DEF Reading
    <2>4. /\ Cells(b, s, 0, p) /\ (p - s = 0 \/ file[p - s] = "newline")
          /\ \A i \in 0 .. r - 1 : IsNewline(b[i])
          /\ LineEnds(b, s, r) = {}
      BY <1>1, <1>2 DEF InLoop
    <2>5. s \in Nat /\ p \in Nat /\ o \in Nat /\ p = o + s
      BY <1>2, <2>2, <2>3
    <2> QED
      BY <1>2, <2>1, <2>2, <2>3, <2>4, <2>5
  <1>4. /\ z \in r .. s /\ \A i \in r .. z - 1 : IsNewline(b[i])
        /\ \A i \in z .. s - 1 : ~IsNewline(b[i])
    BY <1>2, <1>3, SkippedFacts, SkippedTwice
  <1>5. ASSUME NEW i \in 0 .. s - 1
        PROVE  /\ b[i] = o + i + 1 /\ o + i + 1 \in 1 .. Len(file)
               /\ b[i] \notin {NUL, Junk}
               /\ IsNewline(b[i]) <=> file[o + i + 1] = "newline"
    <2>1. b[i] = o + i + 1
      BY <1>2, <1>3 DEF Cells
    <2>2. o + i + 1 \in 1 .. Len(file)
      BY <1>3
    <2> QED
      BY <1>3, <2>1, <2>2, CellFacts
  <1>6. /\ c1 \in [0 .. n - 1 -> Cell]
        /\ \A i \in 0 .. s - 1 : c1[i] = b[i]
    <2>1. c1 = b \/ c1 = [b EXCEPT ![s] = Newline]
      BY <1>1, <1>2
    <2>2. Newline \in Cell
      BY <1>3, CellFacts
    <2>3. \A i \in 0 .. s - 1 : i # s /\ i \in 0 .. n - 1
      BY <1>3
    <2> QED
      BY <1>3, <2>1, <2>2, <2>3
  <1>7. /\ StringAt(c1) \in Seq(Int)
        /\ \A i \in 0 .. s - 1 : Contains(StringAt(c1), b[i])
    <2>1. s \in 0 .. n
      BY <1>3
    <2>2. \A i \in 0 .. s - 1 : c1[i] \notin {NUL, Junk}
      BY <1>5, <1>6
    <2>3. /\ StringAt(c1) \in Seq(Int)
          /\ \A i \in 0 .. s - 1 : Contains(StringAt(c1), c1[i])
      BY <1>3, <1>6, <2>1, <2>2, StringFacts
    <2> QED
      BY <1>6, <2>3
  <1>8. PICK str, new : /\ str = StringAt(c1) /\ new = lines'
                        /\ s > 0 => new = Append(lines, str)
                        /\ ~(s > 0) => new = lines
    BY <1>1, <1>2
  <1>9. /\ new \in Seq(Seq(Int)) /\ Len(new) \in Nat /\ Len(new) <= Len(lines) + 1
        /\ Len(lines) \in Nat /\ Len(lines) <= Len(new)
        /\ \A k \in 1 .. Len(lines) : new[k] = lines[k]
        /\ s > 0 => new[Len(lines) + 1] = str /\ Len(new) = Len(lines) + 1
    <2>1. PICK ls : ls = lines /\ ls \in Seq(Seq(Int))
      BY <1>3
    <2>2. str \in Seq(Int)
      BY <1>7, <1>8
    <2>3. CASE s > 0
      <3>1. new = Append(ls, str)
        BY <1>8, <2>1, <2>3
      <3>2. /\ new \in Seq(Seq(Int)) /\ Len(new) = Len(ls) + 1 /\ Len(ls) \in Nat
            /\ \A k \in 1 .. Len(ls) : new[k] = ls[k]
            /\ new[Len(ls) + 1] = str
        BY <2>1, <2>2, <3>1
      <3> QED
        BY <2>1, <3>2
    <2>4. CASE ~(s > 0)
      <3>1. new = ls /\ Len(ls) \in Nat
        BY <1>8, <2>1, <2>4
      <3> QED
        BY <2>1, <2>4, <3>1
    <2> QED
      BY <2>3, <2>4
  <1>10. Typed'
    <2>1. l_ret' \in 0 .. b_stored' /\ b_stored' \in 0 .. n - 1 /\ pos' \in 0 .. Len(file)
      BY <1>1, <1>2, <1>3, <1>4
    <2>2. buf' \in [0 .. n - 1 -> Cell] /\ \A i \in 0 .. b_stored' - 1 : buf'[i] # Junk
      BY <1>1, <1>2, <1>3, <1>6
    <2>3. pc' \in {"call", "read", "end"} /\ eof' \in BOOLEAN /\ lines' \in Seq(Seq(Int))
      BY <1>1, <1>8, <1>9
    <2> QED
      BY <1>1, <1>3, <2>1, <2>2, <2>3, TypedNext
  <1>11. LineEnds(buf, b_stored, l_ret)' = {}
    <2>1. \A i \in z .. s - 1 : i \in 0 .. s - 1
      BY <1>3, <1>4
    <2>2. z \in 0 .. s
      BY <1>3, <1>4
    <2>3. LineEnds(c1, s, z) = {}
      BY <1>3, <1>4, <1>6, <2>1, <2>2, NoLine
    <2>4. LineEnds(c1, s, z)' = {}
      BY <1>1, <2>3, NewlineStays
    <2>5. buf' = c1 /\ b_stored' = s /\ l_ret' = z
      BY <1>1, <1>2
    <2> QED
      BY <2>4, <2>5 DEF LineEnds, Skipped, IsNewline
  <1>12. Kept(file, new, Len(file))
    <2>1. SUFFICES ASSUME NEW i \in 1 .. Len(file), file[i] # "newline"
                   PROVE  \E k \in 1 .. Len(new) : Contains(new[k], i)
      BY DEF Kept
    <2>2. CASE i <= o + r
      <3>1. i \in 1 .. o + r
        BY <1>3, <2>2
      <3>2. PICK k \in 1 .. Len(lines) : Contains(lines[k], i)
        BY <1>3, <2>1, <3>1 DEF Done, Kept
      <3>3. k \in 1 .. Len(new) /\ new[k] = lines[k]
        BY <1>9
      <3> QED
        BY <3>2, <3>3
    <2>3. CASE ~(i <= o + r)
      <3>1. PICK j \in 0 .. s - 1 : i = o + j + 1
        <4>1. i - o - 1 \in 0 .. s - 1 /\ i = o + (i - o - 1) + 1
          BY <1>3, <2>3
        <4> QED
          BY <4>1
      <3>2. Contains(str, i)
        BY <1>5, <1>7, <1>8, <3>1
      <3>3. s > 0
        BY <1>3, <3>1
      <3>4. Len(lines) + 1 \in 1 .. Len(new) /\ new[Len(lines) + 1] = str
        BY <1>9, <3>3
      <3> QED
        BY <3>2, <3>4
    <2> QED
      BY <2>2, <2>3
  <1>13. Len(new) <= Cardinality(First(file)) + 1
    <2>1. Len(lines) <= Cardinality(First(file)) /\ Cardinality(First(file)) \in Nat
      BY <1>3, FirstFacts DEF Done
    <2> QED
      BY <1>9, <2>1
  <1>14. ASSUME EndsWell
         PROVE  Done(file, new, Len(file))
    <2>1. CASE s = 0
      <3>1. o + r = Len(file) /\ new = lines
        BY <1>3, <1>8, <2>1
      <3> QED
        BY <1>3, <3>1
    <2>2. CASE s # 0
      <3>1. Len(file) # 0 /\ s - 1 \in 0 .. s - 1 /\ o + (s - 1) + 1 = Len(file)
        BY <1>3, <2>2
      <3>2. /\ file[Len(file)] = "newline" /\ Len(file) > 1
            /\ file[Len(file) - 1] # "newline"
        <4>1. file # << >>
          BY <3>1
        <4> QED
          BY <1>14, <4>1 DEF EndsWell, Last
      <3>3. IsNewline(b[s - 1])
        BY <1>5, <3>1, <3>2
      <3>4. z = s
        <4>1. ~(s - 1 \in z .. s - 1)
          BY <1>4, <3>3
        <4> QED
          BY <1>3, <1>4, <4>1
      <3>5. CASE s = 1
        BY <1>3, <3>2, <3>5
      <3>6. CASE s # 1
        <4>1. s - 2 \in 0 .. s - 1 /\ o + (s - 2) + 1 = Len(file) - 1
          BY <1>3, <2>2, <3>6
        <4>2. s - 2 \in 0 .. r - 1 \/ s - 2 \in r .. z - 1
          BY <1>3, <2>2, <3>4, <3>6
        <4>3. IsNewline(b[s - 2])
          BY <1>3, <1>4, <4>2
        <4> QED
          BY <1>5, <3>2, <4>1, <4>3
      <3> QED
        BY <3>5, <3>6
    <2> QED
      BY <2>1, <2>2
  <1>15. AtEnd'
    <2>1. EndsWell' <=> EndsWell
      BY <1>1 DEF EndsWell
    <2> QED
      BY <1>1, <1>8, <1>11, <1>12, <1>13, <1>14, <2>1 DEF AtEnd
  <1>16. eof' = TRUE /\ pc' # "read"
    BY <1>1
  <1> QED
    BY <1>10, <1>15, <1>16 DEF ReaderInv

(* The invariant holds at first.                                           *)
LEMMA InitReader == Init => ReaderInv
  <1>1. SUFFICES ASSUME Init
                 PROVE  ReaderInv
    OBVIOUS
  <1>2. file \in Seq(Byte) /\ Len(file) \in Nat
    <2>1. PICK m \in 0 .. MaxFile : file \in [1 .. m -> Byte]
      BY <1>1, ReaderAssumption DEF Init, BoundedSeq, SeqOf
    <2>2. m \in Nat
      BY ReaderAssumption
    <2> QED
      BY <2>1, <2>2
  <1>3. CONF_BUF_INC \in Nat /\ CONF_BUF_INC > 0
    BY ReaderAssumption
  <1>4. /\ buf \in [0 .. CONF_BUF_INC - 1 -> Cell] /\ pos = 0 /\ b_stored = 0 /\ l_ret = 0
        /\ eof = FALSE /\ pc = "call" /\ lines = << >>
    BY <1>1, <1>2, CellFacts DEF Init
  <1>5. b_alloc = CONF_BUF_INC
    <2>1. PICK b \in [0 .. CONF_BUF_INC - 1 -> Cell] : b = buf
      BY <1>4
    <2>2. Cardinality(DOMAIN b) = CONF_BUF_INC
      BY <1>3, BufferSize
    <2> QED
      BY <2>1, <2>2 DEF b_alloc
  <1>6. Typed
    <2>1. buf \in [0 .. CONF_BUF_INC - 1 -> {NUL, Newline, Junk} \cup DOMAIN file]
      BY <1>4 DEF Cell
    <2>2. TypeOK
      BY <1>2, <1>3, <1>4, <1>5, <2>1 DEF TypeOK
    <2> QED
      BY <1>2, <1>3, <1>4, <1>5, <2>2 DEF Typed
  <1>7. Done(file, lines, 0)
    <2>1. UpTo(file, 0) = {}
      <3>1. \A y \in First(file) : ~(y <= 0)
        BY <1>2, FirstFacts
      <3> QED
        BY <3>1 DEF UpTo
    <2>2. Cardinality(UpTo(file, 0)) = 0
      BY <2>1, FS_EmptySet
    <2>3. Kept(file, lines, 0)
      BY DEF Kept
    <2>4. Len(lines) = 0 /\ 0 \in 0 .. Len(file)
      BY <1>2, <1>4
    <2>5. \A k \in 1 .. Len(lines) : FALSE
      BY <2>4
    <2> QED
      BY <2>2, <2>3, <2>4, <2>5 DEF Done
  <1>8. Reading
    <2>1. pos - b_stored + l_ret = 0
      BY <1>4
    <2> QED
      BY <1>4, <1>7, <2>1 DEF Reading, Cells
  <1> QED
    BY <1>4, <1>6, <1>8 DEF ReaderInv

(* And every step keeps it.                                                *)
LEMMA NextReader == ReaderInv /\ [Next]_vars => ReaderInv'
  <1>1. SUFFICES ASSUME ReaderInv, [Next]_vars
                 PROVE  ReaderInv'
    OBVIOUS
  <1>2. CASE UNCHANGED vars
    BY <1>1, <1>2 DEF vars, c, ReaderInv, Typed, TypeOK, b_alloc, Reading, InLoop, AtEnd, LineEnds,
       Skipped, IsNewline, EndsWell
  <1> QED
    BY <1>1, <1>2, NextInBufferKeeps, NothingMoreKeeps, MoveToFrontKeeps, ReadMoreKeeps,
       ReadEndKeeps DEF Next

(* The inductive invariant of the reader.                                  *)
THEOREM ReaderInvariant == Spec => []ReaderInv
  BY InitReader, NextReader, PTL DEF Spec

(* The buffer is as large as what is stored in it and one cell more, for   *)
(* the newline appended at the end of the file, and no cell that counts    *)
(* was never written: for every file and every CONF_BUF_INC.               *)
THEOREM TypeCorrect == Spec => []TypeOK
  <1>1. ReaderInv => TypeOK
    BY DEF ReaderInv, Typed
  <1> QED
    BY <1>1, ReaderInvariant, PTL

-----------------------------------------------------------------------------

(* The lines of the file are the runs from where a line begins.            *)
LEMMA WrittenFacts ==
  ASSUME file \in Seq(Byte)
  PROVE  /\ \E X : Written \in Seq(X)
         /\ Len(Written) = Cardinality(First(file))
         /\ \A x \in First(file) : \A k \in 1 .. Cardinality(First(file)) :
               Cardinality(Before(file, x)) = k - 1 => Written[k] = RunFrom(file, x)
  <1> DEFINE start(k) == CHOOSE i \in First(file) : Cardinality(Before(file, i)) = k - 1
  <1>1. PICK n \in Nat : n = Cardinality(First(file))
    BY FirstFacts
  <1>2. Written = [k \in 1 .. n |->
                     [m \in 1 .. LastOf(file, start(k)) - start(k) + 1 |-> start(k) + m - 1]]
    BY <1>1 DEF Written, Runs, First, LastOf, Before
  <1>3. Written = [k \in 1 .. n |-> RunFrom(file, start(k))]
    BY <1>2 DEF RunFrom
  <1>4. \E X : Written \in Seq(X) /\ Len(Written) = n
    <2> DEFINE X == {RunFrom(file, start(k)) : k \in 1 .. n}
    <2>1. PICK w : w = Written
      OBVIOUS
    <2>2. w \in [1 .. n -> X]
      BY <1>3, <2>1
    <2> HIDE DEF X
    <2>3. w \in Seq(X) /\ Len(w) = n
      BY <2>2
    <2> QED
      BY <2>1, <2>3
  <1>5. ASSUME NEW x \in First(file), NEW k \in 1 .. n, Cardinality(Before(file, x)) = k - 1
        PROVE  Written[k] = RunFrom(file, x)
    <2>1. start(k) \in First(file) /\ Cardinality(Before(file, start(k))) = k - 1
      BY <1>5
    <2>2. start(k) = x
      BY <1>5, <2>1, RankUnique
    <2> QED
      BY <1>3, <2>2
  <1> QED
    BY <1>1, <1>4, <1>5

(* Lines that are done up to q are the first of the file, at its end all.  *)
LEMMA DonePrefix ==
  ASSUME file \in Seq(Byte), lines \in Seq(Seq(Int)), NEW q, Done(file, lines, q)
  PROVE  IsPrefix(lines, Written) /\ (q = Len(file) => lines = Written)
  <1>1. PICK X, w : w = Written /\ w \in Seq(X) /\ Len(w) = Cardinality(First(file))
    BY WrittenFacts
  <1>2. PICK m \in Nat : m = Len(lines) /\ m <= Len(w)
    BY <1>1, FirstFacts DEF Done
  <1>3. \A k \in 1 .. m : lines[k] = w[k]
    <2>1. SUFFICES ASSUME NEW k \in 1 .. m
                   PROVE  lines[k] = w[k]
      OBVIOUS
    <2>2. PICK x \in First(file) : Cardinality(Before(file, x)) = k - 1
                                   /\ lines[k] = RunFrom(file, x)
      BY <1>2 DEF Done
    <2>3. k \in 1 .. Cardinality(First(file))
      BY <1>1, <1>2
    <2> QED
      BY <1>1, <2>2, <2>3, WrittenFacts
  <1>4. IsPrefix(lines, w)
    <2>1. \A i \in 1 .. m : lines[i] \in Seq(Int) /\ w[i] \in X
      BY <1>1, <1>2
    <2>2. PICK ls : ls = lines /\ ls \in Seq(Seq(Int)) /\ Len(ls) = m
      BY <1>2
    <2>3. SubSeq(ls, 1, m) = [i \in 1 .. m |-> ls[i]]
      BY <2>2
    <2>4. SubSeq(w, 1, m) = [i \in 1 .. m |-> w[i]]
      BY <1>1, <1>2
    <2>5. SubSeq(ls, 1, m) = SubSeq(w, 1, m)
      BY <1>3, <2>2, <2>3, <2>4
    <2> QED
      BY <1>2, <2>2, <2>5 DEF IsPrefix
  <1>5. ASSUME q = Len(file)
        PROVE  lines = w
    <2>1. UpTo(file, q) = First(file)
      <3>1. \A y \in First(file) : y <= q
        BY <1>5, FirstFacts
      <3> QED
        BY <3>1 DEF UpTo
    <2>2. Len(w) = m
      BY <1>1, <1>2, <2>1 DEF Done
    <2>3. lines = [i \in 1 .. m |-> lines[i]] /\ w = [i \in 1 .. m |-> w[i]]
      BY <1>1, <1>2, <2>2
    <2> QED
      BY <1>3, <2>3
  <1> QED
    BY <1>1, <1>4, <1>5

(* Every file whose last line ends with a newline is read as the lines     *)
(* that are in it, in order and each once, wherever the reads and the      *)
(* buffer cut them; of any other all those before its end are.             *)
THEOREM AllLinesRead == Spec => []LinesRead
  <1>1. ASSUME ReaderInv
        PROVE  LinesRead
    <2>1. Typed /\ file \in Seq(Byte) /\ lines \in Seq(Seq(Int))
      BY <1>1, TypedFacts DEF ReaderInv
    <2>2. ~eof => IsPrefix(lines, Written)
      BY <1>1, <2>1, DonePrefix DEF ReaderInv, Reading
    <2>3. pc = "end" /\ EndsWell => lines = Written
      BY <1>1, <2>1, DonePrefix DEF ReaderInv, AtEnd
    <2> QED
      BY <2>2, <2>3 DEF LinesRead
  <1> QED
    BY <1>1, ReaderInvariant, PTL

(* No byte of any file is lost, and one string at most is not a line.      *)
THEOREM NoByteLost == Spec => []BytesKept
  <1>1. ASSUME ReaderInv
        PROVE  BytesKept
    <2>1. /\ Typed /\ file \in Seq(Byte) /\ lines \in Seq(Seq(Int)) /\ Len(lines) \in Nat
          /\ DOMAIN lines = 1 .. Len(lines) /\ DOMAIN file = 1 .. Len(file) /\ eof \in BOOLEAN
      BY <1>1, TypedFacts DEF ReaderInv
    <2>2. Len(Written) = Cardinality(First(file)) /\ Cardinality(First(file)) \in Nat
      BY <2>1, WrittenFacts, FirstFacts
    <2>3. Len(lines) <= Len(Written) + 1
      <3>1. CASE eof
        BY <1>1, <2>2, <3>1 DEF ReaderInv, AtEnd
      <3>2. CASE ~eof
        <4>1. Len(lines) <= Cardinality(First(file))
          BY <1>1, <2>1, <3>2, FirstFacts DEF ReaderInv, Reading, Done
        <4> QED
          BY <2>1, <2>2, <4>1
      <3> QED
        BY <2>1, <3>1, <3>2
    <2>4. ASSUME pc = "end", NEW i \in DOMAIN file, file[i] # "newline"
          PROVE  \E l \in Range(lines) : Contains(l, i)
      <3>1. Kept(file, lines, Len(file))
        BY <1>1, <2>4 DEF ReaderInv, AtEnd
      <3>2. PICK k \in 1 .. Len(lines) : Contains(lines[k], i)
        BY <2>1, <2>4, <3>1 DEF Kept
      <3>3. lines[k] \in Range(lines)
        BY <2>1 DEF Range
      <3> QED
        BY <3>2, <3>3
    <2> QED
      BY <2>3, <2>4 DEF BytesKept
  <1> QED
    BY <1>1, ReaderInvariant, PTL

-----------------------------------------------------------------------------

(* The words of a line s: Starts(s) is where they begin, From(s, p) what   *)
(* is left of it from p on, Stretch(s, p, w) its w characters from there.  *)
Starts(s) == {i \in 1 .. Len(s) : ~IsBlank(s[i]) /\ (i = 1 \/ ~(~IsBlank(s[i - 1])))}
StartsTo(s, p) == {j \in Starts(s) : j < p}
From(s, p) == SubSeq(s, p, Len(s))
Stretch(s, p, w) == [m \in 1 .. w |-> s[p + m - 1]]

(* A word of w characters begins at p; what follows its blanks, at e.      *)
WordAt(s, p, w) ==
    /\ w \in 0 .. Len(s) + 1 - p
    /\ \A i \in p .. p + w - 1 : ~IsBlank(s[i])
    /\ p + w = Len(s) + 1 \/ IsBlank(s[p + w])
NextAt(s, p, w, e) ==
    /\ e \in p + w .. Len(s) + 1
    /\ e = Len(s) + 1 \/ (e > p + w /\ ~IsBlank(s[e]))
    /\ \A i \in p + w .. e - 1 : IsBlank(s[i])

(* Where the words of a line begin.                                        *)
LEMMA StartsFacts ==
  ASSUME NEW s \in Seq(Int)
  PROVE  /\ Len(s) \in Nat /\ IsFiniteSet(Starts(s)) /\ Cardinality(Starts(s)) \in Nat
         /\ \A x \in Starts(s) : x \in 1 .. Len(s) /\ ~IsBlank(s[x])
         /\ \A p : /\ IsFiniteSet(StartsTo(s, p)) /\ Cardinality(StartsTo(s, p)) \in Nat
                   /\ Cardinality(StartsTo(s, p)) <= Cardinality(Starts(s))
  <1>1. Len(s) \in Nat /\ IsFiniteSet(1 .. Len(s))
    BY FS_Interval
  <1>2. Starts(s) \in SUBSET (1 .. Len(s)) /\ \A x \in Starts(s) : ~IsBlank(s[x])
    BY DEF Starts
  <1>3. IsFiniteSet(Starts(s)) /\ Cardinality(Starts(s)) \in Nat
    BY <1>1, <1>2, FS_Subset, FS_CardinalityType
  <1>4. \A p : StartsTo(s, p) \in SUBSET Starts(s)
    BY DEF StartsTo
  <1>5. \A p : /\ IsFiniteSet(StartsTo(s, p)) /\ Cardinality(StartsTo(s, p)) \in Nat
               /\ Cardinality(StartsTo(s, p)) <= Cardinality(Starts(s))
    BY <1>3, <1>4, FS_Subset, FS_CardinalityType
  <1> QED
    BY <1>1, <1>2, <1>3, <1>5

(* Two words do not have the same number of words before them.             *)
LEMMA StartUnique ==
  ASSUME NEW s \in Seq(Int), NEW x \in Starts(s), NEW y \in Starts(s),
         Cardinality(StartsTo(s, x)) = Cardinality(StartsTo(s, y))
  PROVE  x = y
  <1>1. ASSUME NEW u \in Starts(s), NEW v \in Starts(s), u < v
        PROVE  Cardinality(StartsTo(s, u)) # Cardinality(StartsTo(s, v))
    <2>1. u \in Nat /\ v \in Nat /\ \A z \in Starts(s) : z \in Nat
      BY StartsFacts
    <2>2. StartsTo(s, u) \in SUBSET StartsTo(s, v) /\ u \in StartsTo(s, v) /\ u \notin StartsTo(s, u)
      <3>1. \A z \in Starts(s) : z < u => z < v
        BY <1>1, <2>1
      <3>2. u < v /\ ~(u < u)
        BY <1>1, <2>1
      <3> QED
        BY <3>1, <3>2 DEF StartsTo
    <2> QED
      BY <2>2, StartsFacts, FS_Subset
  <1>2. x \in Nat /\ y \in Nat
    BY StartsFacts
  <1>3. x < y \/ y < x \/ x = y
    BY <1>2
  <1> QED
    BY <1>1, <1>3

(* The fields of a line are the stretches between its blanks.              *)
LEMMA FieldsFacts ==
  ASSUME NEW s \in Seq(Int)
  PROVE  /\ \E X : Fields(s) \in Seq(X)
         /\ Len(Fields(s)) = Cardinality(Starts(s))
         /\ \A x \in Starts(s) : \A k \in 1 .. Cardinality(Starts(s)) : \A w :
               Cardinality(StartsTo(s, x)) = k - 1 /\ WordAt(s, x, w)
                  => Fields(s)[k] = Stretch(s, x, w)
  <1> DEFINE last(i) == Max({k \in i .. Len(s) : \A m \in i .. k : ~IsBlank(s[m])})
             start(k) == CHOOSE i \in Starts(s) : Cardinality(StartsTo(s, i)) = k - 1
             run(k) == [m \in 1 .. last(start(k)) - start(k) + 1 |-> start(k) + m - 1]
             at(y) == [m \in 1 .. last(y) - y + 1 |-> s[y + m - 1]]
             field(k) == at(start(k))
  <1>1. PICK n \in Nat : n = Cardinality(Starts(s))
    BY StartsFacts
  <1>2. PICK runs : runs = Runs(Len(s), LAMBDA i : ~IsBlank(s[i]))
    OBVIOUS
  <1>3. runs = [k \in 1 .. n |-> run(k)]
    BY <1>1, <1>2 DEF Runs, Starts, StartsTo
  <1>4. Fields(s) = [k \in DOMAIN runs |-> [m \in DOMAIN runs[k] |-> s[runs[k][m]]]]
    BY <1>2 DEF Fields
  <1>5. \A k \in 1 .. n : [m \in DOMAIN run(k) |-> s[run(k)[m]]] = field(k)
    OBVIOUS
  <1> HIDE DEF run, field, at
  <1>6. Fields(s) = [k \in 1 .. n |-> field(k)]
    BY <1>3, <1>4, <1>5
  <1>7. \E X : Fields(s) \in Seq(X) /\ Len(Fields(s)) = n
    <2> DEFINE X == {field(k) : k \in 1 .. n}
    <2>1. PICK w : w = Fields(s)
      OBVIOUS
    <2>2. w \in [1 .. n -> X]
      BY <1>6, <2>1
    <2> HIDE DEF X
    <2>3. w \in Seq(X) /\ Len(w) = n
      BY <2>2
    <2> QED
      BY <2>1, <2>3
  <1>8. ASSUME NEW x \in Starts(s), NEW k \in 1 .. n, NEW w,
               Cardinality(StartsTo(s, x)) = k - 1, WordAt(s, x, w)
        PROVE  Fields(s)[k] = Stretch(s, x, w)
    <2>1. start(k) \in Starts(s) /\ Cardinality(StartsTo(s, start(k))) = k - 1
      BY <1>8
    <2>2. start(k) = x
      BY <1>8, <2>1, StartUnique
    <2>3. /\ Len(s) \in Nat /\ x \in 1 .. Len(s) /\ ~IsBlank(s[x])
          /\ w \in 0 .. Len(s) + 1 - x /\ \A i \in x .. x + w - 1 : ~IsBlank(s[i])
          /\ x + w = Len(s) + 1 \/ IsBlank(s[x + w])
      BY <1>8, StartsFacts DEF WordAt
    <2>4. w \in Nat /\ w > 0
      <3>1. w # 0
        BY <2>3
      <3> QED
        BY <2>3, <3>1
    <2>5. last(x) = x + w - 1
      <3> DEFINE M == {z \in x .. Len(s) : \A m \in x .. z : ~IsBlank(s[m])}
      <3>1. M \in SUBSET (0 .. Len(s)) /\ x + w - 1 \in M
        BY <2>3, <2>4
      <3>2. \A z \in M : z <= x + w - 1
        <4>1. SUFFICES ASSUME NEW z \in M, ~(z <= x + w - 1)
                       PROVE  FALSE
          OBVIOUS
        <4>2. x + w \in x .. z /\ x + w # Len(s) + 1
          BY <2>3, <2>4, <4>1
        <4> QED
          BY <2>3, <4>1, <4>2
      <3>3. last(x) = Max(M)
        OBVIOUS
      <3> HIDE DEF M, last
      <3>4. Max(M) \in M /\ x + w - 1 <= Max(M)
        BY <2>3, <3>1, MaxOf
      <3>5. Max(M) \in 0 .. Len(s) /\ Max(M) <= x + w - 1
        BY <3>1, <3>2, <3>4
      <3>6. PICK z \in 0 .. Len(s) : z = Max(M)
        BY <3>5
      <3>7. z <= x + w - 1 /\ x + w - 1 <= z
        BY <3>4, <3>5, <3>6
      <3>8. z = x + w - 1
        <4>1. z \in Int /\ x + w - 1 \in Int
          BY <2>3, <2>4
        <4> QED
          BY <3>7, <4>1
      <3> QED
        BY <3>3, <3>6, <3>8
    <2>6. field(k) = at(x)
      BY <2>2 DEF field
    <2> HIDE DEF last
    <2>7. last(x) - x + 1 = w
      BY <2>3, <2>4, <2>5
    <2>8. field(k) = Stretch(s, x, w)
      BY <2>6, <2>7 DEF at, Stretch
    <2> QED
      BY <1>6, <2>8
  <1> QED
    BY <1>1, <1>7, <1>8

(* What is left of a line from p on.                                       *)
LEMMA FromFacts ==
  ASSUME NEW s \in Seq(Int), NEW p \in 1 .. Len(s) + 1
  PROVE  /\ Len(s) \in Nat /\ From(s, p) \in Seq(Int) /\ Len(From(s, p)) = Len(s) + 1 - p
         /\ \A i \in 1 .. Len(s) + 1 - p : From(s, p)[i] = s[p + i - 1]
         /\ From(s, 1) = s
  <1>1. Len(s) \in Nat
    OBVIOUS
  <1>2. From(s, p) = [i \in 1 .. Len(s) + 1 - p |-> s[p + i - 1]]
    BY <1>1 DEF From
  <1>3. From(s, p) \in Seq(Int) /\ Len(From(s, p)) = Len(s) + 1 - p
    BY <1>1 DEF From
  <1>4. From(s, 1) = s
    BY <1>1 DEF From
  <1> QED
    BY <1>1, <1>2, <1>3, <1>4

(* The first word of what is left: it goes to the next blank, or the end.  *)
LEMMA WordHere ==
  ASSUME NEW s \in Seq(Int), NEW p \in 1 .. Len(s) + 1
  PROVE  /\ WordAt(s, p, WordLength(From(s, p)))
         /\ Word(From(s, p)) = Stretch(s, p, WordLength(From(s, p)))
  <1> DEFINE t == From(s, p)
             S == {n \in 0 .. Len(t) : n = Len(t) \/ IsBlank(t[n + 1])}
  <1>1. /\ Len(s) \in Nat /\ t \in Seq(Int) /\ Len(t) = Len(s) + 1 - p /\ Len(t) \in Nat
        /\ \A i \in 1 .. Len(t) : t[i] = s[p + i - 1]
    BY FromFacts
  <1>2. WordLength(t) = Min(S)
    BY DEF WordLength
  <1> HIDE DEF t
  <1>3. S \in SUBSET (0 .. Len(t)) /\ Len(t) \in S
    BY <1>1
  <1>4. Min(S) \in S /\ \A y \in S : Min(S) <= y
    <2> HIDE DEF S
    <2> QED
      BY <1>1, <1>3, MinOf
  <1>5. PICK w \in 0 .. Len(t) : w = WordLength(t)
    BY <1>2, <1>4
  <1>0. PICK l \in Nat : l = Len(t) /\ Len(s) = l + p - 1 /\ w \in Nat /\ w <= l /\ p \in Nat /\ p >= 1
    <2>1. PICK l, m : l = Len(t) /\ m = Len(s)
      OBVIOUS
    <2>2. l \in Nat /\ m \in Nat /\ l = m + 1 - p /\ p \in 1 .. m + 1
      BY <1>1, <2>1
    <2>3. w \in Nat /\ w <= l
      BY <1>5, <2>1, <2>2
    <2>4. m = l + p - 1 /\ p \in Nat /\ p >= 1
      BY <2>2
    <2> QED
      BY <2>1, <2>2, <2>3, <2>4
  <1>6. w = Len(t) \/ IsBlank(t[w + 1])
    BY <1>2, <1>4, <1>5
  <1>7. \A n \in 0 .. w - 1 : ~IsBlank(t[n + 1])
    <2>1. SUFFICES ASSUME NEW n \in 0 .. w - 1, IsBlank(t[n + 1])
                   PROVE  FALSE
      OBVIOUS
    <2>2. n \in S
      BY <1>1, <1>5, <2>1
    <2> QED
      BY <1>2, <1>4, <1>5, <2>2
  <1>8. \A i \in p .. p + w - 1 : ~IsBlank(s[i])
    <2>1. SUFFICES ASSUME NEW i \in p .. p + w - 1
                   PROVE  ~IsBlank(s[i])
      OBVIOUS
    <2>2. i - p \in 0 .. w - 1 /\ i - p + 1 \in 1 .. Len(t) /\ p + (i - p + 1) - 1 = i
      BY <1>0, <2>1
    <2> QED
      BY <1>1, <1>7, <2>2
  <1>9. p + w = Len(s) + 1 \/ IsBlank(s[p + w])
    <2>1. CASE w = Len(t)
      BY <1>1, <1>5, <2>1
    <2>2. CASE w # Len(t)
      <3>1. w + 1 \in 1 .. Len(t) /\ p + (w + 1) - 1 = p + w
        BY <1>0, <2>2
      <3> QED
        BY <1>1, <1>6, <2>2, <3>1
    <2> QED
      BY <2>1, <2>2
  <1>10. WordAt(s, p, w)
    BY <1>1, <1>5, <1>8, <1>9 DEF WordAt
  <1>11. Word(t) = Stretch(s, p, w)
    <2>1. SubSeq(t, 1, w) = [m \in 1 .. w |-> t[m]]
      BY <1>1, <1>5
    <2>2. \A m \in 1 .. w : t[m] = s[p + m - 1]
      BY <1>1, <1>5
    <2> QED
      BY <1>5, <2>1, <2>2 DEF Word, Stretch
  <1> QED
    BY <1>5, <1>10, <1>11 DEF t

(* And what is left after it and the blanks that follow.                   *)
LEMMA RestHere ==
  ASSUME NEW s \in Seq(Int), NEW p \in 1 .. Len(s) + 1
  PROVE  \E e \in 1 .. Len(s) + 1 :
            /\ NextAt(s, p, WordLength(From(s, p)), e)
            /\ AfterBlanks(From(s, p)) = From(s, e)
  <1> DEFINE t == From(s, p)
  <1>1. PICK n \in Nat, l \in Nat, w \in Nat :
            n = Len(s) /\ l = Len(t) /\ w = WordLength(t)
    BY WordHere, FromFacts DEF WordAt
  <1>0. n \in Nat /\ l \in Nat /\ w \in Nat
    BY <1>1
  <1>2. /\ t \in Seq(Int) /\ l = n + 1 - p /\ p \in Nat /\ 1 <= p /\ p <= n + 1
        /\ \A i \in 1 .. l : t[i] = s[p + i - 1]
    <2>1. p \in Nat /\ 1 <= p /\ p <= n + 1
      BY <1>1
    <2>2. t \in Seq(Int) /\ l = n + 1 - p
      BY <1>1, FromFacts
    <2>3. \A i \in 1 .. n + 1 - p : t[i] = s[p + i - 1]
      BY <1>1, FromFacts
    <2> QED
      BY <2>1, <2>2, <2>3
  <1>3. w <= l /\ (w = l \/ IsBlank(s[p + w]))
    <2>1. WordAt(s, p, w)
      BY <1>1, WordHere
    <2>2. w \in 0 .. n + 1 - p /\ (p + w = n + 1 \/ IsBlank(s[p + w]))
      BY <1>1, <2>1 DEF WordAt
    <2>3. w <= l
      BY <1>0, <1>2, <2>2
    <2>4. p + w = n + 1 => w = l
      BY <1>0, <1>2
    <2> QED
      BY <2>2, <2>3, <2>4
  <1> DEFINE from == {i \in w + 2 .. l : ~IsBlank(t[i])}
  <1>4. AfterBlanks(t) = IF from = {} THEN <<>> ELSE SubSeq(t, Min(from), l)
    BY <1>1 DEF AfterBlanks
  <1> HIDE DEF t
  <1>5. CASE from = {}
    <2>1. AfterBlanks(t) = From(s, n + 1)
      BY <1>1, <1>4, <1>5 DEF From
    <2>2. \A i \in p + w .. n : IsBlank(s[i])
      <3>1. SUFFICES ASSUME NEW i \in p + w .. n
                     PROVE  IsBlank(s[i])
        OBVIOUS
      <3>2. CASE i = p + w
        BY <1>0, <1>2, <1>3, <3>1, <3>2
      <3>3. CASE i # p + w
        <4>1. /\ i - p + 1 \in w + 2 .. l /\ i - p + 1 \in 1 .. l
              /\ p + (i - p + 1) - 1 = i
          BY <1>0, <1>2, <1>3, <3>1, <3>3
        <4> QED
          BY <1>0, <1>2, <1>5, <4>1
      <3> QED
        BY <3>2, <3>3
    <2>3. n + 1 \in p + w .. n + 1 /\ n + 1 \in 1 .. n + 1
      BY <1>0, <1>2, <1>3
    <2>4. NextAt(s, p, w, n + 1)
      <3>1. n + 1 - 1 = n
        BY <1>1
      <3> QED
        BY <1>1, <2>2, <2>3, <3>1 DEF NextAt
    <2> QED
      BY <1>1, <2>1, <2>3, <2>4 DEF t
  <1>6. CASE from # {}
    <2>1. from \in SUBSET (0 .. l)
      BY <1>3
    <2>2. Min(from) \in from /\ \A y \in from : Min(from) <= y
      <3> HIDE DEF from
      <3> QED
        BY <1>1, <1>6, <2>1, MinOf
    <2>3. PICK z \in w + 2 .. l : z = Min(from)
      BY <2>2
    <2>4. PICK m \in Nat : m = z
      <3>1. z \in w + 2 .. l
        BY <2>3
      <3> QED
        BY <1>0, <3>1
    <2>5. m \in Nat /\ w + 2 <= m /\ m <= l
      BY <1>0, <2>3, <2>4
    <2>6. m = Min(from)
      BY <2>3, <2>4
    <2>7. ~IsBlank(t[m]) /\ \A i \in w + 2 .. m - 1 : IsBlank(t[i])
      <3>1. ~IsBlank(t[m])
        BY <2>2, <2>6
      <3>2. ASSUME NEW i \in w + 2 .. m - 1, ~IsBlank(t[i])
            PROVE  FALSE
        <4>1. i \in from /\ ~(m <= i)
          BY <1>0, <2>5, <3>2
        <4> QED
          BY <2>2, <2>6, <4>1
      <3> QED
        BY <3>1, <3>2
    <2>8. PICK e \in Nat : e = p + m - 1 /\ 1 <= e /\ e <= n
      BY <1>0, <1>2, <1>3, <2>5
    <2>9. e \in p + w .. n + 1 /\ e > p + w /\ ~IsBlank(s[e])
      <3>1. m \in 1 .. l
        BY <1>3, <2>5
      <3> QED
        BY <1>0, <1>2, <1>3, <2>5, <2>7, <2>8, <3>1
    <2>10. \A i \in p + w .. e - 1 : IsBlank(s[i])
      <3>1. SUFFICES ASSUME NEW i \in p + w .. e - 1
                     PROVE  IsBlank(s[i])
        OBVIOUS
      <3>2. CASE i = p + w
        BY <1>0, <1>2, <1>3, <2>5, <3>1, <3>2
      <3>3. CASE i # p + w
        <4>1. /\ i - p + 1 \in w + 2 .. m - 1 /\ i - p + 1 \in 1 .. l
              /\ p + (i - p + 1) - 1 = i
          BY <1>0, <1>2, <1>3, <2>5, <2>8, <3>1, <3>3
        <4> QED
          BY <1>0, <1>2, <2>7, <4>1
      <3> QED
        BY <3>2, <3>3
    <2>11. AfterBlanks(t) = From(s, e)
      <3>1. SubSeq(t, m, l) = [i \in 1 .. l - m + 1 |-> t[m + i - 1]]
        BY <1>0, <2>5
      <3>2. SubSeq(s, e, n) = [i \in 1 .. n - e + 1 |-> s[e + i - 1]]
        BY <1>1, <2>8
      <3>3. l - m + 1 = n - e + 1
        BY <1>0, <1>2, <2>5, <2>8
      <3>4. \A i \in 1 .. l - m + 1 : t[m + i - 1] = s[e + i - 1]
        <4>1. SUFFICES ASSUME NEW i \in 1 .. l - m + 1
                       PROVE  t[m + i - 1] = s[e + i - 1]
          OBVIOUS
        <4>2. m + i - 1 \in 1 .. l /\ p + (m + i - 1) - 1 = e + i - 1
          BY <1>0, <1>2, <1>3, <2>5, <2>8, <4>1
        <4> QED
          BY <1>0, <1>2, <4>2
      <3>5. SubSeq(t, m, l) = SubSeq(s, e, n)
        BY <3>1, <3>2, <3>3, <3>4
      <3> QED
        BY <1>1, <1>4, <1>6, <2>6, <3>5 DEF From
    <2> QED
      <3>1. e \in 1 .. Len(s) + 1
        BY <1>1, <2>8
      <3> QED
        BY <1>1, <2>9, <2>10, <2>11, <3>1 DEF NextAt, t
  <1> QED
    BY <1>5, <1>6

(* The first word of a line is its first field, unless it is empty because *)
(* the line begins with a blank.                                           *)
LEMMA FirstWord ==
  ASSUME NEW s \in Seq(Int), Len(s) > 0
  PROVE  Word(s) = IF IsBlank(Head(s)) THEN <<>> ELSE Head(Fields(s))
  <1>1. Len(s) \in Nat /\ 1 \in 1 .. Len(s) + 1 /\ 1 \in 1 .. Len(s) /\ Head(s) = s[1]
    OBVIOUS
  <1>2. PICK w : w = WordLength(s) /\ WordAt(s, 1, w) /\ Word(s) = Stretch(s, 1, w)
    BY <1>1, FromFacts, WordHere
  <1>3. CASE IsBlank(s[1])
    <2>1. w \in Nat /\ \A i \in 1 .. 1 + w - 1 : ~IsBlank(s[i])
      BY <1>1, <1>2 DEF WordAt
    <2>2. w = 0
      <3>1. w > 0 => 1 \in 1 .. 1 + w - 1
        BY <2>1
      <3> QED
        BY <1>3, <2>1, <3>1
    <2> QED
      BY <1>1, <1>2, <1>3, <2>2 DEF Stretch
  <1>4. CASE ~IsBlank(s[1])
    <2>1. 1 \in Starts(s)
      BY <1>1, <1>4 DEF Starts
    <2>2. StartsTo(s, 1) = {}
      <3>1. \A j \in Starts(s) : ~(j < 1)
        BY StartsFacts
      <3> QED
        BY <3>1 DEF StartsTo
    <2>3. Cardinality(StartsTo(s, 1)) = 1 - 1
      BY <2>2, FS_EmptySet
    <2>4. 1 \in 1 .. Cardinality(Starts(s))
      <3>1. Cardinality(Starts(s)) # 0
        <4>1. IsFiniteSet(Starts(s))
          BY StartsFacts
        <4> QED
          BY <2>1, <4>1, FS_EmptySet
      <3> QED
        BY <3>1, StartsFacts
    <2>5. Fields(s)[1] = Stretch(s, 1, w)
      BY <1>2, <2>1, <2>3, <2>4, FieldsFacts
    <2>6. Head(Fields(s)) = Fields(s)[1]
      <3>1. PICK X, f : f = Fields(s) /\ f \in Seq(X) /\ Len(f) = Cardinality(Starts(s))
        BY FieldsFacts
      <3>2. f # <<>>
        BY <2>4, <3>1
      <3> QED
        BY <3>1, <3>2
    <2> QED
      BY <1>1, <1>2, <1>4, <2>5, <2>6
  <1> QED
    BY <1>3, <1>4

(* A line has a character at least.                                        *)
LEMMA RunSome ==
  ASSUME NEW f \in Seq(Byte), NEW x \in First(f), RunFrom(f, x) \in Seq(Int)
  PROVE  Len(RunFrom(f, x)) > 0
  <1> DEFINE M == {k \in x .. Len(f) : \A m \in x .. k : f[m] # "newline"}
  <1>1. Len(f) \in Nat /\ x \in 1 .. Len(f) /\ x \in Nat /\ f[x] # "newline"
    BY FirstFacts
  <1>2. M \in SUBSET (0 .. Len(f)) /\ x \in M
    BY <1>1
  <1>3. Max(M) \in M
    <2> HIDE DEF M
    <2> QED
      BY <1>1, <1>2, MaxOf
  <1>4. Max(M) \in x .. Len(f)
    BY <1>3
  <1>5. LastOf(f, x) \in x .. Len(f)
    BY <1>4 DEF LastOf
  <1>6. PICK n \in Nat : n > 0 /\ n = LastOf(f, x) - x + 1
    BY <1>1, <1>5
  <1>7. PICK r : r = RunFrom(f, x) /\ r = [m \in 1 .. n |-> x + m - 1] /\ r \in Seq(Int)
    BY <1>6 DEF RunFrom
  <1>8. DOMAIN r = 1 .. Len(r) /\ Len(r) \in Nat /\ 1 \in DOMAIN r
    BY <1>6, <1>7
  <1>9. Len(r) > 0
    BY <1>8
  <1> QED
    BY <1>7, <1>9

(* The URL list is that of the first words of the lines of a file that     *)
(* ends well, the last line first.                                         *)
THEOREM UrlsFound == Spec => []UrlsRead
  <1>1. ASSUME ReaderInv, pc = "end", EndsWell
        PROVE  Urls = Reverse([k \in DOMAIN Written |->
                   IF IsBlank(Head(Written[k])) THEN <<>> ELSE Head(Fields(Written[k]))])
    <2>1. Typed /\ file \in Seq(Byte) /\ lines \in Seq(Seq(Int))
      BY <1>1, TypedFacts DEF ReaderInv
    <2>2. Done(file, lines, Len(file)) /\ lines = Written
      BY <1>1, <2>1, DonePrefix DEF ReaderInv, AtEnd
    <2>3. DOMAIN lines = 1 .. Len(lines) /\ \A k \in DOMAIN lines : lines[k] \in Seq(Int)
      BY <2>1
    <2>4. ASSUME NEW k \in DOMAIN lines
          PROVE  Word(lines[k]) = IF IsBlank(Head(lines[k])) THEN <<>> ELSE Head(Fields(lines[k]))
      <3>1. PICK x \in First(file) : lines[k] = RunFrom(file, x)
        BY <2>2, <2>3, <2>4 DEF Done
      <3>2. Len(lines[k]) > 0
        BY <2>1, <2>3, <3>1, RunSome
      <3> QED
        BY <2>3, <3>2, FirstWord
    <2>5. [i \in DOMAIN lines |-> Word(lines[i])] =
              [k \in DOMAIN lines |-> IF IsBlank(Head(lines[k])) THEN <<>> ELSE Head(Fields(lines[k]))]
      BY <2>4
    <2> QED
      BY <2>2, <2>5 DEF Urls
  <1>2. ReaderInv => UrlsRead
    BY <1>1 DEF UrlsRead
  <1> QED
    BY <1>2, ReaderInvariant, PTL

(* The function Left(s) exists, so that it is what its equation says.      *)
Chain(s, k, g) == g = [n \in 0 .. k |-> IF n = 0 THEN s ELSE AfterBlanks(g[n - 1])]

(* What is left after k - 1 words determines it after k.                   *)
LEMMA ChainLonger ==
  ASSUME NEW s, NEW k \in Nat, k > 0, NEW g, Chain(s, k - 1, g)
  PROVE  \E h : Chain(s, k, h)
  <1> DEFINE h == [n \in 0 .. k |-> IF n = k THEN AfterBlanks(g[k - 1]) ELSE g[n]]
  <1>1. \A n \in 0 .. k - 1 : g[n] = IF n = 0 THEN s ELSE AfterBlanks(g[n - 1])
    BY DEF Chain
  <1>2. \A n \in 0 .. k : h[n] = IF n = k THEN AfterBlanks(g[k - 1]) ELSE g[n]
    OBVIOUS
  <1>3. DOMAIN h = 0 .. k /\ h = [n \in 0 .. k |-> h[n]]
    OBVIOUS
  <1> HIDE DEF h
  <1>4. ASSUME NEW n \in 0 .. k
        PROVE  h[n] = IF n = 0 THEN s ELSE AfterBlanks(h[n - 1])
    <2>1. CASE n = 0
      <3>1. n # k /\ n \in 0 .. k - 1
        BY <2>1
      <3> QED
        BY <1>1, <1>2, <2>1, <3>1
    <2>2. CASE n # 0
      <3>1. n - 1 \in 0 .. k /\ n - 1 # k
        BY <2>2
      <3>2. h[n - 1] = g[n - 1]
        BY <1>2, <3>1
      <3>3. CASE n = k
        BY <1>2, <2>2, <3>2, <3>3
      <3>4. CASE n # k
        <4>1. n \in 0 .. k - 1
          BY <3>4
        <4> QED
          BY <1>1, <1>2, <2>2, <3>2, <3>4, <4>1
      <3> QED
        BY <3>3, <3>4
    <2> QED
      BY <2>1, <2>2
  <1>5. Chain(s, k, h)
    BY <1>3, <1>4 DEF Chain
  <1> QED
    BY <1>5

(* So Left(s) is s at first, and each time what is left after a word.      *)
LEMMA LeftFacts ==
  ASSUME NEW s \in Seq(Int)
  PROVE  /\ Left(s)[0] = s
         /\ \A n \in 1 .. Len(s) + 1 : Left(s)[n] = AfterBlanks(Left(s)[n - 1])
  <1> DEFINE K == {k \in 0 .. Len(s) + 1 : ~\E g : Chain(s, k, g)}
  <1>1. PICK m \in Nat : m = Len(s) + 1
    OBVIOUS
  <1>2. K = {}
    <2>1. SUFFICES ASSUME K # {}
                   PROVE  FALSE
      OBVIOUS
    <2>2. K \in SUBSET (0 .. m)
      BY <1>1
    <2>3. PICK k \in K : \A y \in K : k <= y
      <3> HIDE DEF K
      <3> QED
        BY <1>1, <2>1, <2>2, MinOf
    <2>4. k \in Nat /\ k <= m /\ ~\E g : Chain(s, k, g)
      BY <1>1, <2>2
    <2>5. CASE k = 0
      <3> DEFINE g == [n \in 0 .. 0 |-> s]
      <3>1. g = [n \in 0 .. 0 |-> IF n = 0 THEN s ELSE AfterBlanks(g[n - 1])]
        OBVIOUS
      <3> HIDE DEF g
      <3>2. Chain(s, 0, g)
        BY <3>1 DEF Chain
      <3> QED
        BY <2>4, <2>5, <3>2
    <2>6. CASE k # 0
      <3>1. k - 1 \in 0 .. m /\ ~(k <= k - 1)
        BY <1>1, <2>4, <2>6
      <3>2. k - 1 \notin K
        <4> HIDE DEF K
        <4> QED
          BY <2>3, <3>1
      <3>3. PICK g : Chain(s, k - 1, g)
        BY <1>1, <3>1, <3>2
      <3> QED
        BY <2>4, <2>6, <3>3, ChainLonger
    <2> QED
      BY <2>5, <2>6
  <1>3. PICK g : Chain(s, Len(s) + 1, g)
    BY <1>1, <1>2
  <1>4. Left(s) = [n \in 0 .. Len(s) + 1 |->
                      IF n = 0 THEN s ELSE AfterBlanks(Left(s)[n - 1])]
    BY <1>3 DEF Chain, Left
  <1>5. PICK l : l = Left(s)
    OBVIOUS
  <1>6. \A n \in 0 .. m : l[n] = IF n = 0 THEN s ELSE AfterBlanks(l[n - 1])
    BY <1>1, <1>4, <1>5
  <1>7. l[0] = s /\ \A n \in 1 .. m : l[n] = AfterBlanks(l[n - 1])
    BY <1>1, <1>6
  <1> QED
    BY <1>1, <1>5, <1>7

(* From a word to the next: every word that begins before e is p's or one  *)
(* of those before it.                                                     *)
LEMMA NextFacts ==
  ASSUME NEW s \in Seq(Int), NEW p \in 1 .. Len(s) + 1, NEW w, NEW e,
         WordAt(s, p, w), NextAt(s, p, w, e)
  PROVE  /\ e \in 1 .. Len(s) + 1
         /\ p <= Len(s) => e > p
         /\ e = Len(s) + 1 \/ e \in Starts(s)
         /\ p \in Starts(s) => Cardinality(StartsTo(s, e)) = Cardinality(StartsTo(s, p)) + 1
         /\ p = 1 /\ w = 0 => Cardinality(StartsTo(s, e)) = 0
  <1>1. PICK n \in Nat : n = Len(s)
    OBVIOUS
  <1>2. /\ n \in Nat /\ p \in Nat /\ 1 <= p /\ p <= n + 1
        /\ w \in Nat /\ p + w <= n + 1 /\ e \in Nat /\ p + w <= e /\ e <= n + 1
    <2>1. n \in Nat /\ p \in Nat /\ 1 <= p /\ p <= n + 1
      BY <1>1
    <2>2. w \in 0 .. n + 1 - p
      BY <1>1 DEF WordAt
    <2>3. w \in Nat /\ p + w <= n + 1
      BY <2>1, <2>2
    <2>4. e \in p + w .. n + 1
      BY <1>1 DEF NextAt
    <2> QED
      BY <2>1, <2>3, <2>4
  <1>3. /\ \A i \in p .. p + w - 1 : ~IsBlank(s[i])
        /\ p + w = n + 1 \/ IsBlank(s[p + w])
        /\ e = n + 1 \/ (e > p + w /\ ~IsBlank(s[e]))
        /\ \A i \in p + w .. e - 1 : IsBlank(s[i])
    BY <1>1 DEF WordAt, NextAt
  <1>4. e = n + 1 \/ e \in Starts(s)
    <2>1. SUFFICES ASSUME e # n + 1
                   PROVE  e \in Starts(s)
      OBVIOUS
    <2>2. ~IsBlank(s[e]) /\ e - 1 \in p + w .. e - 1 /\ e \in 1 .. n
      BY <1>2, <1>3, <2>1
    <2>3. IsBlank(s[e - 1])
      BY <1>3, <2>2
    <2> QED
      BY <1>1, <2>2, <2>3 DEF Starts
  <1>5. ASSUME NEW y \in Starts(s), y < e, ~(y < p)
        PROVE  y = p /\ w > 0
    <2>1. y \in 1 .. n /\ y \in Nat /\ ~IsBlank(s[y]) /\ (y = 1 \/ IsBlank(s[y - 1]))
      BY <1>1 DEF Starts
    <2>2. ~(y \in p + w .. e - 1)
      BY <1>3, <2>1
    <2>3. y <= p + w - 1 /\ w > 0
      BY <1>2, <1>5, <2>1, <2>2
    <2>4. ~(y - 1 \in p .. p + w - 1)
      <3>1. y - 1 \in p .. p + w - 1 => y # 1 /\ ~IsBlank(s[y - 1])
        BY <1>2, <1>3, <2>1
      <3> QED
        BY <2>1, <3>1
    <2> QED
      BY <1>2, <1>5, <2>1, <2>3, <2>4
  <1>6. p \in Starts(s) => Cardinality(StartsTo(s, e)) = Cardinality(StartsTo(s, p)) + 1
    <2>1. SUFFICES ASSUME p \in Starts(s)
                   PROVE  Cardinality(StartsTo(s, e)) = Cardinality(StartsTo(s, p)) + 1
      OBVIOUS
    <2>2. \A y \in Starts(s) : y \in Nat
      BY StartsFacts
    <2>3. p < e
      <3>1. p <= n /\ ~IsBlank(s[p])
        BY <1>1, <2>1, StartsFacts
      <3>2. e # p
        BY <1>2, <1>3, <3>1
      <3> QED
        BY <1>2, <3>2
    <2>4. \A y \in Starts(s) : y < e <=> (y < p \/ y = p)
      BY <1>2, <1>5, <2>2, <2>3
    <2>5. StartsTo(s, e) = StartsTo(s, p) \cup {p} /\ p \notin StartsTo(s, p)
      <3>1. ~(p < p)
        BY <1>2
      <3>2. StartsTo(s, e) = {y \in Starts(s) : y < p \/ y = p}
        BY <2>4 DEF StartsTo
      <3>3. {y \in Starts(s) : y < p \/ y = p} = {y \in Starts(s) : y < p} \cup {p}
        BY <2>1
      <3> QED
        BY <3>1, <3>2, <3>3 DEF StartsTo
    <2>6. IsFiniteSet(StartsTo(s, p))
      BY StartsFacts
    <2> QED
      BY <2>5, <2>6, FS_AddElement
  <1>7. p = 1 /\ w = 0 => Cardinality(StartsTo(s, e)) = 0
    <2>1. SUFFICES ASSUME p = 1, w = 0
                   PROVE  StartsTo(s, e) = {}
      BY FS_EmptySet
    <2>2. \A y \in Starts(s) : ~(y < p)
      BY <2>1, StartsFacts
    <2>3. \A y \in Starts(s) : ~(y < e)
      <3>1. ~(w > 0)
        BY <2>1
      <3> QED
        BY <1>5, <2>2, <3>1
    <2> QED
      BY <2>3 DEF StartsTo
  <1>8. p <= n => e > p
    BY <1>2, <1>3
  <1>9. e \in 1 .. n + 1
    BY <1>2
  <1> QED
    BY <1>1, <1>4, <1>6, <1>7, <1>8, <1>9

(* One for the empty word in front of a line that begins with a blank.     *)
Lead(s) == IF s # <<>> /\ IsBlank(s[1]) THEN 1 ELSE 0

(* After n words the line is left from p on, where a word begins, and the  *)
(* words before p are those that were taken.                               *)
Place(s, n, p) ==
    /\ p \in 1 .. Len(s) + 1
    /\ Left(s)[n] = From(s, p)
    /\ p = Len(s) + 1 \/ p > n
    /\ n = 0 => p = 1
    /\ n >= Lead(s) => p = Len(s) + 1 \/ p \in Starts(s)
    /\ n >= Lead(s) /\ (\A m \in 0 .. n - 1 : Left(s)[m] # <<>>)
          => Cardinality(StartsTo(s, p)) = n - Lead(s)

(* At first the line is left from 1 on.                                    *)
LEMMA FirstPlace ==
  ASSUME NEW s \in Seq(Int)
  PROVE  Place(s, 0, 1)
  <1>1. Len(s) \in Nat /\ 1 \in 1 .. Len(s) + 1 /\ Left(s)[0] = From(s, 1)
    BY LeftFacts, FromFacts
  <1>2. Lead(s) \in {0, 1}
    BY DEF Lead
  <1>3. Lead(s) = 0 => 1 = Len(s) + 1 \/ 1 \in Starts(s)
    <2>1. SUFFICES ASSUME Lead(s) = 0, 1 # Len(s) + 1
                   PROVE  1 \in Starts(s)
      OBVIOUS
    <2>2. 1 \in 1 .. Len(s) /\ s # <<>>
      BY <1>1, <2>1
    <2>3. ~IsBlank(s[1])
      BY <2>1, <2>2 DEF Lead
    <2> QED
      BY <2>2, <2>3 DEF Starts
  <1>4. Cardinality(StartsTo(s, 1)) = 0
    <2>1. \A y \in Starts(s) : ~(y < 1)
      BY StartsFacts
    <2>2. StartsTo(s, 1) = {}
      BY <2>1 DEF StartsTo
    <2> QED
      BY <2>2, FS_EmptySet
  <1>5. 0 >= Lead(s) => Lead(s) = 0
    BY <1>2
  <1> QED
    BY <1>1, <1>3, <1>4, <1>5 DEF Place

(* After one more word it is left from the place of the next one.          *)
LEMMA NextPlace ==
  ASSUME NEW s \in Seq(Int), NEW n \in 0 .. Len(s), NEW p, Place(s, n, p)
  PROVE  \E e : Place(s, n + 1, e) /\ NextAt(s, p, WordLength(From(s, p)), e)
  <1>1. PICK m \in Nat : m = Len(s)
    OBVIOUS
  <1>2. p \in 1 .. Len(s) + 1 /\ Left(s)[n] = From(s, p)
    BY DEF Place
  <1>3. PICK w : w = WordLength(From(s, p)) /\ WordAt(s, p, w)
    BY <1>2, WordHere
  <1>4. PICK e \in 1 .. Len(s) + 1 : NextAt(s, p, w, e) /\ AfterBlanks(From(s, p)) = From(s, e)
    BY <1>2, <1>3, RestHere
  <1>5. m \in Nat /\ n \in Nat /\ n <= m /\ p \in Nat /\ 1 <= p /\ p <= m + 1 /\ e \in Nat /\ e <= m + 1
    BY <1>1, <1>2, <1>4
  <1>6. Left(s)[n + 1] = From(s, e)
    <2>1. n + 1 \in 1 .. Len(s) + 1 /\ (n + 1) - 1 = n
      BY <1>1, <1>5
    <2>2. PICK l, j : l = Left(s) /\ j = n + 1
      OBVIOUS
    <2>3. l[j] = AfterBlanks(l[j - 1])
      BY <2>1, <2>2, LeftFacts
    <2> QED
      BY <1>2, <1>4, <2>1, <2>2, <2>3
  <1>7. /\ p <= m => e > p
        /\ e = m + 1 \/ e \in Starts(s)
        /\ p \in Starts(s) => Cardinality(StartsTo(s, e)) = Cardinality(StartsTo(s, p)) + 1
        /\ p = 1 /\ w = 0 => Cardinality(StartsTo(s, e)) = 0
    BY <1>1, <1>2, <1>3, <1>4, NextFacts
  <1>8. e = m + 1 \/ e > n + 1
    <2>1. CASE p = m + 1
      <3>1. e \in p + w .. m + 1 /\ w \in 0 .. m + 1 - p
        BY <1>1, <1>3, <1>4 DEF NextAt, WordAt
      <3> QED
        BY <1>5, <2>1, <3>1
    <2>2. CASE p # m + 1
      <3>1. p > n /\ e > p
        BY <1>1, <1>5, <1>7, <2>2 DEF Place
      <3> QED
        BY <1>5, <3>1
    <2> QED
      BY <2>1, <2>2
  <1>9. ASSUME \A i \in 0 .. n : Left(s)[i] # <<>>, n + 1 >= Lead(s)
        PROVE  Cardinality(StartsTo(s, e)) = (n + 1) - Lead(s)
    <2>1. p <= m
      <3>1. From(s, p) # <<>>
        BY <1>2, <1>5, <1>9
      <3>2. Len(From(s, p)) = m + 1 - p /\ From(s, p) \in Seq(Int)
        BY <1>1, <1>2, FromFacts
      <3>3. m + 1 - p # 0
        BY <3>1, <3>2
      <3> QED
        BY <1>5, <3>3
    <2>2. Lead(s) \in Nat /\ \A i \in 0 .. n - 1 : Left(s)[i] # <<>>
      BY <1>5, <1>9 DEF Lead
    <2>3. CASE n >= Lead(s)
      <3>1. p \in Starts(s) /\ Cardinality(StartsTo(s, p)) = n - Lead(s)
        BY <1>1, <1>5, <2>1, <2>2, <2>3 DEF Place
      <3> QED
        BY <1>5, <1>7, <2>2, <3>1
    <2>4. CASE ~(n >= Lead(s))
      <3>1. n = 0 /\ Lead(s) = 1 /\ IsBlank(s[1])
        BY <1>5, <2>4 DEF Lead
      <3>2. p = 1
        BY <3>1 DEF Place
      <3>3. w = 0
        <4>1. w \in 0 .. m /\ \A i \in 1 .. w : ~IsBlank(s[i])
          <5>1. w \in 0 .. m + 1 - 1 /\ \A i \in 1 .. 1 + w - 1 : ~IsBlank(s[i])
            BY <1>1, <1>3, <3>2 DEF WordAt
          <5>2. m + 1 - 1 = m /\ w \in Nat
            BY <1>5, <5>1
          <5>3. 1 + w - 1 = w
            BY <5>2
          <5> QED
            BY <5>1, <5>2, <5>3
        <4>2. w > 0 => 1 \in 1 .. w
          BY <4>1
        <4> QED
          BY <3>1, <4>1, <4>2
      <3> QED
        BY <1>7, <3>1, <3>2, <3>3
    <2> QED
      BY <2>3, <2>4
  <1>10. Place(s, n + 1, e)
    <2>1. (\A i \in 0 .. (n + 1) - 1 : Left(s)[i] # <<>>) => \A i \in 0 .. n : Left(s)[i] # <<>>
      BY <1>5
    <2>2. n + 1 # 0
      BY <1>5
    <2> QED
      BY <1>1, <1>4, <1>6, <1>7, <1>8, <1>9, <2>1, <2>2 DEF Place
  <1> QED
    BY <1>3, <1>4, <1>10

(* So it is left from some place after any number of words.                *)
LEMMA Places ==
  ASSUME NEW s \in Seq(Int)
  PROVE  \A n \in 0 .. Len(s) + 1 : \E p : Place(s, n, p)
  <1> DEFINE K == {n \in 0 .. Len(s) + 1 : ~\E p : Place(s, n, p)}
  <1>1. PICK m \in Nat : m = Len(s) + 1
    OBVIOUS
  <1>2. SUFFICES ASSUME K # {}
                 PROVE  FALSE
    OBVIOUS
  <1>3. K \in SUBSET (0 .. m)
    BY <1>1
  <1>4. PICK k \in K : \A y \in K : k <= y
    <2> HIDE DEF K
    <2> QED
      BY <1>1, <1>2, <1>3, MinOf
  <1>5. k \in Nat /\ k <= m /\ ~\E p : Place(s, k, p)
    BY <1>1, <1>3
  <1>6. k # 0
    BY <1>5, FirstPlace
  <1>7. k - 1 \in 0 .. m /\ ~(k <= k - 1) /\ (k - 1) + 1 = k /\ k - 1 <= m - 1
    BY <1>5, <1>6
  <1>8. k - 1 \notin K
    <2> HIDE DEF K
    <2> QED
      BY <1>4, <1>7
  <1>9. PICK p : Place(s, k - 1, p)
    BY <1>1, <1>7, <1>8
  <1>10. k - 1 \in 0 .. Len(s)
    BY <1>1, <1>5, <1>6
  <1> QED
    BY <1>5, <1>7, <1>9, <1>10, NextPlace

(* The words end where nothing is left of the line, and there are as many  *)
(* as it has fields, and the empty one in front of a blank.                *)
LEMMA NWordsFacts ==
  ASSUME NEW s \in Seq(Int)
  PROVE  /\ NWords(s) \in 0 .. Len(s) + 1 /\ Lead(s) \in {0, 1}
         /\ NWords(s) = Cardinality(Starts(s)) + Lead(s)
         /\ \A n \in 0 .. NWords(s) - 1 : Left(s)[n] # <<>>
  <1> DEFINE S == {n \in 0 .. Len(s) + 1 : Left(s)[n] = <<>>}
  <1>1. PICK m \in Nat : m = Len(s)
    OBVIOUS
  <1>2. \A p \in 1 .. m + 1 : From(s, p) = <<>> <=> p = m + 1
    <2>1. SUFFICES ASSUME NEW p \in 1 .. m + 1
                   PROVE  From(s, p) = <<>> <=> p = m + 1
      OBVIOUS
    <2>2. From(s, p) \in Seq(Int) /\ Len(From(s, p)) = m + 1 - p
      BY <1>1, <2>1, FromFacts
    <2>3. m + 1 - p = 0 <=> p = m + 1
      BY <1>1, <2>1
    <2> QED
      BY <2>2, <2>3
  <1>3. m + 1 \in S
    <2>1. PICK p : Place(s, m + 1, p)
      BY <1>1, Places
    <2>2. p \in 1 .. m + 1 /\ (p = m + 1 \/ p > m + 1) /\ Left(s)[m + 1] = From(s, p)
      BY <1>1, <2>1 DEF Place
    <2>3. p = m + 1
      BY <1>1, <2>2
    <2> QED
      BY <1>1, <1>2, <2>2, <2>3
  <1>4. PICK k \in 0 .. m + 1 : k = NWords(s) /\ Left(s)[k] = <<>> /\ \A y \in S : k <= y
    <2>1. S \in SUBSET (0 .. m + 1) /\ m + 1 \in Nat /\ NWords(s) = Min(S)
      BY <1>1 DEF NWords
    <2>2. Min(S) \in S /\ \A y \in S : Min(S) <= y
      <3> HIDE DEF S
      <3> QED
        BY <1>3, <2>1, MinOf
    <2> QED
      BY <1>1, <2>1, <2>2
  <1>5. \A n \in 0 .. k - 1 : Left(s)[n] # <<>>
    <2>1. SUFFICES ASSUME NEW n \in 0 .. k - 1, Left(s)[n] = <<>>
                   PROVE  FALSE
      OBVIOUS
    <2>2. k \in Nat /\ k <= m + 1
      BY <1>4
    <2>3. n \in 0 .. m + 1 /\ ~(k <= n)
      BY <1>1, <2>1, <2>2
    <2>4. n \in S
      BY <1>1, <2>1, <2>3
    <2> QED
      BY <1>4, <2>3, <2>4
  <1>6. PICK p : Place(s, k, p)
    BY <1>1, <1>4, Places
  <1>7. p = m + 1
    BY <1>1, <1>2, <1>4, <1>6 DEF Place
  <1>8. StartsTo(s, p) = Starts(s)
    <2>1. \A y \in Starts(s) : y < m + 1
      BY <1>1, StartsFacts
    <2> QED
      BY <1>7, <2>1 DEF StartsTo
  <1>9. Lead(s) \in {0, 1} /\ k >= Lead(s)
    <2>1. Left(s)[0] = s
      BY LeftFacts
    <2>2. k = 0 => s = <<>>
      BY <1>4, <2>1
    <2> QED
      BY <1>4, <2>2 DEF Lead
  <1>10. Cardinality(Starts(s)) = k - Lead(s)
    BY <1>5, <1>6, <1>8, <1>9 DEF Place
  <1>11. k = Cardinality(Starts(s)) + Lead(s)
    BY <1>4, <1>9, <1>10, StartsFacts
  <1> QED
    BY <1>1, <1>4, <1>5, <1>9, <1>11

(* The n-th word is taken from a place on the line.                        *)
LEMMA WordPlace ==
  ASSUME NEW s \in Seq(Int), NEW n \in 1 .. NWords(s)
  PROVE  \E p \in 1 .. Len(s) : /\ Place(s, n - 1, p)
                                /\ n - 1 >= Lead(s) =>
                                      /\ p \in Starts(s)
                                      /\ Cardinality(StartsTo(s, p)) = (n - Lead(s)) - 1
  <1>1. PICK m \in Nat, k \in Nat : m = Len(s) /\ k = NWords(s) /\ k <= m + 1
    BY NWordsFacts
  <1>2. n \in Nat /\ 1 <= n /\ n <= k /\ k \in Nat /\ m \in Nat /\ k <= m + 1
    BY <1>1
  <1>3. n - 1 \in 0 .. m + 1 /\ n - 1 \in 0 .. k - 1 /\ 0 .. (n - 1) - 1 \subseteq 0 .. k - 1
    BY <1>2
  <1>4. PICK p : Place(s, n - 1, p)
    BY <1>1, <1>3, Places
  <1>5. Left(s)[n - 1] # <<>> /\ \A i \in 0 .. (n - 1) - 1 : Left(s)[i] # <<>>
    BY <1>1, <1>3, NWordsFacts
  <1>6. p \in 1 .. m + 1 /\ From(s, p) # <<>>
    BY <1>1, <1>4, <1>5 DEF Place
  <1>7. p # m + 1
    <2>1. From(s, p) \in Seq(Int) /\ Len(From(s, p)) = m + 1 - p
      BY <1>1, <1>6, FromFacts
    <2>2. m + 1 - p # 0
      BY <1>6, <2>1
    <2> QED
      BY <1>1, <2>2
  <1>8. p \in 1 .. Len(s)
    BY <1>1, <1>6, <1>7
  <1>9. ASSUME n - 1 >= Lead(s)
        PROVE  p \in Starts(s) /\ Cardinality(StartsTo(s, p)) = (n - Lead(s)) - 1
    <2>1. p \in Starts(s) /\ Cardinality(StartsTo(s, p)) = (n - 1) - Lead(s)
      BY <1>1, <1>4, <1>5, <1>7, <1>9 DEF Place
    <2>2. Lead(s) \in Int
      BY NWordsFacts
    <2> QED
      BY <1>2, <2>1, <2>2
  <1> QED
    BY <1>4, <1>8, <1>9

(* A sequence with an element put in front, position by position.          *)
LEMMA Fronted ==
  ASSUME NEW X, NEW f \in Seq(X), NEW r \in Nat, Len(f) = r, NEW a
  PROVE  <<a>> \o f = [n \in 1 .. 1 + r |-> IF n <= 1 THEN a ELSE f[n - 1]]
  <1> DEFINE Y == X \cup {a}
  <1>1. PICK g : g = <<a>> /\ g \in Seq(Y) /\ Len(g) = 1 /\ g[1] = a
    <2>1. <<a>> \in Seq({a}) /\ Len(<<a>>) = 1 /\ <<a>>[1] = a
      OBVIOUS
    <2>2. <<a>> \in Seq(Y)
      BY <2>1
    <2> QED
      BY <2>1, <2>2
  <1>2. f \in Seq(Y)
    BY <1>1
  <1>3. g \o f = [n \in 1 .. 1 + r |-> IF n <= 1 THEN g[n] ELSE f[n - 1]]
    BY <1>1, <1>2
  <1>4. \A n \in 1 .. 1 + r : n <= 1 => n = 1
    OBVIOUS
  <1> QED
    BY <1>1, <1>3, <1>4

(* get_line_word finds the fields, and the empty word in front of a blank. *)
LEMMA WordsAre ==
  ASSUME NEW s \in Seq(Int)
  PROVE  Words(s) = IF s # <<>> /\ IsBlank(s[1]) THEN <<(<<>>)>> \o Fields(s) ELSE Fields(s)
  <1>1. PICK k \in Nat, r \in Nat, d \in {0, 1} :
            k = NWords(s) /\ r = Cardinality(Starts(s)) /\ d = Lead(s) /\ k = r + d
    BY NWordsFacts, StartsFacts
  <1>2. PICK X, f : f = Fields(s) /\ f \in Seq(X) /\ Len(f) = r
    BY <1>1, FieldsFacts
  <1>3. ASSUME NEW n \in 1 .. k
        PROVE  Word(Left(s)[n - 1]) = IF n - 1 >= d THEN f[n - d] ELSE <<>>
    <2>1. PICK p \in 1 .. Len(s) :
              /\ Place(s, n - 1, p)
              /\ n - 1 >= d => p \in Starts(s) /\ Cardinality(StartsTo(s, p)) = (n - d) - 1
      BY <1>1, <1>3, WordPlace
    <2>2. Left(s)[n - 1] = From(s, p) /\ p \in 1 .. Len(s) + 1
      BY <2>1 DEF Place
    <2>3. PICK w : WordAt(s, p, w) /\ Word(From(s, p)) = Stretch(s, p, w)
      BY <2>2, WordHere
    <2>4. CASE n - 1 >= d
      <3>1. n - d \in 1 .. r
        BY <1>1, <1>3, <2>4
      <3>2. Fields(s)[n - d] = Stretch(s, p, w)
        BY <1>1, <2>1, <2>3, <2>4, <3>1, FieldsFacts
      <3> QED
        BY <1>2, <2>2, <2>3, <2>4, <3>2
    <2>5. CASE ~(n - 1 >= d)
      <3>1. n = 1 /\ d = 1
        BY <1>1, <1>3, <2>5
      <3>2. s # <<>> /\ IsBlank(s[1]) /\ Len(s) > 0 /\ Head(s) = s[1]
        BY <1>1, <3>1 DEF Lead
      <3>3. Left(s)[n - 1] = s
        BY <3>1, LeftFacts
      <3> QED
        BY <2>5, <3>2, <3>3, FirstWord
    <2> QED
      BY <2>4, <2>5
  <1>4. Words(s) = [n \in 1 .. k |-> IF n - 1 >= d THEN f[n - d] ELSE <<>>]
    BY <1>1, <1>3 DEF Words
  <1>5. CASE d = 0
    <2>1. \A n \in 1 .. r : n - 1 >= 0 /\ n - 0 = n
      BY <1>1
    <2>2. Words(s) = [n \in 1 .. r |-> f[n]]
      BY <1>1, <1>4, <1>5, <2>1
    <2>3. f = [n \in 1 .. r |-> f[n]]
      BY <1>2
    <2>4. Words(s) = f
      BY <2>2, <2>3
    <2>5. ~(s # <<>> /\ IsBlank(s[1]))
      BY <1>1, <1>5 DEF Lead
    <2> QED
      BY <1>2, <2>4, <2>5
  <1>6. CASE d = 1
    <2>1. PICK a : a = <<>>
      OBVIOUS
    <2>2. <<a>> \o f = [n \in 1 .. 1 + r |-> IF n <= 1 THEN a ELSE f[n - 1]]
      BY <1>1, <1>2, Fronted
    <2>3. \A n \in 1 .. 1 + r : n - 1 >= 1 <=> ~(n <= 1)
      BY <1>1
    <2>4. k = 1 + r
      BY <1>1, <1>6
    <2>5. Words(s) = [n \in 1 .. 1 + r |-> IF n - 1 >= 1 THEN f[n - 1] ELSE a]
      BY <1>4, <1>6, <2>1, <2>4
    <2>6. Words(s) = <<a>> \o f
      BY <2>2, <2>3, <2>5
    <2>7. s # <<>> /\ IsBlank(s[1])
      BY <1>1, <1>6 DEF Lead
    <2> QED
      BY <1>2, <2>1, <2>6, <2>7
  <1> QED
    BY <1>1, <1>5, <1>6

(* The end of the n-th word.                                               *)
LEMMA WordEndIs ==
  ASSUME NEW s \in Seq(Int), NEW n \in 1 .. NWords(s), NEW p \in 1 .. Len(s), Place(s, n - 1, p)
  PROVE  WordEnd(s, n) = p - 1 + WordLength(From(s, p))
  <1>1. PICK m \in Nat : m = Len(s)
    OBVIOUS
  <1>2. p \in 1 .. Len(s) + 1 /\ p \in Nat /\ m \in Nat /\ Left(s)[n - 1] = From(s, p)
    BY <1>1 DEF Place
  <1>3. Len(From(s, p)) = m + 1 - p
    BY <1>1, <1>2, FromFacts
  <1>4. PICK w \in Nat : w = WordLength(From(s, p))
    <2>1. WordLength(From(s, p)) \in 0 .. m + 1 - p
      BY <1>1, <1>2, WordHere DEF WordAt
    <2> QED
      BY <2>1
  <1>5. WordEnd(s, n) = m - (m + 1 - p) + w
    BY <1>1, <1>2, <1>3, <1>4 DEF WordEnd
  <1>6. w \in Nat /\ m - (m + 1 - p) + w = p - 1 + w
    BY <1>2, <1>4
  <1> QED
    BY <1>4, <1>5, <1>6

(* Where no two blanks follow one another the arguments are the words.     *)
LEMMA ArgsAre ==
  ASSUME NEW s \in Seq(Int),
         \A i \in 1 .. Len(s) - 1 : ~(IsBlank(s[i]) /\ IsBlank(s[i + 1]))
  PROVE  Args(s) = Words(s)
  <1>1. ASSUME NEW n \in 1 .. NWords(s)
        PROVE  Arg(s, n) = Word(Left(s)[n - 1])
    <2>1. PICK p \in 1 .. Len(s) : Place(s, n - 1, p)
      BY <1>1, WordPlace
    <2>2. p \in 1 .. Len(s) + 1 /\ Left(s)[n - 1] = From(s, p)
      BY <2>1 DEF Place
    <2>3. PICK m, k, w :
              /\ m \in Nat /\ k \in Nat /\ m = Len(s) /\ k = NWords(s) /\ k <= m + 1 /\ w = WordLength(From(s, p))
              /\ WordAt(s, p, w) /\ Word(From(s, p)) = Stretch(s, p, w)
      <3>1. PICK w : w = WordLength(From(s, p))
        OBVIOUS
      <3>2. WordAt(s, p, w) /\ Word(From(s, p)) = Stretch(s, p, w)
        BY <2>2, <3>1, WordHere
      <3>3. Len(s) \in Nat /\ NWords(s) \in Nat /\ NWords(s) <= Len(s) + 1
        BY NWordsFacts
      <3> QED
        BY <3>1, <3>2, <3>3
    <2>4. /\ m \in Nat /\ n \in Nat /\ 1 <= n /\ n <= k /\ k \in Nat /\ k <= m + 1
          /\ p \in Nat /\ 1 <= p /\ p <= m
      BY <1>1, <2>1, <2>3
    <2>5. w \in Nat /\ p + w <= m + 1
      <3>1. w \in 0 .. m + 1 - p
        BY <2>3 DEF WordAt
      <3> QED
        BY <2>4, <3>1
    <2>6. WordEnd(s, n) = p - 1 + w
      BY <1>1, <2>1, <2>3, WordEndIs
    <2>7. n # 1 => WordEnd(s, n - 1) + 2 = p
      <3>1. SUFFICES ASSUME n # 1
                     PROVE  WordEnd(s, n - 1) + 2 = p
        OBVIOUS
      <3>2. PICK l \in Nat : l = n - 1 /\ l \in 1 .. k /\ l - 1 \in 0 .. m /\ (l - 1) + 1 = n - 1
        BY <2>4, <3>1
      <3>3. PICK q \in 1 .. Len(s) : Place(s, l - 1, q)
        BY <2>3, <3>2, WordPlace
      <3>4. PICK e : Place(s, (l - 1) + 1, e) /\ NextAt(s, q, WordLength(From(s, q)), e)
        BY <2>3, <3>2, <3>3, NextPlace
      <3>5. PICK v : v = WordLength(From(s, q)) /\ WordAt(s, q, v) /\ NextAt(s, q, v, e)
        <4>1. q \in 1 .. Len(s) + 1
          BY <3>3 DEF Place
        <4> QED
          BY <3>4, <4>1, WordHere
      <3>6. e \in 1 .. m + 1 /\ From(s, e) = From(s, p)
        BY <2>2, <2>3, <3>2, <3>4 DEF Place
      <3>7. e = p
        <4>1. Len(From(s, e)) = m + 1 - e /\ Len(From(s, p)) = m + 1 - p
          BY <2>2, <2>3, <3>6, FromFacts
        <4>2. m + 1 - e = m + 1 - p
          BY <3>6, <4>1
        <4> QED
          BY <2>4, <3>6, <4>2
      <3>8. q \in Nat /\ 1 <= q /\ q <= m
        BY <2>3, <3>3
      <3>9. v \in Nat
        <4>1. v \in 0 .. m + 1 - q
          BY <2>3, <3>5 DEF WordAt
        <4> QED
          BY <2>4, <3>8, <4>1
      <3>10. p > q + v /\ \A i \in q + v .. p - 1 : IsBlank(s[i])
        <4>1. e # m + 1
          BY <2>4, <3>7
        <4> QED
          BY <2>3, <3>5, <3>7, <4>1 DEF NextAt
      <3>11. p = q + v + 1
        <4>1. SUFFICES ASSUME p # q + v + 1
                       PROVE  FALSE
          OBVIOUS
        <4>2. q + v \in q + v .. p - 1 /\ q + v + 1 \in q + v .. p - 1 /\ q + v \in 1 .. m - 1
          BY <2>4, <3>8, <3>9, <3>10, <4>1
        <4>3. IsBlank(s[q + v]) /\ IsBlank(s[q + v + 1])
          BY <3>10, <4>2
        <4> QED
          BY <2>3, <4>2, <4>3
      <3>12. WordEnd(s, l) = q - 1 + v
        BY <2>3, <3>2, <3>3, <3>5, WordEndIs
      <3>13. (q - 1 + v) + 2 = p
        BY <2>4, <3>8, <3>9, <3>11
      <3> QED
        BY <3>2, <3>12, <3>13
    <2>8. n = 1 => p = 1
      BY <2>1, <2>4 DEF Place
    <2>9. Arg(s, n) = SubSeq(s, p, p - 1 + w)
      <3>1. Arg(s, n) = SubSeq(s, IF n = 1 THEN 1 ELSE WordEnd(s, n - 1) + 2, p - 1 + w)
        BY <2>6 DEF Arg
      <3>2. (IF n = 1 THEN 1 ELSE WordEnd(s, n - 1) + 2) = p
        BY <2>7, <2>8
      <3> QED
        BY <3>1, <3>2
    <2>10. SubSeq(s, p, p - 1 + w) = Stretch(s, p, w)
      <3>1. p - 1 + w \in 0 .. m /\ (p - 1 + w) - p + 1 = w
        BY <2>4, <2>5
      <3>2. SubSeq(s, p, p - 1 + w) = [i \in 1 .. (p - 1 + w) - p + 1 |-> s[p + i - 1]]
        BY <2>4, <2>5, <3>1
      <3> QED
        BY <3>1, <3>2 DEF Stretch
    <2> QED
      BY <2>2, <2>3, <2>9, <2>10
  <1> QED
    BY <1>1 DEF Args, Words

(* Every line that is returned is split into its words, an empty one in    *)
(* front when it begins with a blank, and where no two blanks follow one   *)
(* another these are the arguments of the pager and the downloader.        *)
THEOREM LinesSplit == Spec => []WordsSplit
  <1>1. ASSUME ReaderInv
        PROVE  WordsSplit
    <2>1. lines \in Seq(Seq(Int))
      BY <1>1 DEF ReaderInv, Typed
    <2>2. \A l \in Range(lines) : l \in Seq(Int)
      BY <2>1 DEF Range
    <2> QED
      BY <2>2, WordsAre, ArgsAre DEF WordsSplit
  <1> QED
    BY <1>1, ReaderInvariant, PTL
=============================================================================
