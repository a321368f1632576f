-------------------------- MODULE HashTableProofs --------------------------
(***************************************************************************)
(* The string table holds every name once and finds it again, for every    *)
(* set of names, hash function and size of the table, however often names  *)
(* are set and unset.                                                      *)
(***************************************************************************)
EXTENDS HashTable, Extrema

(* The slot that a search for a name looks at as its i-th.                 *)
Probe(n, i) == (i + Hash[n]) % Size

(* A search for a name that is in the table meets no empty slot before it. *)
Typed(t) == t \in [Slots -> Var \cup {Empty, Deleted}]
Unique(t) == \A i, j \in Slots : t[i] \in Var /\ t[i].name = t[j].name => i = j
Path(t) == \A n \in Names, i \in Slots :
              t[Probe(n, i)].name = n => \A j \in 0 .. i - 1 : t[Probe(n, j)].name # "empty"
Sound(t) == Typed(t) /\ Unique(t) /\ Path(t)

Absent(n, t) == \A s \in Slots : t[s].name # n

(* One table is the other but for what a name is bound to.                 *)
Rebinds(t, u, n, v) ==
    \A m \in Names : GetHashVar(m, u) = IF m = n THEN v ELSE GetHashVar(m, t)

(* No operation but download loses its handler, and only at the end.       *)
HandlersLeft ==
    /\ handler_names \in {Order, UnsetHandler(Order, Download)}
    /\ ~configured => handler_names = Order

TableInv == Sound(tab) /\ HandlersLeft

-----------------------------------------------------------------------------

(* Division with a remainder.                                              *)
LEMMA DivMod == ASSUME NEW H \in Nat, NEW S \in Nat \ {0}
  PROVE H = S * (H \div S) + (H % S)
  OBVIOUS

(* The only multiples of a number between its opposite and its double.     *)
LEMMA MultipleBelow == ASSUME NEW k \in Int, NEW S \in Nat \ {0}, NEW x \in Int, x = S * k, -S < x, x < 2*S
  PROVE k = 0 \/ k = 1
  OBVIOUS

(* The sum of an offset and a hash wraps around the table at most once.    *)
LEMMA WrapAround == ASSUME NEW H \in Nat, NEW S \in Nat \ {0}, NEW i \in 0 .. S-1
  PROVE (i + H) % S = IF i + (H % S) < S THEN i + (H % S) ELSE i + (H % S) - S
  <1>1. PICK q \in Int, r \in 0 .. S-1 : H = S * q + r /\ r = H % S
    <2>1. H \div S \in Int /\ H % S \in 0 .. S-1
      OBVIOUS
    <2> QED
      BY <2>1, DivMod
  <1>2. PICK p \in Int, m \in 0 .. S-1 : i + H = S * p + m /\ m = (i + H) % S
    <2>1. i + H \in Nat /\ (i + H) \div S \in Int /\ (i + H) % S \in 0 .. S-1
      OBVIOUS
    <2> QED
      BY <2>1, DivMod
  <1>3. i + r - m = S * (p - q)
    BY <1>1, <1>2
  <1>4. p - q = 0 \/ p - q = 1
    BY <1>3, MultipleBelow
  <1>5. i + r - m = 0 \/ i + r - m = S
    BY <1>3, <1>4
  <1>6. m = IF i + r < S THEN i + r ELSE i + r - S
    BY <1>5
  <1> QED
    BY <1>1, <1>2, <1>6

-----------------------------------------------------------------------------

(* What the assumptions say of the constants.                              *)
LEMMA ConstantFacts ==
  /\ Size \in Nat \ {0} /\ Slots = 0 .. Size - 1
  /\ \A n \in Names : Hash[n] \in Nat /\ n # "empty" /\ n # "deleted"
  /\ NULL \notin Handlers
  BY TableAssumption DEF Slots

(* The operations in the order of their list.                              *)
LEMMA SeqFacts ==
  /\ Len(Order) \in Nat /\ DOMAIN Order = 1 .. Len(Order)
  /\ Order \in [DOMAIN Order -> Handlers]
  /\ \A k \in DOMAIN Order : Order[k] \in Handlers /\ 1 .. k \subseteq DOMAIN Order
  BY TableAssumption

(* A search looks at every slot once.                                      *)
LEMMA ProbeFacts ==
  ASSUME NEW n \in Names
  PROVE  /\ \A i \in Slots : Probe(n, i) \in Slots
         /\ \A i, j \in Slots : Probe(n, i) = Probe(n, j) => i = j
         /\ \A s \in Slots : \E i \in Slots : Probe(n, i) = s
  <1> DEFINE r == Hash[n] % Size
  <1>1. r \in 0 .. Size - 1 /\ Size \in Nat \ {0}
    BY ConstantFacts
  <1>2. \A i \in Slots : Probe(n, i) = IF i + r < Size THEN i + r ELSE i + r - Size
    BY ConstantFacts, WrapAround DEF Probe
  <1> HIDE DEF r
  <1>3. \A i \in Slots : Probe(n, i) \in Slots
    BY <1>1, <1>2 DEF Slots
  <1>4. \A i, j \in Slots : Probe(n, i) = Probe(n, j) => i = j
    BY <1>1, <1>2 DEF Slots
  <1>5. ASSUME NEW s \in Slots
        PROVE  \E i \in Slots : Probe(n, i) = s
    <2>1. CASE s < r
      <3>1. s - r + Size \in Slots /\ Probe(n, s - r + Size) = s
        BY <1>1, <1>2, <2>1 DEF Slots
      <3> QED
        BY <3>1
    <2>2. CASE ~(s < r)
      <3>1. s - r \in Slots /\ Probe(n, s - r) = s
        BY <1>1, <1>2, <2>2 DEF Slots
      <3> QED
        BY <3>1
    <2> QED
      BY <2>1, <2>2
  <1> QED
    BY <1>3, <1>4, <1>5

(* What a slot holds, by its name.                                         *)
LEMMA SlotKinds ==
  ASSUME NEW t, Typed(t), NEW s \in Slots
  PROVE  /\ t[s] \in Var <=> t[s].name \in Names
         /\ t[s] \in Var => t[s].value \in Handlers /\ t[s].name \notin {"empty", "deleted"}
         /\ t[s].name = "empty" <=> t[s] = Empty
         /\ t[s].name = "deleted" <=> t[s] = Deleted
         /\ t[s] \in Var \/ t[s] = Empty \/ t[s] = Deleted
  <1>1. t[s] \in Var \/ t[s] = Empty \/ t[s] = Deleted
    BY DEF Typed
  <1>2. \A v \in Var : v.name \in Names /\ v.value \in Handlers
    BY DEF Var
  <1>3. "empty" \notin Names /\ "deleted" \notin Names
    BY ConstantFacts
  <1>4. Empty.name = "empty" /\ Deleted.name = "deleted" /\ "empty" # "deleted"
    BY DEF Empty, Deleted
  <1> QED
    BY <1>1, <1>2, <1>3, <1>4

(* A name that is in the table is found where it is.                       *)
LEMMA FindHeld ==
  ASSUME NEW t, Sound(t), NEW n \in Names, NEW s \in Slots, t[s].name = n
  PROVE  Find(n, t) = s
  <1> DEFINE ends == {i \in Slots : t[Probe(n, i)].name \in {"empty", n}}
             before == IF ends = {} THEN Slots ELSE 0 .. Min(ends)
             here == {i \in before : t[Probe(n, i)].name = n}
             free == {i \in before : t[Probe(n, i)].name \in {"empty", "deleted"}}
  <1>1. Find(n, t) = IF here # {} THEN Probe(n, Min(here))
                     ELSE IF free # {} THEN Probe(n, Min(free)) ELSE -1
    BY DEF Find, Probe
  <1>2. PICK i \in Slots : Probe(n, i) = s
    BY ProbeFacts
  <1>3. i \in ends
    BY <1>2
  <1>4. Min(ends) \in ends /\ \A j \in ends : Min(ends) <= j
    <2>1. ends \in SUBSET (0 .. Size - 1) /\ ends # {} /\ Size - 1 \in Nat
      BY <1>3, ConstantFacts
    <2> HIDE DEF ends
    <2> QED
      BY <2>1, MinOf
  <1> DEFINE m == Min(ends)
  <1>5. m \in Slots /\ m <= i
    BY <1>3, <1>4
  <1>6. t[Probe(n, m)].name = n
    <2>1. CASE m = i
      BY <1>2, <2>1
    <2>2. CASE m # i
      <3>1. m \in 0 .. i - 1
        BY <1>5, <1>2, <2>2, ConstantFacts
      <3>2. t[Probe(n, m)].name # "empty"
        BY <1>2, <3>1 DEF Sound, Path
      <3> QED
        BY <1>4, <3>2
    <2> QED
      BY <2>1, <2>2
  <1>7. \A j \in Slots : t[Probe(n, j)].name = n => j = i
    <2>1. \A j \in Slots : Probe(n, j) \in Slots
      BY ProbeFacts
    <2>2. \A u \in Slots : t[u].name = n => t[u] \in Var
      BY SlotKinds DEF Sound
    <2>3. \A j \in Slots : t[Probe(n, j)].name = n => Probe(n, j) = s
      BY <2>1, <2>2 DEF Sound, Unique
    <2> QED
      BY <1>2, <2>3, ProbeFacts
  <1>8. m = i
    BY <1>5, <1>6, <1>7
  <1>9. before = 0 .. i /\ i \in before /\ before \subseteq Slots
    <2>1. before = 0 .. i
      BY <1>3, <1>8
    <2>2. i \in 0 .. i /\ 0 .. i \subseteq Slots
      BY ConstantFacts
    <2> QED
      BY <2>1, <2>2
  <1>10. here = {i}
    BY <1>2, <1>7, <1>9
  <1>11. Min(here) = i
    <2>1. {i} \in SUBSET (0 .. Size - 1) /\ Size - 1 \in Nat
      BY <1>2, ConstantFacts
    <2>2. Min({i}) \in {i}
      BY <2>1, MinOf
    <2> QED
      BY <1>10, <2>2
  <1> HIDE DEF here, free, before, ends
  <1> QED
    BY <1>1, <1>2, <1>10, <1>11

(* As long as a name is in no slot, some slot has no name.                 *)
LEMMA SomeFree ==
  ASSUME NEW t, Sound(t), NEW n \in Names, Absent(n, t)
  PROVE  \E s \in Slots : t[s] \notin Var
  <1>1. SUFFICES ASSUME \A s \in Slots : t[s] \in Var
                 PROVE  FALSE
    OBVIOUS
  <1> DEFINE Others == Names \ {n}
             f == [s \in Slots |-> t[s].name]
  <1>2. f \in [Slots -> Others]
    BY <1>1, SlotKinds DEF Sound, Absent
  <1>3. IsFiniteSet(Others) /\ Cardinality(Others) = Cardinality(Names) - 1
    BY TableAssumption, FS_RemoveElement
  <1>4. IsFiniteSet(Slots) /\ Cardinality(Slots) = Size
    <2>1. 0 \in Int /\ Size - 1 \in Int /\ ~(0 > Size - 1) /\ Size - 1 - 0 + 1 = Size
      BY ConstantFacts
    <2> QED
      BY <2>1, FS_Interval, ConstantFacts
  <1>5. Cardinality(Others) < Cardinality(Slots)
    <2>1. Cardinality(Names) \in Nat /\ Cardinality(Names) <= Size
      BY TableAssumption, FS_CardinalityType
    <2> QED
      BY <1>3, <1>4, <2>1, ConstantFacts
  <1>6. PICK x, y \in Slots : x # y /\ f[x] = f[y]
    <2> HIDE DEF f, Others
    <2> QED
      BY <1>2, <1>3, <1>4, <1>5, FS_PigeonHole
  <1> QED
    BY <1>1, <1>6 DEF Sound, Unique

(* A name that is in no slot gets the first free one on its way, and there *)
(* is one as long as there are no more names than slots.                   *)
LEMMA FindAbsent ==
  ASSUME NEW t, Sound(t), NEW n \in Names, Absent(n, t)
  PROVE  \E i \in Slots : /\ Find(n, t) = Probe(n, i)
                          /\ t[Probe(n, i)] \in {Empty, Deleted}
                          /\ \A j \in 0 .. i - 1 : t[Probe(n, j)].name # "empty"
  <1> DEFINE ends == {i \in Slots : t[Probe(n, i)].name \in {"empty", n}}
             before == IF ends = {} THEN Slots ELSE 0 .. Min(ends)
             here == {i \in before : t[Probe(n, i)].name = n}
             free == {i \in before : t[Probe(n, i)].name \in {"empty", "deleted"}}
  <1>1. Find(n, t) = IF here # {} THEN Probe(n, Min(here))
                     ELSE IF free # {} THEN Probe(n, Min(free)) ELSE -1
    BY DEF Find, Probe
  <1>2. /\ ends \in SUBSET (0 .. Size - 1) /\ Size - 1 \in Nat
        /\ \A i \in ends : i \in Slots /\ t[Probe(n, i)].name = "empty"
    <2>1. \A i \in Slots : Probe(n, i) \in Slots
      BY ProbeFacts
    <2> QED
      BY <2>1, ConstantFacts DEF Absent
  <1>3. ends # {} => Min(ends) \in ends
    <2> HIDE DEF ends
    <2> QED
      BY <1>2, MinOf
  <1>4. before \subseteq Slots /\ \A i \in before : \A j \in 0 .. i - 1 : j \in before
    <2>1. CASE ends = {}
      BY <2>1, ConstantFacts
    <2>2. CASE ends # {}
      <3>1. before = 0 .. Min(ends) /\ Min(ends) \in 0 .. Size - 1
        BY <2>2, <1>2, <1>3
      <3> HIDE DEF before, ends
      <3> QED
        BY <3>1, ConstantFacts
    <2> QED
      BY <2>1, <2>2
  <1>5. here = {}
    BY <1>4, ProbeFacts DEF Absent
  <1>6. free # {}
    <2>1. CASE ends # {}
      <3>1. Min(ends) \in before /\ t[Probe(n, Min(ends))].name = "empty"
        BY <1>2, <1>3, <2>1
      <3> HIDE DEF before, ends
      <3> QED
        BY <3>1
    <2>2. CASE ends = {}
      <3>1. PICK s \in Slots : t[s] \notin Var
        BY SomeFree
      <3>2. t[s].name \in {"empty", "deleted"}
        BY <3>1, SlotKinds DEF Sound
      <3>3. PICK k \in Slots : Probe(n, k) = s
        BY ProbeFacts
      <3>4. k \in before
        BY <2>2
      <3> HIDE DEF before
      <3> QED
        BY <3>2, <3>3, <3>4
    <2> QED
      BY <2>1, <2>2
  <1> DEFINE m == Min(free)
  <1>7. m \in free /\ \A j \in free : m <= j
    <2>1. free \in SUBSET (0 .. Size - 1)
      BY <1>4, ConstantFacts
    <2> HIDE DEF free
    <2> QED
      BY <1>2, <1>6, <2>1, MinOf
  <1>8. m \in Slots /\ Probe(n, m) \in Slots /\ t[Probe(n, m)].name \in {"empty", "deleted"}
    BY <1>4, <1>7, ProbeFacts
  <1>9. t[Probe(n, m)] \in {Empty, Deleted}
    BY <1>8, SlotKinds DEF Sound
  <1>10. \A j \in 0 .. m - 1 : t[Probe(n, j)].name # "empty"
    <2>1. SUFFICES ASSUME NEW j \in 0 .. m - 1, t[Probe(n, j)].name = "empty"
                   PROVE  FALSE
      OBVIOUS
    <2>2. j \in free
      BY <1>4, <1>7, <2>1
    <2> HIDE DEF m, free
    <2>3. PICK x \in Nat : x = m
      BY <1>8, ConstantFacts
    <2>4. j \in Int /\ j < x
      BY <2>3
    <2>5. x <= j
      BY <1>7, <2>2, <2>3
    <2> QED
      BY <2>4, <2>5
  <1>11. Find(n, t) = Probe(n, m)
    BY <1>1, <1>5, <1>6
  <1> QED
    BY <1>8, <1>9, <1>10, <1>11

(* get_hash_var answers with what the slot of the name holds, or nothing.  *)
LEMMA GetHeld ==
  ASSUME NEW t, Sound(t), NEW n \in Names, NEW s \in Slots, t[s].name = n
  PROVE  Holds(n, t) /\ GetHashVar(n, t) = t[s].value /\ t[s].value \in Handlers
  <1>1. Find(n, t) = s
    BY FindHeld
  <1>2. t[s] \in Var /\ t[s].value \in Handlers
    BY SlotKinds DEF Sound
  <1> QED
    BY <1>1, <1>2 DEF Holds, GetHashVar

(* get_hash_var finds nothing for a name that no slot has.                 *)
LEMMA GetAbsent ==
  ASSUME NEW t, Sound(t), NEW n \in Names, Absent(n, t)
  PROVE  ~Holds(n, t) /\ GetHashVar(n, t) = NULL
  <1>1. PICK i \in Slots : Find(n, t) = Probe(n, i) /\ t[Probe(n, i)] \in {Empty, Deleted}
    BY FindAbsent
  <1>2. Probe(n, i) \in Slots
    BY ProbeFacts
  <1>3. t[Probe(n, i)].name \notin Names
    BY <1>1, TableAssumption DEF Empty, Deleted
  <1>4. t[Find(n, t)] \notin Var
    BY <1>1, <1>2, <1>3, SlotKinds DEF Sound
  <1> QED
    BY <1>4 DEF Holds, GetHashVar

(* A slot changes hands: the names that are in neither the old nor the new *)
(* table at that slot keep what they are bound to.                         *)
LEMMA OthersKept ==
  ASSUME NEW t, Sound(t), NEW u, Sound(u), NEW f \in Slots, NEW m \in Names,
         \A s \in Slots \ {f} : u[s] = t[s], t[f].name # m, u[f].name # m
  PROVE  GetHashVar(m, u) = GetHashVar(m, t)
  <1>1. CASE Absent(m, t)
    <2>1. Absent(m, u)
      BY <1>1 DEF Absent
    <2> QED
      BY <1>1, <2>1, GetAbsent
  <1>2. CASE ~Absent(m, t)
    <2>1. PICK s \in Slots : t[s].name = m
      BY <1>2 DEF Absent
    <2>2. u[s] = t[s] /\ u[s].name = m
      BY <2>1
    <2> QED
      BY <2>1, <2>2, GetHeld
  <1> QED
    BY <1>1, <1>2

(* set_hash_var finds a slot for the name: its own or a free one, and no   *)
(* empty slot comes before it.                                             *)
LEMMA FoundSlot ==
  ASSUME NEW t, Sound(t), NEW n \in Names
  PROVE  \E i \in Slots : /\ Find(n, t) = Probe(n, i) /\ Probe(n, i) \in Slots
                          /\ t[Probe(n, i)].name \in {n, "empty", "deleted"}
                          /\ \A j \in 0 .. i - 1 : t[Probe(n, j)].name # "empty"
                          /\ t[Probe(n, i)].name = n \/ Absent(n, t)
  <1>1. CASE Absent(n, t)
    <2>1. PICK i \in Slots : /\ Find(n, t) = Probe(n, i)
                             /\ t[Probe(n, i)] \in {Empty, Deleted}
                             /\ \A j \in 0 .. i - 1 : t[Probe(n, j)].name # "empty"
      BY <1>1, FindAbsent
    <2>2. Probe(n, i) \in Slots /\ t[Probe(n, i)].name \in {"empty", "deleted"}
      BY <2>1, ProbeFacts DEF Empty, Deleted
    <2> QED
      BY <1>1, <2>1, <2>2
  <1>2. CASE ~Absent(n, t)
    <2>1. PICK s \in Slots : t[s].name = n
      BY <1>2 DEF Absent
    <2>2. PICK i \in Slots : Probe(n, i) = s
      BY ProbeFacts
    <2>3. Find(n, t) = s
      BY <2>1, FindHeld
    <2>4. \A j \in 0 .. i - 1 : t[Probe(n, j)].name # "empty"
      BY <2>1, <2>2 DEF Sound, Path
    <2> QED
      BY <2>1, <2>2, <2>3, <2>4
  <1> QED
    BY <1>1, <1>2

(* set_hash_var keeps the table sound and changes one binding.             *)
LEMMA SetKeeps ==
  ASSUME NEW t, Sound(t), NEW n \in Names, NEW h \in Handlers,
         NEW u, u = [t EXCEPT ![Find(n, t)] = [name |-> n, value |-> h]]
  PROVE  Sound(u) /\ Rebinds(t, u, n, h)
  <1>1. PICK i \in Slots : /\ Find(n, t) = Probe(n, i) /\ Probe(n, i) \in Slots
                           /\ t[Probe(n, i)].name \in {n, "empty", "deleted"}
                           /\ \A j \in 0 .. i - 1 : t[Probe(n, j)].name # "empty"
                           /\ t[Probe(n, i)].name = n \/ Absent(n, t)
    BY FoundSlot
  <1> DEFINE f == Probe(n, i)
             new == [name |-> n, value |-> h]
  <1>2. new \in Var /\ new.name = n /\ new.value = h
    BY DEF Var
  <1>3. DOMAIN t = Slots /\ f \in Slots
    BY <1>1 DEF Sound, Typed
  <1>4. u[f] = new /\ \A s \in Slots \ {f} : u[s] = t[s]
    BY <1>1, <1>3
  <1>5. Typed(u)
    BY <1>2, <1>1 DEF Sound, Typed
  <1> HIDE DEF new
  <1>6. \A s \in Slots \ {f} : t[s].name # n
    <2>1. CASE t[f].name = n
      <3>1. t[f] \in Var
        BY <1>3, <2>1, SlotKinds DEF Sound
      <3>2. \A s \in Slots : t[s].name = n => t[s] \in Var
        BY SlotKinds DEF Sound
      <3> QED
        BY <1>3, <2>1, <3>1, <3>2 DEF Sound, Unique
    <2>2. CASE Absent(n, t)
      BY <2>2 DEF Absent
    <2> QED
      BY <1>1, <2>1, <2>2
  <1>7. Unique(u)
    <2>1. SUFFICES ASSUME NEW x \in Slots, NEW y \in Slots, u[x] \in Var, u[x].name = u[y].name
                   PROVE  x = y
      BY DEF Unique
    <2>2. CASE x = f \/ y = f
      BY <1>2, <1>4, <1>6, <2>1, <2>2
    <2>3. CASE x # f /\ y # f
      BY <1>4, <2>1, <2>3 DEF Sound, Unique
    <2> QED
      BY <2>2, <2>3
  <1>8. Path(u)
    <2>1. SUFFICES ASSUME NEW m \in Names, NEW k \in Slots, u[Probe(m, k)].name = m,
                          NEW j \in 0 .. k - 1
                   PROVE  u[Probe(m, j)].name # "empty"
      BY DEF Path
    <2>2. j \in Slots /\ Probe(m, j) \in Slots /\ Probe(m, k) \in Slots
      <3>1. j \in Slots
        BY ConstantFacts
      <3> QED
        BY <3>1, ProbeFacts
    <2>3. CASE Probe(m, j) = f
      BY <1>2, <1>4, <2>3, ConstantFacts
    <2>4. CASE Probe(m, j) # f /\ Probe(m, k) # f
      <3>1. t[Probe(m, k)].name = m
        BY <1>4, <2>1, <2>2, <2>4
      <3>2. t[Probe(m, j)].name # "empty"
        BY <3>1 DEF Sound, Path
      <3> QED
        BY <1>4, <2>2, <2>4, <3>2
    <2>5. CASE Probe(m, j) # f /\ Probe(m, k) = f
      <3>1. m = n
        BY <1>2, <1>4, <2>1, <2>5
      <3>2. k = i
        BY <2>5, <3>1, ProbeFacts
      <3> QED
        BY <1>1, <1>4, <2>2, <2>5, <3>1, <3>2
    <2> QED
      BY <2>3, <2>4, <2>5
  <1>9. Sound(u)
    BY <1>5, <1>7, <1>8 DEF Sound
  <1>10. ASSUME NEW m \in Names
         PROVE  GetHashVar(m, u) = IF m = n THEN h ELSE GetHashVar(m, t)
    <2>1. CASE m = n
      <3>1. u[f].name = n /\ u[f].value = h
        BY <1>2, <1>4
      <3> HIDE DEF f
      <3>2. GetHashVar(n, u) = h
        BY <1>3, <1>9, <3>1, GetHeld
      <3> QED
        BY <2>1, <3>2
    <2>2. CASE m # n
      <3>1. t[f].name # m /\ u[f].name # m
        BY <1>1, <1>2, <1>4, <2>2, ConstantFacts
      <3> HIDE DEF f
      <3>2. GetHashVar(m, u) = GetHashVar(m, t)
        BY <1>3, <1>4, <1>9, <3>1, OthersKept
      <3> QED
        BY <2>2, <3>2
    <2> QED
      BY <2>1, <2>2
  <1> QED
    BY <1>9, <1>10 DEF Rebinds

(* unset_hash_var leaves a mark that no search takes for an end.           *)
LEMMA UnsetKeeps ==
  ASSUME NEW t, Sound(t), NEW n \in Names, Holds(n, t),
         NEW u, u = [t EXCEPT ![Find(n, t)] = Deleted]
  PROVE  Sound(u) /\ Rebinds(t, u, n, NULL)
  <1>1. ~Absent(n, t)
    BY GetAbsent
  <1>2. PICK f \in Slots : t[f].name = n
    BY <1>1 DEF Absent
  <1>3. Find(n, t) = f
    BY <1>2, FindHeld
  <1>4. u[f] = Deleted /\ (\A s \in Slots \ {f} : u[s] = t[s]) /\ Typed(u)
    BY <1>3 DEF Sound, Typed
  <1>5. Deleted.name = "deleted" /\ Deleted \notin Var
    BY TableAssumption DEF Deleted, Var
  <1>6. t[f] \in Var /\ \A s \in Slots : t[s].name = n => t[s] \in Var
    BY <1>2, SlotKinds DEF Sound
  <1>7. Unique(u)
    <2>1. SUFFICES ASSUME NEW x \in Slots, NEW y \in Slots, u[x] \in Var, u[x].name = u[y].name
                   PROVE  x = y
      BY DEF Unique
    <2>2. x # f /\ u[x] = t[x] /\ u[x].name \in Names
      BY <1>4, <1>5, <2>1 DEF Var
    <2>3. y # f
      BY <1>4, <1>5, <2>1, <2>2, ConstantFacts
    <2> QED
      BY <1>4, <2>1, <2>2, <2>3 DEF Sound, Unique
  <1>8. Path(u)
    <2>1. SUFFICES ASSUME NEW m \in Names, NEW k \in Slots, u[Probe(m, k)].name = m,
                          NEW j \in 0 .. k - 1
                   PROVE  u[Probe(m, j)].name # "empty"
      BY DEF Path
    <2>2. j \in Slots /\ Probe(m, j) \in Slots /\ Probe(m, k) \in Slots
      <3>1. j \in Slots
        BY ConstantFacts
      <3> QED
        BY <3>1, ProbeFacts
    <2>3. Probe(m, k) # f
      BY <1>4, <1>5, <2>1, ConstantFacts
    <2>4. t[Probe(m, j)].name # "empty"
      BY <1>4, <2>1, <2>2, <2>3 DEF Sound, Path
    <2> QED
      BY <1>4, <1>5, <2>2, <2>4
  <1>9. Sound(u)
    BY <1>4, <1>7, <1>8 DEF Sound
  <1>10. ASSUME NEW m \in Names
         PROVE  GetHashVar(m, u) = IF m = n THEN NULL ELSE GetHashVar(m, t)
    <2>1. CASE m = n
      <3>1. Absent(n, u)
        BY <1>2, <1>4, <1>5, <1>6, ConstantFacts DEF Sound, Unique, Absent
      <3> QED
        BY <1>9, <2>1, <3>1, GetAbsent
    <2>2. CASE m # n
      <3>1. t[f].name # m /\ u[f].name # m
        BY <1>2, <1>4, <1>5, <2>2, ConstantFacts
      <3>2. \A s \in Slots \ {f} : u[s] = t[s]
        BY <1>4
      <3>3. GetHashVar(m, u) = GetHashVar(m, t)
        BY ONLY Sound(t), <1>9, f \in Slots, m \in Names, <3>1, <3>2, OthersKept
      <3> QED
        BY <2>2, <3>3
    <2> QED
      BY <2>1, <2>2
  <1> QED
    BY <1>9, <1>10 DEF Rebinds

-----------------------------------------------------------------------------

(* The table stays sound, and download is the only operation whose handler *)
(* is taken away.                                                          *)
LEMMA EmptySound == Sound([s \in Slots |-> Empty])
  <1> DEFINE t == [s \in Slots |-> Empty]
  <1>1. Empty.name = "empty" /\ Empty \notin Var
    BY TableAssumption DEF Empty, Var
  <1>2. Typed(t) /\ \A s \in Slots : t[s] = Empty
    BY DEF Typed
  <1> HIDE DEF t
  <1>3. Unique(t)
    BY <1>1, <1>2 DEF Unique
  <1>4. Path(t)
    <2>1. ASSUME NEW n \in Names, NEW i \in Slots
          PROVE  t[Probe(n, i)].name # n
      BY <1>1, <1>2, ProbeFacts, ConstantFacts
    <2> QED
      BY <2>1 DEF Path
  <1> QED
    BY <1>2, <1>3, <1>4 DEF Sound, t

(* The invariant holds of the empty table.                                 *)
LEMMA InitTableInv == Init => TableInv
  BY EmptySound DEF Init, TableInv, HandlersLeft

(* And every step keeps it.                                                *)
LEMMA NextTableInv == TableInv /\ [Next]_vars => TableInv'
  <1>1. SUFFICES ASSUME TableInv, [Next]_vars
                 PROVE  TableInv'
    OBVIOUS
  <1>2. ASSUME ConfigBindKey
        PROVE  TableInv'
    <2>1. PICK n \in Names : UnsetHashVar(n) \/ \E h \in Handlers : SetHashVar(n, h)
      BY <1>2 DEF ConfigBindKey
    <2>2. Sound(tab) /\ HandlersLeft'
      BY <1>1, <1>2 DEF TableInv, ConfigBindKey, HandlersLeft
    <2>3. CASE UnsetHashVar(n)
      <3>1. PICK u : u = tab'
        OBVIOUS
      <3>2. Sound(u)
        BY <2>2, <2>3, <3>1, UnsetKeeps DEF UnsetHashVar
      <3> QED
        BY <2>2, <3>1, <3>2 DEF TableInv
    <2>4. CASE \E h \in Handlers : SetHashVar(n, h)
      <3>1. PICK u : u = tab'
        OBVIOUS
      <3>2. PICK h \in Handlers : u = [tab EXCEPT ![Find(n, tab)] = [name |-> n, value |-> h]]
        BY <2>4, <3>1 DEF SetHashVar
      <3>3. Sound(u)
        BY <2>2, <3>2, SetKeeps
      <3> QED
        BY <2>2, <3>1, <3>3 DEF TableInv
    <2> QED
      BY <2>1, <2>3, <2>4
  <1>3. ASSUME Configured
        PROVE  TableInv'
    BY <1>1, <1>3 DEF TableInv, Configured, HandlersLeft
  <1>4. CASE UNCHANGED vars
    BY <1>1, <1>4 DEF TableInv, vars, HandlersLeft
  <1> QED
    BY <1>1, <1>2, <1>3, <1>4 DEF Next

(* The inductive invariant of the table.                                   *)
THEOREM TableSound == Spec => []TableInv
  BY InitTableInv, NextTableInv, PTL DEF Spec

(* The table holds nothing but bindings and marks, and its count never     *)
(* rises.                                                                  *)
THEOREM TypeCorrect == Spec => []TypeOK
  <1> DEFINE Small == cap \in -MaxUnset .. 0 /\ configured \in BOOLEAN
  <1>1. Init => Small
    <2>1. 0 \in -MaxUnset .. 0
      BY TableAssumption
    <2> QED
      BY <2>1 DEF Init
  <1>2. Small /\ [Next]_vars => Small'
    <2>1. MaxUnset \in Nat
      BY TableAssumption
    <2>2. ASSUME Small, ConfigBindKey
          PROVE  Small'
      BY <2>1, <2>2 DEF ConfigBindKey, UnsetHashVar, SetHashVar
    <2>3. ASSUME Small, Configured
          PROVE  Small'
      BY <2>1, <2>3 DEF Configured
    <2>4. ASSUME Small, UNCHANGED vars
          PROVE  Small'
      BY <2>4 DEF vars
    <2> QED
      BY <2>2, <2>3, <2>4 DEF Next
  <1>3. TableInv /\ Small => TypeOK
    <2>1. Order \in [DOMAIN Order -> Handlers \cup {NULL}]
      BY TableAssumption, SeqFacts
    <2>2. UnsetHandler(Order, Download) \in [DOMAIN Order -> Handlers \cup {NULL}]
      BY <2>1 DEF UnsetHandler
    <2> QED
      BY <2>1, <2>2 DEF TableInv, Sound, Typed, HandlersLeft, TypeOK
  <1> QED
    BY <1>1, <1>2, <1>3, TableSound, PTL DEF Spec

(* No name is in two slots, though a mark before its slot may be taken by  *)
(* another name or by itself: set_hash_var looks past the marks.           *)
THEOREM NamesUnique == Spec => []NoNameTwice
  <1>1. TableInv => NoNameTwice
    BY DEF TableInv, Sound, Unique, NoNameTwice
  <1> QED
    BY <1>1, TableSound, PTL

(* set_hash_var and unset_hash_var change the one binding they name, for   *)
(* every table that bindings and their removal can lead to.                *)
THEOREM OneBinding == Spec => OneBindingChanges
  <1> DEFINE Changes == \A n \in Names :
               /\ UnsetHashVar(n) => Bindings(tab') = [Bindings(tab) EXCEPT ![n] = NULL]
               /\ \A h \in Handlers :
                     SetHashVar(n, h) => Bindings(tab') = [Bindings(tab) EXCEPT ![n] = h]
  <1>1. TableInv /\ [Next]_vars => [Changes]_vars
    <2>1. SUFFICES ASSUME Sound(tab), NEW n \in Names
                   PROVE  /\ UnsetHashVar(n) => Bindings(tab') = [Bindings(tab) EXCEPT ![n] = NULL]
                          /\ \A h \in Handlers :
                                SetHashVar(n, h) => Bindings(tab') = [Bindings(tab) EXCEPT ![n] = h]
      BY DEF TableInv
    <2>2. ASSUME UnsetHashVar(n)
          PROVE  Bindings(tab') = [Bindings(tab) EXCEPT ![n] = NULL]
      <3>1. PICK u : u = tab'
        OBVIOUS
      <3>2. u = [tab EXCEPT ![Find(n, tab)] = Deleted] /\ Holds(n, tab)
        BY <2>2, <3>1 DEF UnsetHashVar
      <3>3. Sound(u) /\ Rebinds(tab, u, n, NULL)
        BY <2>1, <3>2, UnsetKeeps
      <3> QED
        BY <3>1, <3>3 DEF Bindings, Rebinds
    <2>3. ASSUME NEW h \in Handlers, SetHashVar(n, h)
          PROVE  Bindings(tab') = [Bindings(tab) EXCEPT ![n] = h]
      <3>1. PICK u : u = tab'
        OBVIOUS
      <3>2. u = [tab EXCEPT ![Find(n, tab)] = [name |-> n, value |-> h]]
        BY <2>3, <3>1 DEF SetHashVar
      <3>3. Sound(u) /\ Rebinds(tab, u, n, h)
        BY <2>1, <3>2, SetKeeps
      <3> QED
        BY <3>1, <3>3 DEF Bindings, Rebinds
    <2> QED
      BY <2>2, <2>3
  <1> QED
    BY <1>1, TableSound, PTL DEF Spec, OneBindingChanges

(* next_hash_pair finds the names that get_hash_var does, and with a       *)
(* downloader the help lists the keys that work and no others.             *)
THEOREM HelpRight == Spec => []HelpListsKeys
  <1>1. TableInv => HelpListsKeys
    <2>1. SUFFICES ASSUME Sound(tab), HandlersLeft
                   PROVE  HelpListsKeys
      BY DEF TableInv
    <2>2. ASSUME NEW n \in Names
          PROVE  /\ n \in Enumerated <=> n \in Bound
                 /\ n \in Bound => GetHashVar(n, tab) \in Handlers
      <3>1. CASE Absent(n, tab)
        BY <2>1, <3>1, GetAbsent DEF Enumerated, Bound, Absent
      <3>2. CASE ~Absent(n, tab)
        <4>1. PICK s \in Slots : tab[s].name = n
          BY <3>2 DEF Absent
        <4>2. tab[s] \in Var
          BY <2>1, <4>1, SlotKinds DEF Sound
        <4>3. GetHashVar(n, tab) \in Handlers
          BY <2>1, <4>1, GetHeld
        <4> QED
          BY <4>1, <4>2, <4>3, ConstantFacts DEF Enumerated, Bound
      <3> QED
        BY <3>1, <3>2
    <2>3. Enumerated \subseteq Names /\ Bound \subseteq Names
      BY DEF Enumerated, Bound, Var
    <2>4. Enumerated = Bound
      BY <2>2, <2>3
    <2>5. ASSUME Download \in Listed
          PROVE  HelpPage = Bound
      <3>1. PICK i \in DOMAIN Order : handler_names[i] = Download
        BY <2>5 DEF Listed
      <3>2. handler_names = Order
        BY <2>1, <3>1, TableAssumption DEF HandlersLeft, UnsetHandler
      <3>3. Listed = Handlers
        <4>1. \A k \in DOMAIN Order : Order[k] \in Handlers /\ Order[k] # NULL
          BY SeqFacts, ConstantFacts
        <4>2. \A k \in DOMAIN Order : 1 .. k \subseteq DOMAIN Order
          BY SeqFacts
        <4>3. Listed = {Order[k] : k \in DOMAIN Order}
          BY <3>2, <4>1, <4>2 DEF Listed
        <4> QED
          BY <4>3, TableAssumption DEF Range
      <3> QED
        BY <2>2, <2>3, <2>4, <3>3 DEF HelpPage
    <2> QED
      BY <2>4, <2>5 DEF HelpListsKeys
  <1> QED
    BY <1>1, TableSound, PTL
=============================================================================
