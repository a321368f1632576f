-------------------------- MODULE PagerPipeProofs --------------------------
(***************************************************************************)
(* What showing an article leaves behind and what the pager gets of it,    *)
(* for every page and every size of the pipe, however the program and the  *)
(* pager take turns, wherever the pager leaves and the terminal is resized.*)
(***************************************************************************)
EXTENDS PagerPipe, SequenceTheorems, TLAPS

(* Who holds which end of the pipe follows from where the two processes    *)
(* are: what neither of them closes would be left behind.                  *)
Ends ==
    /\ child = "none" <=> pc = "list"
    /\ "parent" \in readers <=> pc = "forked"
    /\ "parent" \in writers <=> pc \in {"forked", "mark", "write"}
    /\ "child" \in readers <=> child \in {"forked", "exec", "pager", "finished"}
    /\ "child" \in writers <=> child = "forked"

(* The mark comes before anything is written.                              *)
Marked ==
    /\ pc \in {"forked", "mark"} => pipe = <<>> /\ got = <<>>
    /\ pc = "mark" => page = "article"
    /\ page = "article" /\ (got # <<>> \/ pipe # <<>> \/ pc \in {"write", "wait", "killed"})
         => viewed
    /\ viewed => page = "article"

(* What the pager got and what is in the pipe are, one after the other, in *)
(* order, and come before what is still to be written.                     *)
Ordered(s) == \A i, j \in DOMAIN s : i < j => Later(s[i], s[j])
Sent(u, c, o) == u[1] < c \/ (u[1] = c /\ u[2] <= o)
Sorted ==
    /\ Ordered(got) /\ Ordered(pipe)
    /\ \A i \in DOMAIN got, j \in DOMAIN pipe : Later(got[i], pipe[j])
    /\ \A i \in DOMAIN got : Sent(got[i], call, off)
    /\ \A i \in DOMAIN pipe : Sent(pipe[i], call, off)

(* Nothing that was to be written by now is missing while the pager lives, *)
(* unless a write was cut short; and one that has seen the end has seen a  *)
(* pipe that was closed after the last write, or by the program's end.     *)
Has(s, u) == \E i \in DOMAIN s : s[i] = u
Delivered ==
    ~cut /\ child \notin {"none", "zombie"}
        => \A u \in Units : Sent(u, call, off) => Has(got, u) \/ Has(pipe, u)
Finishing ==
    /\ pc = "wait" => call = Len(Writes) + 1
    /\ child = "finished" => pipe = <<>> /\ pc \in {"wait", "killed"}

-----------------------------------------------------------------------------

(* What the assumptions say of the page.                                   *)
LEMMA WritesFacts ==
  /\ Len(Writes) \in Nat /\ DOMAIN Writes = 1 .. Len(Writes)
  /\ \A w \in 1 .. Len(Writes) : Writes[w] \in Nat \ {0}
  BY PipeAssumption, LenProperties, ElementOfSeq

(* The unit that a write puts into the pipe next.                          *)
LEMMA NextUnit ==
  ASSUME TypeOK, call <= Len(Writes)
  PROVE  <<call, off + 1>> \in Units
  <1>1. call \in 1 .. Len(Writes) /\ off + 1 \in Nat /\ off + 1 \in 1 .. Writes[call]
    BY WritesFacts DEF TypeOK
  <1> QED
    BY <1>1 DEF Units

(* TypeOK in two parts: the sequences, and the rest.                       *)
SeqsTyped == pipe \in Seq(Units) /\ Len(pipe) <= Capacity /\ got \in Seq(Units)
StateTyped ==
    /\ pc \in {"list", "forked", "mark", "write", "wait", "killed"}
    /\ child \in {"none", "forked", "exec", "pager", "finished", "zombie"}
    /\ readers \subseteq Processes /\ writers \subseteq Processes
    /\ page \in {"article", "help"}
    /\ leaked \in 0 .. MaxForks
PlaceTyped ==
    /\ call \in 1 .. Len(Writes) + 1
    /\ off \in Nat /\ (call <= Len(Writes) => off < Writes[call])
FlagsTyped == viewed \in BOOLEAN /\ cut \in BOOLEAN

(* TypeOK in the parts the proofs take it in.                              *)
LEMMA TypeParts ==
  /\ TypeOK <=> SeqsTyped /\ StateTyped /\ PlaceTyped /\ FlagsTyped
  /\ TypeOK' <=> SeqsTyped' /\ StateTyped' /\ PlaceTyped' /\ FlagsTyped'
  BY DEF TypeOK, SeqsTyped, StateTyped, PlaceTyped, FlagsTyped

(* An empty pipe is one.                                                   *)
LEMMA EmptyPipe == <<>> \in Seq(Units) /\ Len(<<>>) <= Capacity
  BY EmptySeq, PipeAssumption

(* The types hold at first.                                                *)
LEMMA TypeInit == Init => TypeOK
  <1> SUFFICES ASSUME Init PROVE TypeOK
    OBVIOUS
  <1>1. SeqsTyped
    BY EmptyPipe DEF Init, SeqsTyped
  <1>2. StateTyped /\ PlaceTyped
    BY PipeAssumption, WritesFacts DEF Init, StateTyped, PlaceTyped
  <1>3. FlagsTyped
    BY Zenon DEF Init, FlagsTyped
  <1> QED
    BY <1>1, <1>2, <1>3, TypeParts

(* Every step keeps what is in the pipe and what the pager got.            *)
LEMMA SeqsStep ==
  ASSUME TypeOK, [Next]_vars
  PROVE  SeqsTyped'
  <1>1. SeqsTyped
    BY TypeParts
  <1>2. CASE Fork
    BY <1>2, EmptyPipe DEF Fork, SeqsTyped
  <1>3. CASE ForkFails
    BY <1>1, <1>3, EmptyPipe DEF ForkFails, SeqsTyped
  <1>4. CASE WriteUnit
    <2>1. <<call, off + 1>> \in Units
      BY <1>4, NextUnit DEF WriteUnit
    <2> QED
      BY <1>1, <1>4, <2>1, AppendProperties, LenProperties, PipeAssumption
         DEF WriteUnit, SeqsTyped
  <1>5. CASE PagerReads
    BY <1>1, <1>5, AppendProperties, HeadTailProperties, LenProperties, PipeAssumption
       DEF PagerReads, SeqsTyped
  <1>6. CASE Exec \/ PagerLeaves
    BY <1>1, <1>6, EmptyPipe DEF Exec, PagerLeaves, Gone, SeqsTyped
  <1>7. CASE \/ CloseReadEnd \/ MarkRead \/ BrokenPipe \/ CloseWriteEnd \/ Wait
             \/ WriteCutShort \/ ChildSetup \/ PagerSeesEnd \/ UNCHANGED vars
    <2>1. UNCHANGED <<pipe, got>>
      BY <1>7 DEF CloseReadEnd, MarkRead, BrokenPipe, CloseWriteEnd, Wait, WriteCutShort,
                  ChildSetup, PagerSeesEnd, vars
    <2> QED
      BY <1>1, <2>1 DEF SeqsTyped
  <1> QED
    BY <1>2, <1>3, <1>4, <1>5, <1>6, <1>7 DEF Next, Parent, Pager

(* And how far the writes are.                                             *)
LEMMA PlaceStep ==
  ASSUME TypeOK, [Next]_vars
  PROVE  PlaceTyped'
  <1>1. PlaceTyped
    BY TypeParts
  <1>2. CASE Fork
    BY <1>2, WritesFacts DEF Fork, PlaceTyped
  <1>3. CASE WriteUnit
    BY <1>1, <1>3, WritesFacts DEF WriteUnit, Complete, PlaceTyped
  <1>4. CASE WriteCutShort
    BY <1>1, <1>4, WritesFacts DEF WriteCutShort, AfterCut, PlaceTyped
  <1>5. CASE \/ ForkFails \/ CloseReadEnd \/ MarkRead \/ BrokenPipe \/ CloseWriteEnd \/ Wait
             \/ Pager \/ PagerLeaves \/ UNCHANGED vars
    <2>1. UNCHANGED <<call, off>>
      BY <1>5 DEF ForkFails, CloseReadEnd, MarkRead, BrokenPipe, CloseWriteEnd, Wait, Pager,
                  ChildSetup, Exec, PagerReads, PagerSeesEnd, PagerLeaves, vars
    <2> QED
      BY <1>1, <2>1 DEF PlaceTyped
  <1> QED
    BY <1>2, <1>3, <1>4, <1>5 DEF Next, Parent

(* And the flags.                                                          *)
LEMMA FlagsStep ==
  ASSUME TypeOK, [Next]_vars
  PROVE  FlagsTyped'
  <1>1. FlagsTyped
    BY TypeParts
  <1>2. CASE Fork \/ ForkFails
    BY <1>2, Zenon DEF Fork, ForkFails, FlagsTyped
  <1>3. CASE MarkRead \/ WriteCutShort
    BY <1>1, <1>3, Zenon DEF MarkRead, AfterMark, WriteCutShort, FlagsTyped
  <1>4. CASE \/ CloseReadEnd \/ WriteUnit \/ BrokenPipe \/ CloseWriteEnd \/ Wait
             \/ Pager \/ PagerLeaves \/ UNCHANGED vars
    <2>1. UNCHANGED <<viewed, cut>>
      BY <1>4 DEF CloseReadEnd, WriteUnit, BrokenPipe, CloseWriteEnd, Wait, Pager,
                  ChildSetup, Exec, PagerReads, PagerSeesEnd, PagerLeaves, vars
    <2> QED
      BY <1>1, <2>1 DEF FlagsTyped
  <1> QED
    BY <1>2, <1>3, <1>4 DEF Next, Parent

(* And the places of the two processes.                                    *)
LEMMA StateStep ==
  ASSUME TypeOK, [Next]_vars
  PROVE  StateTyped'
  <1>1. StateTyped
    BY TypeParts
  <1>2. CASE Fork \/ ForkFails
    BY <1>1, <1>2, PipeAssumption DEF Fork, ForkFails, StateTyped
  <1>3. CASE Parent \/ WriteCutShort
    BY <1>1, <1>3 DEF Parent, CloseReadEnd, MarkRead, WriteUnit, BrokenPipe, CloseWriteEnd,
                      Wait, WriteCutShort, StateTyped
  <1>4. CASE Pager \/ PagerLeaves
    BY <1>1, <1>4 DEF Pager, ChildSetup, ChildEnds, Exec, PagerReads, PagerSeesEnd,
                      PagerLeaves, Gone, StateTyped
  <1>5. CASE UNCHANGED vars
    BY <1>1, <1>5 DEF vars, StateTyped
  <1> QED
    BY <1>2, <1>3, <1>4, <1>5 DEF Next

(* So every step keeps the types.                                          *)
LEMMA TypeStep == TypeOK /\ [Next]_vars => TypeOK'
  BY SeqsStep, PlaceStep, FlagsStep, StateStep, TypeParts

(* Every variable keeps its type: the pipe holds no more than it can, and  *)
(* a write never goes past the end of what it writes.                      *)
THEOREM TypeCorrect == Spec => []TypeOK
  BY TypeInit, TypeStep, PTL DEF Spec

-----------------------------------------------------------------------------

(* Every step keeps each process holding the ends its place says.          *)
LEMMA EndsStep ==
  ASSUME TypeOK, Ends, [Next]_vars
  PROVE  Ends'
  <1>1. readers \subseteq Processes /\ writers \subseteq Processes
    BY DEF TypeOK
  <1>2. CASE Fork \/ ForkFails
    BY <1>2 DEF Fork, ForkFails, Ends, Processes
  <1>3. CASE Parent \/ WriteCutShort
    BY <1>1, <1>3 DEF Parent, CloseReadEnd, MarkRead, WriteUnit, BrokenPipe, CloseWriteEnd,
                      Wait, ChildEnded, WriteCutShort, Ends
  <1>4. CASE Pager \/ PagerLeaves
    BY <1>1, <1>4 DEF Pager, ChildSetup, ChildEnds, Exec, PagerReads, PagerSeesEnd,
                      PagerLeaves, Gone, Ends
  <1>5. CASE UNCHANGED vars
    BY <1>5 DEF vars, Ends
  <1> QED
    BY <1>2, <1>3, <1>4, <1>5 DEF Next

(* So they always do.                                                      *)
LEMMA EndsInvariant == Spec => [](TypeOK /\ Ends)
  <1>1. Init => Ends
    BY DEF Init, Ends
  <1> QED
    BY <1>1, TypeCorrect, EndsStep, PTL DEF Spec

(* The list is shown again with no process and no end of a pipe left of    *)
(* the page: each of the four ends is closed by whoever holds it, and the  *)
(* pager was waited for.                                                   *)
THEOREM NothingStays == Spec => []NothingLeft
  <1>1. TypeOK /\ Ends => NothingLeft
    BY DEF TypeOK, Processes, Ends, NothingLeft
  <1> QED
    BY <1>1, EndsInvariant, PTL

(* Parent and pager are never both waiting, whatever the page, wherever    *)
(* the pager leaves: a full pipe is something for a pager to read, the     *)
(* parent has closed its end when it waits for the pager, and the child    *)
(* its copy before it became one; and nobody writes to a pager that left.  *)
THEOREM NobodyStuck == Spec => []NoDeadlock
  <1>1. ASSUME TypeOK, Ends, ParentWaits, PagerWaits
        PROVE  FALSE
    <2>1. readers \subseteq {"parent", "child"} /\ writers \subseteq {"parent", "child"}
      BY <1>1 DEF TypeOK, Processes
    <2>2. CASE pc = "write" /\ readers # {} /\ Len(pipe) = Capacity
      <3>1. child \notin {"none", "zombie"}
        BY <1>1, <2>1, <2>2 DEF Ends
      <3>2. pipe # <<>>
        BY <2>2, PipeAssumption
      <3> QED
        BY <1>1, <3>1, <3>2 DEF PagerWaits
    <2>3. CASE pc = "wait" /\ child # "zombie"
      <3>1. child # "none" /\ (child = "pager" => writers = {})
        BY <1>1, <2>1, <2>3 DEF Ends
      <3> QED
        BY <1>1, <2>3, <3>1 DEF PagerWaits
    <2> QED
      BY <1>1, <2>2, <2>3 DEF ParentWaits
  <1>2. TypeOK /\ Ends => NoDeadlock
    BY <1>1 DEF NoDeadlock
  <1> QED
    BY <1>2, EndsInvariant, PTL

(* The mark is made before anything can be in the pipe.                    *)
LEMMA MarkedStep ==
  ASSUME TypeOK, Ends, Marked, [Next]_vars
  PROVE  Marked'
  <1>1. CASE Fork
    BY <1>1 DEF Fork, Marked
  <1>2. CASE ForkFails
    BY <1>2 DEF ForkFails, Marked
  <1>3. CASE CloseReadEnd \/ MarkRead \/ BrokenPipe \/ CloseWriteEnd \/ Wait \/ WriteCutShort
    BY <1>3 DEF CloseReadEnd, MarkRead, AfterMark, BrokenPipe, CloseWriteEnd, Wait,
                WriteCutShort, Marked, TypeOK
  <1>4. CASE WriteUnit
    BY <1>4 DEF WriteUnit, Marked
  <1>5. CASE PagerReads
    BY <1>5 DEF PagerReads, Marked
  <1>6. CASE ChildSetup \/ Exec \/ PagerSeesEnd \/ PagerLeaves
    BY <1>6 DEF ChildSetup, Exec, PagerSeesEnd, PagerLeaves, Gone, Marked
  <1>7. CASE UNCHANGED vars
    BY <1>7 DEF vars, Marked
  <1> QED
    BY <1>1, <1>2, <1>3, <1>4, <1>5, <1>6, <1>7 DEF Next, Parent, Pager

(* An article of which the pager got anything is marked read, wherever the *)
(* program was killed, and the help marks none.                            *)
THEOREM MarkComesFirst == Spec => []MarkedFirst
  <1>1. Init => Marked
    BY DEF Init, Marked
  <1>2. Marked => MarkedFirst
    BY DEF Marked, MarkedFirst
  <1> QED
    BY <1>1, <1>2, EndsInvariant, MarkedStep, PTL DEF Spec

-----------------------------------------------------------------------------

(* A sequence of units, or none, as a function.                            *)
LEMMA UnitSeq ==
  ASSUME NEW s \in Seq(Units)
  PROVE  /\ Len(s) \in Nat /\ DOMAIN s = 1 .. Len(s)
         /\ \A i \in DOMAIN s : s[i] \in Units /\ s[i][1] \in Nat /\ s[i][2] \in Nat
  <1>1. Len(s) \in Nat /\ DOMAIN s = 1 .. Len(s)
    BY LenProperties
  <1>2. \A i \in DOMAIN s : s[i] \in Units
    BY <1>1, ElementOfSeq
  <1>3. \A u \in Units : u[1] \in Nat /\ u[2] \in Nat
    BY WritesFacts DEF Units
  <1> QED
    BY <1>1, <1>2, <1>3

(* What a write sends moves past every unit sent before.                   *)
LEMMA SentGrows ==
  ASSUME TypeOK, WriteUnit \/ WriteCutShort, NEW u \in Units, Sent(u, call, off)
  PROVE  Sent(u, call', off')
  <1>1. call \in Nat /\ off \in Nat /\ u[1] \in Nat /\ u[2] \in Nat
    BY WritesFacts DEF TypeOK, Units
  <1>2. CASE WriteUnit
    BY <1>1, <1>2 DEF WriteUnit, Sent
  <1>3. CASE WriteCutShort
    BY <1>1, <1>3 DEF WriteCutShort, AfterCut, Sent
  <1> QED
    BY <1>2, <1>3

(* The pipe after a write: what was in it, and the next unit.              *)
LEMMA PipeAfterWrite ==
  ASSUME TypeOK, WriteUnit
  PROVE  \E next \in Units :
           /\ next[1] = call /\ next[2] = off + 1
           /\ DOMAIN pipe' = 1 .. Len(pipe) + 1
           /\ \A i \in 1 .. Len(pipe) : pipe'[i] = pipe[i]
           /\ pipe'[Len(pipe) + 1] = next
  <1>1. PICK next \in Units : next = <<call, off + 1>>
    BY NextUnit DEF WriteUnit
  <1>2. pipe \in Seq(Units) /\ pipe' = Append(pipe, next)
    BY <1>1 DEF WriteUnit, TypeOK
  <1>3. pipe' \in Seq(Units) /\ Len(pipe') = Len(pipe) + 1
    BY <1>2, AppendProperties
  <1>4. DOMAIN pipe' = 1 .. Len(pipe) + 1
    BY <1>3, LenProperties
  <1>5. next[1] = call /\ next[2] = off + 1
    BY <1>1
  <1>6. /\ \A i \in 1 .. Len(pipe) : pipe'[i] = pipe[i]
        /\ pipe'[Len(pipe) + 1] = next
    BY <1>2, AppendProperties
  <1> QED
    BY <1>4, <1>5, <1>6

(* The pipe and what the pager got after it read a unit.                   *)
LEMMA PipeAfterRead ==
  ASSUME TypeOK, PagerReads
  PROVE  /\ Len(pipe) >= 1
         /\ DOMAIN pipe' = 1 .. Len(pipe) - 1
         /\ \A i \in DOMAIN pipe' : pipe'[i] = pipe[i + 1]
         /\ DOMAIN got' = 1 .. Len(got) + 1
         /\ \A i \in 1 .. Len(got) : got'[i] = got[i]
         /\ got'[Len(got) + 1] = pipe[1]
  <1>1. /\ pipe \in Seq(Units) /\ got \in Seq(Units) /\ pipe # <<>>
        /\ pipe' = Tail(pipe) /\ got' = Append(got, Head(pipe))
    BY DEF PagerReads, TypeOK
  <1>2. Head(pipe) \in Units /\ Head(pipe) = pipe[1] /\ Len(pipe) >= 1
    BY <1>1, HeadTailProperties, EmptySeq
  <1>3. /\ pipe' \in Seq(Units) /\ Len(pipe') = Len(pipe) - 1
        /\ \A i \in 1 .. Len(pipe') : pipe'[i] = pipe[i + 1]
    BY <1>1, HeadTailProperties
  <1>4. /\ got' \in Seq(Units) /\ Len(got') = Len(got) + 1
        /\ \A i \in 1 .. Len(got) : got'[i] = got[i]
        /\ got'[Len(got) + 1] = pipe[1]
    BY <1>1, <1>2, AppendProperties
  <1>5. DOMAIN pipe' = 1 .. Len(pipe) - 1 /\ DOMAIN got' = 1 .. Len(got) + 1
    BY <1>3, <1>4, LenProperties
  <1> QED
    BY <1>2, <1>3, <1>4, <1>5

(* A unit that is written comes behind all that were.                      *)
LEMMA SortedWrite ==
  ASSUME TypeOK, Sorted, WriteUnit
  PROVE  Sorted'
  <1>1. PICK next \in Units :
          /\ next[1] = call /\ next[2] = off + 1
          /\ DOMAIN pipe' = 1 .. Len(pipe) + 1
          /\ \A i \in 1 .. Len(pipe) : pipe'[i] = pipe[i]
          /\ pipe'[Len(pipe) + 1] = next
    BY PipeAfterWrite
  <1>2. got' = got
    BY DEF WriteUnit
  <1>3. /\ DOMAIN pipe = 1 .. Len(pipe) /\ Len(pipe) \in Nat
        /\ \A i \in DOMAIN pipe : pipe[i] \in Units
        /\ \A i \in DOMAIN got : got[i] \in Units
    BY UnitSeq DEF TypeOK
  <1>4. ASSUME NEW u \in Units, Sent(u, call, off)
        PROVE  Later(u, next) /\ Sent(u, call', off')
    <2>1. u[1] \in Nat /\ u[2] \in Nat /\ call \in Nat /\ off \in Nat
      BY WritesFacts DEF Units, TypeOK
    <2>2. Later(u, next)
      BY <1>1, <1>4, <2>1 DEF Sent, Later
    <2> QED
      BY <1>4, <2>2, SentGrows
  <1>5. Sent(next, call', off')
    <2>1. call \in Nat /\ off \in Nat
      BY DEF TypeOK
    <2> QED
      BY <1>1, <2>1 DEF WriteUnit, Sent
  <1>6. Ordered(pipe')
    <2> SUFFICES ASSUME NEW i \in DOMAIN pipe', NEW j \in DOMAIN pipe', i < j
                 PROVE  Later(pipe'[i], pipe'[j])
      BY DEF Ordered
    <2>1. i \in DOMAIN pipe /\ pipe'[i] = pipe[i]
      BY <1>1, <1>3
    <2>2. CASE j \in DOMAIN pipe
      BY <1>1, <1>3, <2>1, <2>2 DEF Sorted, Ordered
    <2>3. CASE j = Len(pipe) + 1
      BY <1>1, <1>3, <1>4, <2>1, <2>3 DEF Sorted
    <2> QED
      BY <1>1, <1>3, <2>2, <2>3
  <1>7. \A i \in DOMAIN got', j \in DOMAIN pipe' : Later(got'[i], pipe'[j])
    <2> SUFFICES ASSUME NEW i \in DOMAIN got, NEW j \in DOMAIN pipe'
                 PROVE  Later(got[i], pipe'[j])
      BY <1>2
    <2>1. CASE j \in DOMAIN pipe
      BY <1>1, <1>3, <2>1 DEF Sorted
    <2>2. CASE j = Len(pipe) + 1
      BY <1>1, <1>3, <1>4, <2>2 DEF Sorted
    <2> QED
      BY <1>1, <1>3, <2>1, <2>2
  <1>8. \A i \in DOMAIN got' : Sent(got'[i], call', off')
    BY <1>2, <1>3, <1>4 DEF Sorted
  <1>9. \A i \in DOMAIN pipe' : Sent(pipe'[i], call', off')
    BY <1>1, <1>3, <1>4, <1>5 DEF Sorted
  <1>10. Ordered(got')
    BY <1>2 DEF Sorted
  <1> QED
    BY <1>6, <1>7, <1>8, <1>9, <1>10 DEF Sorted

(* A unit that is read was the first of the pipe.                          *)
LEMMA SortedRead ==
  ASSUME TypeOK, Sorted, PagerReads
  PROVE  Sorted'
  <1>1. /\ Len(pipe) >= 1
        /\ DOMAIN pipe' = 1 .. Len(pipe) - 1
        /\ \A i \in DOMAIN pipe' : pipe'[i] = pipe[i + 1]
        /\ DOMAIN got' = 1 .. Len(got) + 1
        /\ \A i \in 1 .. Len(got) : got'[i] = got[i]
        /\ got'[Len(got) + 1] = pipe[1]
    BY PipeAfterRead
  <1>2. /\ DOMAIN pipe = 1 .. Len(pipe) /\ Len(pipe) \in Nat
        /\ DOMAIN got = 1 .. Len(got) /\ Len(got) \in Nat
    BY UnitSeq DEF TypeOK
  <1>3. UNCHANGED <<call, off>>
    BY DEF PagerReads
  <1>4. \A i \in DOMAIN pipe' : i + 1 \in DOMAIN pipe /\ pipe'[i] = pipe[i + 1]
    BY <1>1, <1>2
  <1>5. \A i \in DOMAIN got' : \/ i \in DOMAIN got /\ got'[i] = got[i]
                               \/ i = Len(got) + 1 /\ got'[i] = pipe[1]
    BY <1>1, <1>2
  <1>6. Ordered(pipe')
    <2> SUFFICES ASSUME NEW i \in DOMAIN pipe', NEW j \in DOMAIN pipe', i < j
                 PROVE  Later(pipe'[i], pipe'[j])
      BY DEF Ordered
    <2>1. i + 1 < j + 1
      BY <1>1, <1>2
    <2> QED
      BY <1>4, <2>1 DEF Sorted, Ordered
  <1>7. Ordered(got')
    <2> SUFFICES ASSUME NEW i \in DOMAIN got', NEW j \in DOMAIN got', i < j
                 PROVE  Later(got'[i], got'[j])
      BY DEF Ordered
    <2>1. i \in DOMAIN got /\ got'[i] = got[i]
      BY <1>1, <1>2
    <2>2. CASE j \in DOMAIN got
      BY <1>1, <1>2, <2>1, <2>2 DEF Sorted, Ordered
    <2>3. CASE j = Len(got) + 1
      BY <1>1, <1>2, <2>1, <2>3 DEF Sorted
    <2> QED
      BY <1>5, <2>2, <2>3
  <1>8. \A i \in DOMAIN got', j \in DOMAIN pipe' : Later(got'[i], pipe'[j])
    <2> SUFFICES ASSUME NEW i \in DOMAIN got', NEW j \in DOMAIN pipe'
                 PROVE  Later(got'[i], pipe[j + 1])
      BY <1>4
    <2>1. j + 1 \in DOMAIN pipe /\ 1 \in DOMAIN pipe /\ 1 < j + 1
      BY <1>1, <1>2
    <2>2. CASE i \in DOMAIN got
      BY <1>1, <1>2, <2>1, <2>2 DEF Sorted
    <2>3. CASE i = Len(got) + 1
      BY <1>1, <2>1, <2>3 DEF Sorted, Ordered
    <2> QED
      BY <1>5, <2>2, <2>3
  <1>9. \A i \in DOMAIN got' : Sent(got'[i], call', off')
    BY <1>1, <1>2, <1>3, <1>5 DEF Sorted
  <1>10. \A i \in DOMAIN pipe' : Sent(pipe'[i], call', off')
    BY <1>3, <1>4 DEF Sorted
  <1> QED
    BY <1>6, <1>7, <1>8, <1>9, <1>10 DEF Sorted

(* The empty sequence has no positions.                                    *)
LEMMA EmptyDomain == DOMAIN <<>> = {}
  BY EmptySeq, LenProperties

(* So pager and pipe together have the page in order.                      *)
LEMMA SortedStep ==
  ASSUME TypeOK, Sorted, [Next]_vars
  PROVE  Sorted'
  <1>1. CASE Fork
    BY <1>1, EmptyDomain DEF Fork, Sorted, Ordered
  <1>2. CASE ForkFails
    BY <1>2, EmptyDomain DEF ForkFails, Sorted, Ordered
  <1>3. CASE WriteUnit
    BY <1>3, SortedWrite
  <1>4. CASE PagerReads
    BY <1>4, SortedRead
  <1>5. CASE WriteCutShort
    <2>1. UNCHANGED <<pipe, got>>
      BY <1>5 DEF WriteCutShort
    <2>2. /\ \A i \in DOMAIN pipe : pipe[i] \in Units
          /\ \A i \in DOMAIN got : got[i] \in Units
      BY UnitSeq DEF TypeOK
    <2> QED
      BY <1>5, <2>1, <2>2, SentGrows DEF Sorted
  <1>6. CASE Exec \/ PagerLeaves
    <2>1. UNCHANGED <<got, call, off>> /\ (pipe' = pipe \/ pipe' = <<>>)
      BY <1>6 DEF Exec, PagerLeaves, Gone
    <2> QED
      BY <2>1, EmptyDomain DEF Sorted, Ordered
  <1>7. CASE \/ CloseReadEnd \/ MarkRead \/ BrokenPipe \/ CloseWriteEnd \/ Wait
             \/ ChildSetup \/ PagerSeesEnd \/ UNCHANGED vars
    <2>1. UNCHANGED <<pipe, got, call, off>>
      BY <1>7 DEF CloseReadEnd, MarkRead, BrokenPipe, CloseWriteEnd, Wait,
                  ChildSetup, PagerSeesEnd, vars
    <2> QED
      BY <2>1 DEF Sorted
  <1> QED
    BY <1>1, <1>2, <1>3, <1>4, <1>5, <1>6, <1>7 DEF Next, Parent, Pager

(* The pager gets the page in order and no part of it twice, whatever was  *)
(* cut short: a write that returned early is not tried again.              *)
THEOREM PageInOrder == Spec => []InOrder
  <1>1. Init => Sorted
    BY EmptyDomain DEF Init, Sorted, Ordered
  <1>2. Sorted => InOrder
    BY DEF Sorted, Ordered, InOrder
  <1> QED
    BY <1>1, <1>2, TypeCorrect, SortedStep, PTL DEF Spec

-----------------------------------------------------------------------------

(* A write that is not cut short leaves nothing out.                       *)
LEMMA DeliveredWrite ==
  ASSUME TypeOK, Delivered, WriteUnit
  PROVE  Delivered'
  <1>1. PICK next \in Units :
          /\ next[1] = call /\ next[2] = off + 1
          /\ DOMAIN pipe' = 1 .. Len(pipe) + 1
          /\ \A i \in 1 .. Len(pipe) : pipe'[i] = pipe[i]
          /\ pipe'[Len(pipe) + 1] = next
    BY PipeAfterWrite
  <1>2. UNCHANGED <<child, cut, got>>
    BY DEF WriteUnit
  <1>3. DOMAIN pipe = 1 .. Len(pipe) /\ Len(pipe) \in Nat
    BY UnitSeq DEF TypeOK
  <1> SUFFICES ASSUME ~cut, child \notin {"none", "zombie"},
                      NEW u \in Units, Sent(u, call', off')
               PROVE  Has(got, u) \/ Has(pipe', u)
    BY <1>2 DEF Delivered
  <1>4. /\ call \in 1 .. Len(Writes) /\ off \in Nat /\ Writes[call] \in Nat
        /\ u[1] \in Nat /\ u[2] \in 1 .. Writes[u[1]]
        /\ u = <<u[1], u[2]>> /\ next = <<next[1], next[2]>>
    BY WritesFacts DEF WriteUnit, TypeOK, Units
  <1>5. CASE Sent(u, call, off)
    <2>1. Has(got, u) \/ Has(pipe, u)
      BY <1>5 DEF Delivered
    <2>2. \A i \in DOMAIN pipe : i \in DOMAIN pipe' /\ pipe'[i] = pipe[i]
      BY <1>1, <1>3
    <2> QED
      BY <2>1, <2>2 DEF Has
  <1>6. CASE ~Sent(u, call, off)
    <2>1. u[1] = call /\ u[2] = off + 1
      <3>1. CASE Complete
        <4>1. call' = call + 1 /\ off' = 0
          BY <3>1 DEF WriteUnit
        <4>2. u[1] = call
          BY <1>4, <1>6, <4>1 DEF Sent
        <4>3. u[2] <= off + 1 /\ u[2] > off
          BY <1>4, <1>6, <3>1, <4>2 DEF Sent, Complete
        <4> QED
          BY <1>4, <4>2, <4>3
      <3>2. CASE ~Complete
        <4>1. call' = call /\ off' = off + 1
          BY <3>2 DEF WriteUnit
        <4> QED
          BY <1>4, <1>6, <4>1 DEF Sent
      <3> QED
        BY <3>1, <3>2
    <2>2. u = next
      BY <1>1, <1>4, <2>1
    <2>3. Len(pipe) + 1 \in DOMAIN pipe'
      BY <1>1, <1>3
    <2> QED
      BY <1>1, <2>2, <2>3 DEF Has
  <1> QED
    BY <1>5, <1>6

(* Nor does a read.                                                        *)
LEMMA DeliveredRead ==
  ASSUME TypeOK, Delivered, PagerReads
  PROVE  Delivered'
  <1>1. /\ Len(pipe) >= 1
        /\ DOMAIN pipe' = 1 .. Len(pipe) - 1
        /\ \A i \in DOMAIN pipe' : pipe'[i] = pipe[i + 1]
        /\ DOMAIN got' = 1 .. Len(got) + 1
        /\ \A i \in 1 .. Len(got) : got'[i] = got[i]
        /\ got'[Len(got) + 1] = pipe[1]
    BY PipeAfterRead
  <1>2. /\ DOMAIN pipe = 1 .. Len(pipe) /\ Len(pipe) \in Nat
        /\ DOMAIN got = 1 .. Len(got) /\ Len(got) \in Nat
    BY UnitSeq DEF TypeOK
  <1>3. UNCHANGED <<child, cut, call, off>>
    BY DEF PagerReads
  <1>4. ASSUME NEW u, Has(got, u)
        PROVE  Has(got', u)
    BY <1>1, <1>2, <1>4 DEF Has
  <1>5. ASSUME NEW u, Has(pipe, u)
        PROVE  Has(got', u) \/ Has(pipe', u)
    <2>1. PICK i \in 1 .. Len(pipe) : pipe[i] = u
      BY <1>2, <1>5 DEF Has
    <2>2. CASE i = 1
      <3>1. Len(got) + 1 \in DOMAIN got'
        BY <1>1, <1>2
      <3> QED
        BY <1>1, <2>1, <2>2, <3>1 DEF Has
    <2>3. CASE i # 1
      <3>1. i - 1 \in DOMAIN pipe' /\ pipe'[i - 1] = pipe[(i - 1) + 1] /\ (i - 1) + 1 = i
        BY <1>1, <1>2, <2>3
      <3> QED
        BY <2>1, <3>1 DEF Has
    <2> QED
      BY <2>2, <2>3
  <1> QED
    BY <1>3, <1>4, <1>5 DEF Delivered

(* Nor any other step.                                                     *)
LEMMA DeliveredStep ==
  ASSUME TypeOK, Ends, Delivered, [Next]_vars
  PROVE  Delivered'
  <1>1. CASE Fork
    <2>1. call' = 1 /\ off' = 0
      BY <1>1 DEF Fork
    <2>2. \A u \in Units : u[1] \in Nat /\ u[1] >= 1 /\ u[2] \in Nat /\ u[2] >= 1
      BY WritesFacts DEF Units
    <2> QED
      BY <2>1, <2>2 DEF Delivered, Sent
  <1>2. CASE ForkFails
    BY <1>2 DEF ForkFails, Delivered, Ends
  <1>3. CASE WriteUnit
    BY <1>3, DeliveredWrite
  <1>4. CASE PagerReads
    BY <1>4, DeliveredRead
  <1>5. CASE WriteCutShort
    BY <1>5 DEF WriteCutShort, Delivered
  <1>6. CASE PagerLeaves \/ Wait \/ (Exec /\ child' = "zombie")
    <2>1. child' \in {"none", "zombie"}
      BY <1>6 DEF PagerLeaves, Gone, Wait, ChildEnded
    <2> QED
      BY <2>1 DEF Delivered
  <1>7. CASE \/ CloseReadEnd \/ MarkRead \/ BrokenPipe \/ CloseWriteEnd
             \/ ChildSetup \/ PagerSeesEnd \/ (Exec /\ child' # "zombie") \/ UNCHANGED vars
    <2>1. /\ UNCHANGED <<pipe, got, call, off, cut>>
          /\ child' \notin {"none", "zombie"} => child \notin {"none", "zombie"}
      BY <1>7 DEF CloseReadEnd, MarkRead, BrokenPipe, CloseWriteEnd,
                  ChildSetup, Exec, Gone, PagerSeesEnd, vars
    <2> QED
      BY <2>1 DEF Delivered
  <1> QED
    BY <1>1, <1>2, <1>3, <1>4, <1>5, <1>6, <1>7 DEF Next, Parent, Pager

(* The pager sees the end only after the parent closed its own.            *)
LEMMA FinishingStep ==
  ASSUME TypeOK, Ends, Finishing, [Next]_vars
  PROVE  Finishing'
  <1>1. CASE Fork \/ ForkFails
    BY <1>1 DEF Fork, ForkFails, Finishing, Ends
  <1>2. CASE CloseWriteEnd
    BY <1>2, WritesFacts DEF CloseWriteEnd, LastWrite, TypeOK, Finishing
  <1>3. CASE \/ CloseReadEnd \/ MarkRead \/ WriteUnit \/ BrokenPipe \/ Wait \/ WriteCutShort
    BY <1>3 DEF CloseReadEnd, MarkRead, WriteUnit, BrokenPipe, Wait, ChildEnded,
                WriteCutShort, Finishing
  <1>4. CASE PagerSeesEnd
    BY <1>4 DEF PagerSeesEnd, Finishing, Ends, TypeOK
  <1>5. CASE ChildSetup \/ Exec \/ PagerReads \/ PagerLeaves
    BY <1>5 DEF ChildSetup, Exec, Gone, PagerReads, PagerLeaves, Finishing
  <1>6. CASE UNCHANGED vars
    BY <1>6 DEF vars, Finishing
  <1> QED
    BY <1>1, <1>2, <1>3, <1>4, <1>5, <1>6 DEF Next, Parent, Pager

(* So a pager that sees it has the whole page, if nothing was cut.         *)
LEMMA DeliveredWhole ==
  ASSUME TypeOK, Delivered, Finishing
  PROVE  WholeUnlessCut
  <1> SUFFICES ASSUME child = "finished", ~cut, pc # "killed",
                      NEW w \in 1 .. Len(Writes), NEW i \in 1 .. Writes[w]
               PROVE  Contains(got, <<w, i>>)
    BY WritesFacts DEF WholeUnlessCut, SawAll
  <1>1. pipe = <<>> /\ call = Len(Writes) + 1
    BY DEF Finishing
  <1>2. PICK u \in Units : u = <<w, i>>
    <2>1. w \in 1 .. Len(Writes) /\ i \in Nat /\ i \in 1 .. Writes[w]
      BY WritesFacts
    <2>2. <<w, i>> \in Units
      BY <2>1 DEF Units
    <2> QED
      BY <2>2
  <1>3. u[1] = w /\ Sent(u, call, off)
    BY <1>1, <1>2, WritesFacts DEF Sent
  <1>4. Has(got, u) \/ Has(pipe, u)
    BY <1>3 DEF Delivered
  <1>5. Has(got, u)
    BY <1>1, <1>4, EmptyDomain DEF Has
  <1>6. DOMAIN got = 1 .. Len(got)
    BY UnitSeq DEF TypeOK
  <1> QED
    BY <1>2, <1>5, <1>6 DEF Has, Contains

(* A pager that sees the end of its input got every part of the page, if   *)
(* no write was cut short and the program lived.                           *)
THEOREM PageWhole == Spec => []WholeUnlessCut
  <1>1. Init => Delivered /\ Finishing
    BY DEF Init, Delivered, Finishing
  <1> QED
    BY <1>1, EndsInvariant, DeliveredStep, FinishingStep, DeliveredWhole, PTL DEF Spec
=============================================================================
