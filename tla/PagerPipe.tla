----------------------------- MODULE PagerPipe -----------------------------
(***************************************************************************)
(* Showing an article, src/src/ui/util.c (pipe_fields, pipe_to_process,    *)
(* wait_for_process) with cache_write_entry_field of src/src/sql/viewio.c: *)
(* the program forks, the child becomes the pager, the parent writes the   *)
(* fields of the article into a pipe and waits for the pager to end.  The  *)
(* downloader gets the URL of an article in the same way, and the pager    *)
(* the list of key bindings (handle_print_key_pairs of keys.c).            *)
(*                                                                         *)
(* The operating system (not under src/) is a pipe of Capacity units that  *)
(* a write fills piece by piece, SIGPIPE for a write to a pipe no process  *)
(* reads, end of file for a read of an empty pipe no process writes, and   *)
(* SIGWINCH, whose handler makes a write that has transferred a part of    *)
(* its data return that part.  A unit is what the system writes at once.   *)
(***************************************************************************)
EXTENDS Integers, Sequences, SequencesExt

CONSTANTS
    Writes,     \* the write calls of a page: the length of each, in units
    Capacity,   \* of the pipe, in units
    MaxForks    \* bound: how many forks may fail

ASSUME PipeAssumption ==
    /\ Writes \in Seq(Nat \ {0})
    /\ Capacity \in Nat \ {0}
    /\ MaxForks \in Nat

VARIABLES
    pc,         \* where the parent is
    child,      \* the process that becomes the pager
    readers, writers,  \* which processes hold which end of the pipe open
    pipe,       \* the units in the pipe, each <<write call, position>>
    call, off,  \* the write call the parent is in, units of it transferred
    page,       \* what is written: an article, or the help
    viewed,     \* the article is marked read
    leaked,     \* pipes whose ends are open for good
    got, cut    \* history: units the pager read; a write was cut short

vars == <<pc, child, readers, writers, pipe, call, off, page, viewed, leaked, got, cut>>

Processes == {"parent", "child"}
Units == {u \in (1 .. Len(Writes)) \X Nat : u[2] \in 1 .. Writes[u[1]]}

TypeOK ==
    /\ pc \in {"list", "forked", "mark", "write", "wait", "killed"}
    /\ child \in {"none", "forked", "exec", "pager", "finished", "zombie"}
    /\ readers \subseteq Processes /\ writers \subseteq Processes
    /\ pipe \in Seq(Units) /\ Len(pipe) <= Capacity
    /\ call \in 1 .. Len(Writes) + 1
    /\ off \in Nat /\ (call <= Len(Writes) => off < Writes[call])
    /\ page \in {"article", "help"}
    /\ viewed \in BOOLEAN
    /\ leaked \in 0 .. MaxForks
    /\ got \in Seq(Units)
    /\ cut \in BOOLEAN

-----------------------------------------------------------------------------

(* pipe_to_process: the pipe, and a child with copies of both ends ...     *)
Fork ==
    /\ pc = "list"
    /\ pc' = "forked" /\ child' = "forked"
    /\ readers' = Processes /\ writers' = Processes
    /\ pipe' = <<>> /\ call' = 1 /\ off' = 0
    /\ page' \in {"article", "help"}
    /\ viewed' = FALSE /\ got' = <<>> /\ cut' = FALSE
    /\ UNCHANGED leaked

(* ... or no child: the caller does not look at the result and goes on     *)
(* with a pid of -1 and a descriptor that was never set.  An article is    *)
(* marked all the same, what is written and closed is no end of the pipe,  *)
(* whose ends stay open, and waitpid has no child to wait for.             *)
ForkFails ==
    /\ pc = "list" /\ leaked < MaxForks
    /\ leaked' = leaked + 1
    /\ page' \in {"article", "help"} /\ viewed' = (page' = "article")
    /\ got' = <<>> /\ cut' = FALSE
    /\ UNCHANGED <<pc, child, readers, writers, pipe, call, off>>

(* The parent closes the end it does not need.                             *)
CloseReadEnd ==
    /\ pc = "forked"
    /\ readers' = readers \ {"parent"}
    /\ pc' = IF page = "article" THEN "mark" ELSE "write"
    /\ UNCHANGED <<child, writers, pipe, call, off, page, viewed, leaked, got, cut>>

(* cache_write_entry_field marks the article read before it selects it.    *)
AfterMark_Late == viewed' = FALSE                    \* mutant: not marked yet
AfterMark == viewed' = TRUE
MarkRead ==
    /\ pc = "mark"
    /\ AfterMark
    /\ pc' = "write"
    /\ UNCHANGED <<child, readers, writers, pipe, call, off, page, leaked, got, cut>>

(* The next unit of a write goes into the pipe when there is room.         *)
Complete == off + 1 = Writes[call]
WriteUnit ==
    /\ pc = "write" /\ call <= Len(Writes)
    /\ readers # {} /\ Len(pipe) < Capacity
    /\ pipe' = Append(pipe, <<call, off + 1>>)
    /\ call' = IF Complete THEN call + 1 ELSE call
    /\ off' = IF Complete THEN 0 ELSE off + 1
    /\ UNCHANGED <<pc, child, readers, writers, page, viewed, leaked, got, cut>>

(* SIGWINCH while a write waits for room: it returns what it transferred,  *)
(* and the callbacks of viewio.c go on with the next write.  A write that  *)
(* transferred nothing is restarted, as signal() sets SA_RESTART.          *)
AfterCut_Again == call' = call /\ off' = 0           \* mutant: written again
AfterCut == call' = call + 1 /\ off' = 0
WriteCutShort ==
    /\ pc = "write" /\ call <= Len(Writes)
    /\ readers # {} /\ Len(pipe) = Capacity
    /\ off > 0
    /\ AfterCut
    /\ cut' = TRUE
    /\ UNCHANGED <<pc, child, readers, writers, pipe, page, viewed, leaked, got>>

(* The default action of SIGPIPE ends the program.                         *)
BrokenPipe ==
    /\ pc = "write" /\ call <= Len(Writes)
    /\ readers = {}
    /\ pc' = "killed"
    /\ writers' = writers \ {"parent"}
    /\ UNCHANGED <<child, readers, pipe, call, off, page, viewed, leaked, got, cut>>

(* After the last write the caller closes its end.                         *)
LastWrite_Early == call > Len(Writes) - 1            \* mutant: off by one
LastWrite == call > Len(Writes)
CloseWriteEnd ==
    /\ pc = "write" /\ LastWrite
    /\ writers' = writers \ {"parent"}
    /\ pc' = "wait"
    /\ UNCHANGED <<child, readers, pipe, call, off, page, viewed, leaked, got, cut>>

(* wait_for_process: waitpid, again after EINTR, until the child ended.    *)
ChildEnded_Interrupted == TRUE                       \* mutant: EINTR ends it
ChildEnded == child = "zombie"
Wait ==
    /\ pc = "wait"
    /\ ChildEnded
    /\ child' = IF child = "zombie" THEN "none" ELSE child
    /\ pc' = "list"
    /\ UNCHANGED <<readers, writers, pipe, call, off, page, viewed, leaked, got, cut>>

-----------------------------------------------------------------------------

(* The child: the read end becomes its standard input, both descriptors    *)
(* are closed.                                                             *)
ChildEnds_KeepsWrite == UNCHANGED <<readers, writers>>  \* mutant: not closed
ChildEnds == writers' = writers \ {"child"} /\ UNCHANGED readers
ChildSetup ==
    /\ child = "forked"
    /\ ChildEnds
    /\ child' = "exec"
    /\ UNCHANGED <<pc, pipe, call, off, page, viewed, leaked, got, cut>>

(* execvp; when it fails the child exits.  A process that ends drops its   *)
(* ends of the pipe, and what is in a pipe that nobody reads is gone.      *)
Gone ==
    /\ readers' = readers \ {"child"}
    /\ writers' = writers \ {"child"}
    /\ child' = "zombie"
    /\ pipe' = IF readers \subseteq {"child"} THEN <<>> ELSE pipe

Exec ==
    /\ child = "exec"
    /\ \/ child' = "pager" /\ UNCHANGED <<readers, writers, pipe>>
       \/ Gone
    /\ UNCHANGED <<pc, call, off, page, viewed, leaked, got, cut>>

(* The pager reads, sees the end of the article, and may leave any time.   *)
PagerReads ==
    /\ child = "pager" /\ pipe # <<>>
    /\ got' = Append(got, Head(pipe))
    /\ pipe' = Tail(pipe)
    /\ UNCHANGED <<pc, child, readers, writers, call, off, page, viewed, leaked, cut>>

PagerSeesEnd ==
    /\ child = "pager" /\ pipe = <<>> /\ writers = {}
    /\ child' = "finished"
    /\ UNCHANGED <<pc, readers, writers, pipe, call, off, page, viewed, leaked, got, cut>>

PagerLeaves ==
    /\ child \in {"pager", "finished"}
    /\ Gone
    /\ UNCHANGED <<pc, call, off, page, viewed, leaked, got, cut>>

Init ==
    /\ pc = "list" /\ child = "none"
    /\ readers = {} /\ writers = {}
    /\ pipe = <<>> /\ call = 1 /\ off = 0
    /\ page = "article" /\ viewed = FALSE /\ leaked = 0
    /\ got = <<>> /\ cut = FALSE

Parent ==
    \/ CloseReadEnd \/ MarkRead
    \/ WriteUnit \/ BrokenPipe \/ CloseWriteEnd \/ Wait
Pager == ChildSetup \/ Exec \/ PagerReads \/ PagerSeesEnd
Next == Fork \/ ForkFails \/ Parent \/ WriteCutShort \/ Pager \/ PagerLeaves

Spec == Init /\ [][Next]_vars

(* Both processes run.  The pager reads on and leaves at the latest some   *)
(* time after it has seen the end of the article; the user may leave it    *)
(* before, or never open another article.                                  *)
FairSpec ==
    /\ Spec
    /\ WF_vars(Parent) /\ WF_vars(Pager)
    /\ WF_vars(child = "finished" /\ PagerLeaves)

-----------------------------------------------------------------------------

(* Whenever the list is shown again, no process and no end of the pipe is  *)
(* left of the page (util.c: both closes, waitpid), but for the pipes   *)
(* of forks that failed.                                                   *)
NothingLeft == pc = "list" => child = "none" /\ readers = {} /\ writers = {}

(* An article of which the pager got anything is marked read, also when    *)
(* the program is killed while it writes (viewio.c,                        *)
(* cache_write_entry_field), and the help marks none.                      *)
MarkedFirst ==
    /\ got # <<>> /\ page = "article" => viewed
    /\ viewed => page = "article"

(* The pager gets the parts of the page in order and none twice,           *)
(* whatever was cut short.                                                 *)
Later(u, v) == u[1] < v[1] \/ (u[1] = v[1] /\ u[2] < v[2])
InOrder == \A i, j \in DOMAIN got : i < j => Later(got[i], got[j])

(* A pager that sees the end of its input got every part of the page,      *)
(* if the terminal was not resized while a write waited, and if the        *)
(* program lived.                                                          *)
SawAll == \A w \in DOMAIN Writes : \A i \in 1 .. Writes[w] : Contains(got, <<w, i>>)
WholeUnlessCut == child = "finished" /\ ~cut /\ pc # "killed" => SawAll

(* The two processes never wait for each other: the parent for room in the *)
(* pipe or for the end of the child, the pager for more of the page or for *)
(* its end, which it sees when nobody can write any more.                  *)
ParentWaits ==
    \/ pc = "write" /\ call <= Len(Writes) /\ readers # {} /\ Len(pipe) = Capacity
    \/ pc = "wait" /\ child # "zombie"
PagerWaits ==
    \/ child = "pager" /\ pipe = <<>> /\ writers # {}
    \/ child \in {"none", "zombie"}
NoDeadlock == ~(ParentWaits /\ PagerWaits)

(* The list is shown again, or the program was killed by SIGPIPE, after    *)
(* every page; a pager that reads to the end is not waited for in vain. *)
Returns == (pc # "list") ~> (pc \in {"list", "killed"})
=============================================================================
