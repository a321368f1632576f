---------------------------- MODULE ReloadCycle ----------------------------
(***************************************************************************)
(* What the select loop of src/src/ui/view.c and the scheduler of          *)
(* src/src/httpfetch.c promise the user: a reload takes every URL of the   *)
(* list through loading to imported or failed, each at most once, with a   *)
(* bounded number loading at a time, and is over exactly when none is      *)
(* left, or when the program ends.  RunLoop implements it.                 *)
(***************************************************************************)
EXTENDS Integers, FiniteSets

CONSTANTS
    Urls,       \* the URL list
    Parallel    \* how many may be loading at a time

VARIABLES
    running,    \* a reload is going on
    quit,       \* the user left the program
    status      \* how far the reload is with each URL

Final == {"imported", "failed"}
Status == {"waiting", "loading"} \cup Final

(* The way of a URL through a reload goes onward only.                     *)
Onward(s) ==
    CASE s = "waiting" -> Status
      [] s = "loading" -> Status \ {"waiting"}
      [] OTHER -> {s}

(* One call moves any number of URLs onward; the reload goes on while some *)
(* are not through, and then some are loading.                             *)
Move(from) ==
    /\ status' \in [Urls -> Status]
    /\ \A u \in Urls : status'[u] \in Onward(from[u])
    /\ LET loading == {u \in Urls : status'[u] = "loading"} IN
       /\ Cardinality(loading) <= Parallel
       /\ running' = (loading # {})
       /\ ~running' => \A u \in Urls : status'[u] \in Final
    /\ ~quit /\ UNCHANGED quit

Begin == ~running /\ Move([u \in Urls |-> "waiting"])

Progress == running /\ Move(status)

(* The user leaves, whether a reload is going on or not.                   *)
Quit ==
    /\ ~quit /\ quit' = TRUE
    /\ running' = FALSE
    /\ UNCHANGED status

Init ==
    /\ running = FALSE
    /\ quit = FALSE
    /\ status = [u \in Urls |-> "waiting"]

Next == Begin \/ Progress \/ Quit

(* A reload that began ends.                                               *)
Ends == running ~> ~running

Steps == Init /\ [][Next]_<<running, quit, status>>

Spec == Steps /\ Ends
=============================================================================
