---------------------------- MODULE ArticleStore ----------------------------
(***************************************************************************)
(* What the cache of src/src/sql/create.c promises the reader of feeds:    *)
(* an article comes in unread, only while its feed is being refreshed;     *)
(* only the user marks it read or unread, never while a feed is refreshed; *)
(* and it is forgotten only when it is read, at the end of a refresh of    *)
(* its feed.  Cache implements it, through crashes in a refresh as well.   *)
(***************************************************************************)
CONSTANTS Urls, Articles

VARIABLES
    refreshing,   \* the feed being refreshed, if any
    status        \* what is known of each article of each feed

Store == Urls \X Articles
Status == {"absent", "unread", "read"}

Init == refreshing = {} /\ status = [s \in Store |-> "absent"]

Begin(u) == refreshing = {} /\ refreshing' = {u} /\ UNCHANGED status

Arrive(u, a) ==
    /\ u \in refreshing
    /\ status[<<u, a>>] = "absent"
    /\ status' = [status EXCEPT ![<<u, a>>] = "unread"]
    /\ UNCHANGED refreshing

(* Each article is as it was, or changed as Change says.                   *)
Update(Change(_)) ==
    /\ status' \in [Store -> Status]
    /\ \A s \in Store : status'[s] = status[s] \/ Change(s)

End ==
    /\ refreshing # {}
    /\ refreshing' = {}
    /\ LET Forget(s) == /\ s[1] \in refreshing
                        /\ status[s] = "read"
                        /\ status'[s] = "absent"
       IN Update(Forget)

Mark(v) ==
    /\ refreshing = {}
    /\ LET Marked(s) == status[s] # "absent" /\ status'[s] = v
       IN Update(Marked)
    /\ UNCHANGED refreshing

Next ==
    \/ \E u \in Urls : Begin(u) \/ \E a \in Articles : Arrive(u, a)
    \/ End
    \/ Mark("read") \/ Mark("unread")

Spec == Init /\ [][Next]_<<refreshing, status>>
=============================================================================
