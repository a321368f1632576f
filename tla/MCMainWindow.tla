---------------------------- MODULE MCMainWindow ----------------------------
(* Instances of MainWindow for TLC.                                        *)
EXTENDS MainWindow

(* Five articles of three feeds, each of them missing, unread or read; two *)
(* of them have the same date, and the highest id is not the newest.       *)
FeedOf == <<1, 2, 2, 1, 3>>
DateOf == <<1, 3, 3, 2, 1>>
MCStored ==
    {[e \in ids |-> [FeedID |-> FeedOf[e], PubDate |-> DateOf[e], Viewed |-> e \in viewed]] :
        ids \in SUBSET Entries, viewed \in SUBSET Entries}

(* Every cache there may be.                                               *)
MCCaches == UNION {[ids -> Row] : ids \in SUBSET Entries}
=============================================================================
