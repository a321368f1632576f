----------------------------- MODULE HashTable -----------------------------
(***************************************************************************)
(* The string table of src/src/hash.c, as src/src/ui/keys.c binds keys to  *)
(* handlers with it: open addressing, where a name that is unset leaves a  *)
(* mark behind that a search goes past and a new name may take.  Keys are  *)
(* bound and unbound while the configuration is read; after that the table *)
(* is only looked up and listed.                                           *)
(*                                                                         *)
(* The table never grows.  grow_hash is called when cap passes a bound,    *)
(* but cap is to be incremented for an empty slot after the slot has been  *)
(* filled, so it only ever falls.                                          *)
(***************************************************************************)
EXTENDS Integers, Sequences, FiniteSets, FiniteSetsExt, Functions

CONSTANTS
    Names,       \* the keys, printed in hexadecimal
    Handlers,    \* what they are bound to
    Order,       \* the handlers in the order of the list of their names
    Download,    \* the handler of the operation download
    NULL,        \* no handler
    Hash,        \* hash_func
    Size,        \* INITIAL_LOCTAB_SIZE
    MaxUnset     \* bound of the model: how often names are unset

ASSUME TableAssumption ==
    /\ NULL \notin Handlers
    /\ Order \in Seq(Handlers) /\ Range(Order) = Handlers
    /\ Download \in Handlers
    /\ {"empty", "deleted"} \cap Names = {}
    /\ Hash \in [Names -> Nat]
    /\ Size \in Nat \ {0}
    /\ IsFiniteSet(Names) /\ Cardinality(Names) <= Size  \* else find_hash may return -1
    /\ MaxUnset \in Nat

VARIABLES
    tab,         \* uikey_tab
    cap,         \* uikey_tab_cap
    handler_names,  \* the handlers in the list of operations, or NULL
    configured   \* the configuration has been read

vars == <<tab, cap, handler_names, configured>>

Slots == 0 .. Size - 1
Empty == [name |-> "empty", value |-> NULL]
Deleted == [name |-> "deleted", value |-> NULL]
Var == [name : Names, value : Handlers]

TypeOK ==
    /\ tab \in [Slots -> Var \cup {Empty, Deleted}]
    /\ cap \in -MaxUnset .. 0
    /\ handler_names \in [DOMAIN Order -> Handlers \cup {NULL}]
    /\ configured \in BOOLEAN

-----------------------------------------------------------------------------

(* find_hash: the slot of the name; if it is in none, the first that is    *)
(* free on the way to an empty one.                                        *)
Find_FirstFree(n, t) ==        \* mutant: the search ends at a deleted slot
    LET Probe(i) == (i + Hash[n]) % Size
        ends == {i \in Slots : t[Probe(i)].name \in {"empty", "deleted", n}}
    IN  IF ends = {} THEN -1 ELSE Probe(Min(ends))
Find(n, t) ==
    LET Probe(i) == (i + Hash[n]) % Size
        ends == {i \in Slots : t[Probe(i)].name \in {"empty", n}}
        before == IF ends = {} THEN Slots ELSE 0 .. Min(ends)
        here == {i \in before : t[Probe(i)].name = n}
        free == {i \in before : t[Probe(i)].name \in {"empty", "deleted"}}
    IN  IF here # {} THEN Probe(Min(here))
        ELSE IF free # {} THEN Probe(Min(free)) ELSE -1

Holds(n, t) == Find(n, t) \in Slots /\ t[Find(n, t)] \in Var

(* get_hash_var                                                            *)
GetHashVar(n, t) == IF Holds(n, t) THEN t[Find(n, t)].value ELSE NULL

SetHashVar_Counted(n, h) ==    \* mutant: an empty slot counts when filled
    /\ tab' = [tab EXCEPT ![Find(n, tab)] = [name |-> n, value |-> h]]
    /\ cap' = IF tab[Find(n, tab)] = Empty THEN cap + 1 ELSE cap
SetHashVar(n, h) ==
    /\ tab' = [tab EXCEPT ![Find(n, tab)] = [name |-> n, value |-> h]]
    /\ UNCHANGED cap

UnsetHashVar_Emptied(n) ==     \* mutant: no mark is left
    /\ Holds(n, tab)
    /\ cap > -MaxUnset
    /\ tab' = [tab EXCEPT ![Find(n, tab)] = Empty]
    /\ cap' = cap - 1
UnsetHashVar(n) ==
    /\ Holds(n, tab)
    /\ cap > -MaxUnset
    /\ tab' = [tab EXCEPT ![Find(n, tab)] = Deleted]
    /\ cap' = cap - 1

(* bind_defaults, and the options bind-key and unbind-key.                 *)
ConfigBindKey ==
    /\ ~configured
    /\ \E n \in Names : UnsetHashVar(n) \/ \E h \in Handlers : SetHashVar(n, h)
    /\ UNCHANGED <<handler_names, configured>>

(* The end of read_config_options_file: without a downloader the operation *)
(* loses its handler (unset_handler), whatever key is bound to it.         *)
UnsetHandler(names, h) == [i \in DOMAIN names |-> IF names[i] = h THEN NULL ELSE names[i]]
Configured ==
    /\ ~configured /\ configured' = TRUE
    /\ handler_names' \in {handler_names, UnsetHandler(handler_names, Download)}
    /\ UNCHANGED <<tab, cap>>

Init ==
    /\ tab = [i \in Slots |-> Empty] /\ cap = 0
    /\ handler_names = Order
    /\ configured = FALSE

Next == ConfigBindKey \/ Configured

Spec == Init /\ [][Next]_vars

-----------------------------------------------------------------------------

(* No name is in two slots, though a mark before its slot may be taken by  *)
(* another name or by itself.                                              *)
NoNameTwice == \A i, j \in Slots : tab[i] \in Var /\ tab[i].name = tab[j].name => i = j

(* Setting and unsetting a name does that, and no other name is lost or    *)
(* found again, whatever names share its slots.                            *)
Bindings(t) == [n \in Names |-> GetHashVar(n, t)]
OneBindingChanges ==
    [][\A n \in Names :
          /\ UnsetHashVar(n) => Bindings(tab') = [Bindings(tab) EXCEPT ![n] = NULL]
          /\ \A h \in Handlers :
                SetHashVar(n, h) => Bindings(tab') = [Bindings(tab) EXCEPT ![n] = h]]_vars

Bound == {n \in Names : GetHashVar(n, tab) # NULL}

(* next_hash_pair, and what handle_print_key_pairs lists of it: it looks   *)
(* for the handler among those in front of the first that was unset.       *)
Enumerated == {tab[i].name : i \in {j \in Slots : tab[j] \in Var}}
Listed ==
    {handler_names[i] : i \in {j \in DOMAIN Order : \A k \in 1 .. j : handler_names[k] # NULL}}
HelpPage == {n \in Enumerated : GetHashVar(n, tab) \in Listed}

(* next_hash_pair finds exactly the names that get_hash_var does, and with *)
(* a downloader the help lists the keys that work and no others.           *)
HelpListsKeys ==
    /\ Enumerated = Bound
    /\ Download \in Listed => HelpPage = Bound

(* The help, headed "newsbaoter key bindings", lists every bound key but   *)
(* those of an operation that was taken away.                              *)
HelpComplete == \A n \in Bound : GetHashVar(n, tab) \in Range(handler_names) => n \in HelpPage
=============================================================================
