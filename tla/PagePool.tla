------------------------------ MODULE PagePool ------------------------------
(***************************************************************************)
(* What a buffer manager promises its clients.                             *)
(*                                                                         *)
(* Every page of a file has one current content.  A client pins a page,    *)
(* reads and writes the current content through the pin and unpins it.     *)
(* Nothing else (caching, replacement, flushing, a clean shutdown) can be  *)
(* seen through this interface: the content of a page changes only when a  *)
(* client that has the page pinned writes it, or when the page is handed   *)
(* out or given back.                                                      *)
(***************************************************************************)
CONSTANTS
    Page,       \* pages of all files
    Clients,    \* holders of page pointers
    Contents,   \* what a page can hold
    Free,       \* "content" of a page that is not handed out
    NoPin       \* a client without a pin

VARIABLES
    store,      \* store[p]: current content of page p, or Free
    pins        \* pins[c]: the page client c has pinned, or NoPin

vars == <<store, pins>>

TypeOK ==
    /\ store \in [Page -> Contents \cup {Free}]
    /\ pins \in [Clients -> Page \cup {NoPin}]

Init ==
    /\ store = [p \in Page |-> Free]
    /\ pins = [c \in Clients |-> NoPin]

Pin(c, p) ==
    /\ pins[c] = NoPin
    /\ store[p] # Free
    /\ pins' = [pins EXCEPT ![c] = p]
    /\ UNCHANGED store

\* A page is handed out: its content is whatever it happens to be until the
\* client initialises it.
Allocate(c, p) ==
    /\ pins[c] = NoPin
    /\ store[p] = Free
    /\ pins' = [pins EXCEPT ![c] = p]
    /\ \E v \in Contents : store' = [store EXCEPT ![p] = v]

\* A page is handed out but there is no room to pin it: it is left in its file.
Strand(p) ==
    /\ UNCHANGED pins
    /\ store[p] = Free
    /\ \E v \in Contents : store' = [store EXCEPT ![p] = v]

Write(c, v) ==
    /\ pins[c] # NoPin
    /\ UNCHANGED pins
    /\ store' = [store EXCEPT ![pins[c]] = v]

UnPin(c) ==
    /\ pins[c] # NoPin
    /\ pins' = [pins EXCEPT ![c] = NoPin]
    /\ UNCHANGED store

Dispose(p) ==
    /\ UNCHANGED pins
    /\ store[p] # Free
    /\ \A c \in Clients : pins[c] # p
    /\ store' = [store EXCEPT ![p] = Free]

Next ==
    \/ \E c \in Clients, p \in Page : Pin(c, p) \/ Allocate(c, p)
    \/ \E c \in Clients, v \in Contents : Write(c, v)
    \/ \E c \in Clients : UnPin(c)
    \/ \E p \in Page : Strand(p) \/ Dispose(p)

Spec == Init /\ [][Next]_vars
=============================================================================
