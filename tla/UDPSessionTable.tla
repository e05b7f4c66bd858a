--------------------------- MODULE UDPSessionTable ---------------------------
(***************************************************************************)
(* What the UDP proxy tunnel promises about its sessions, with no          *)
(* goroutines, locks or clocks: a client has at most one session, a        *)
(* session belongs to one client for its whole life, a session that has    *)
(* left the table never returns to it, and its remote socket is released   *)
(* only after it has left.  Module UDPProxy implements this specification. *)
(***************************************************************************)
CONSTANTS
    Clients,   \* local source addresses (IP:port) of UDP clients
    Sess,      \* session objects, each with the remote socket it owns
    None       \* "no session"

VARIABLES
    table,     \* the session each client is bound to, or None
    retired    \* sessions out of the table whose remote socket is still open

tableVars == <<table, retired>>

Bound == {table[c] : c \in Clients} \ {None}

TableInit ==
    /\ table = [c \in Clients |-> None]
    /\ retired = {}

\* A client without a session gets one that nobody is using.
Bind(c) ==
    /\ table[c] = None
    /\ \E s \in Sess \ (Bound \union retired) :
         table' = [table EXCEPT ![c] = s]
    /\ UNCHANGED retired

\* Some clients lose their sessions, all in one step.
Retire(cs) ==
    /\ \A c \in cs : table[c] # None
    /\ table' = [c \in Clients |-> IF c \in cs THEN None ELSE table[c]]
    /\ retired' = retired \union {table[c] : c \in cs}

\* The remote socket of a retired session is closed.
Release(s) ==
    /\ s \in retired
    /\ retired' = retired \ {s}
    /\ UNCHANGED table

TableNext ==
    \/ \E c \in Clients : Bind(c)
    \/ \E cs \in SUBSET Clients : Retire(cs)
    \/ \E s \in Sess : Release(s)

TableSpec == TableInit /\ [][TableNext]_tableVars

\* Every retired session's socket is released in the end: nothing leaks.
FairTableSpec == TableSpec /\ \A s \in Sess : WF_tableVars(Release(s))
=============================================================================
