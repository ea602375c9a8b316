------------------------------ MODULE Directory ------------------------------
(***************************************************************************)
(* What the gateway promises the backend about its connections: a          *)
(* connection is entered under a uid of its own, whoever looks a uid up    *)
(* gets the connection that holds it at that moment, a connection is       *)
(* cancelled once and leaves the directory after that, taking nothing but  *)
(* its own entry with it, and a directory that has been shut lists nobody, *)
(* finds nobody and takes nobody in.                                       *)
(***************************************************************************)
CONSTANTS Conn, UID, Holder, None

VARIABLES
    stage,   \* of a connection: new, listed, cancelled, ended
    dir,     \* the directory: a map from uids to connections
    held,    \* the connection that each holder has looked up
    closed   \* the directory has been shut

vars == <<stage, dir, held, closed>>

Entries(c) == {u \in DOMAIN dir : dir[u] = c}

\* A service may be looked at when connections are up already, each under its uid.
Init ==
    /\ stage \in [Conn -> {"new", "listed"}]
    /\ dir \in UNION {[D -> {c \in Conn : stage[c] = "listed"}] : D \in SUBSET UID}
    /\ \A c \in Conn : stage[c] = "listed" => \E u \in UID : Entries(c) = {u}
    /\ held = [h \in Holder |-> None]
    /\ closed = FALSE

\* A connection comes in under a uid nobody has.
Enter(c, u) ==
    /\ ~closed
    /\ stage[c] = "new"
    /\ u \notin DOMAIN dir
    /\ stage' = [stage EXCEPT ![c] = "listed"]
    /\ dir' = [v \in DOMAIN dir \cup {u} |-> IF v = u THEN c ELSE dir[v]]
    /\ UNCHANGED <<held, closed>>

\* It is cancelled by its own loops or by Close; the entry is still there.
Cancel(c) ==
    /\ stage[c] = "listed"
    /\ stage' = [stage EXCEPT ![c] = "cancelled"]
    /\ UNCHANGED <<dir, held, closed>>

\* A holder cancels what it found, wherever that is by now, and is through with
\* it; a connection that was cancelled before stays as it is.
Kick(h) ==
    /\ held[h] \in Conn
    /\ stage' = [stage EXCEPT ![held[h]] = IF @ = "listed" THEN "cancelled" ELSE @]
    /\ held' = [held EXCEPT ![h] = None]
    /\ UNCHANGED <<dir, closed>>

\* It leaves, and with it exactly its own entry.
Leave(c) ==
    /\ stage[c] = "cancelled"
    /\ stage' = [stage EXCEPT ![c] = "ended"]
    /\ dir' = [u \in DOMAIN dir \ Entries(c) |-> dir[u]]
    /\ UNCHANGED <<held, closed>>

\* A holder gets what the directory has under a uid.
Find(h, u) ==
    /\ u \in DOMAIN dir
    /\ held' = [held EXCEPT ![h] = dir[u]]
    /\ UNCHANGED <<stage, dir, closed>>

\* A holder is through with what it found.
Release(h) ==
    /\ held' = [held EXCEPT ![h] = None]
    /\ UNCHANGED <<stage, dir, closed>>

\* The directory is shut, when everybody in it has been cancelled.
Shut ==
    /\ ~closed
    /\ \A c \in Conn : stage[c] # "listed"
    /\ dir' = <<>>
    /\ closed' = TRUE
    /\ UNCHANGED <<stage, held>>

Next ==
    \/ \E c \in Conn :
         \/ \E u \in UID : Enter(c, u)
         \/ Cancel(c)
         \/ Leave(c)
    \/ \E h \in Holder :
         \/ \E u \in UID : Find(h, u)
         \/ Kick(h)
         \/ Release(h)
    \/ Shut

Spec == Init /\ [][Next]_vars
=============================================================================
