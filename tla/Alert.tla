------------------------------- MODULE Alert --------------------------------
(***************************************************************************)
(* Alerting (pkg/feishu, and AlertLowFrequency, AlertAuto and AlertPanic   *)
(* of pkg/utils): goroutines that report conditions to a chat, at most now *)
(* and then for each key, and the one that ends the process.               *)
(*                                                                         *)
(* The text, the signature and the JSON are left out; an answer that does  *)
(* not parse or carries an error code is a failed post.  Time passes in    *)
(* ticks.  A condition with a blank key is not reported.                   *)
(***************************************************************************)
EXTENDS Integers, FiniteSets

CONSTANTS
    Key,       \* the conditions
    Blank,     \* a key of white space only
    Caller,    \* goroutines that report, used again when they are done
    KeepFor,   \* ticks for which a key stays in expireCache (30 s)
    Capacity   \* keys that expireCache holds (30000)

ASSUME AlertAssumption ==
    /\ IsFiniteSet(Caller)
    /\ {KeepFor, Capacity} \subseteq Nat \ {0}
    /\ Blank \notin Key

VARIABLES
    cache,   \* the keys in expireCache
    newer,   \* pairs of them: the first was used after the second
    keyLeft, \* the ticks after which a key expires
    pc,      \* where the call of a goroutine is
    key,     \* the key of the call
    fatal,   \* whether it was made by AlertPanic
    died,    \* the call whose panic ended the process, if one did
    posts,   \* posts of a key since it came into the cache
    tried    \* the keys a post of which has ended since they came into the cache

cacheVars == <<cache, newer, keyLeft, posts, tried>>
alertVars == <<cache, newer, keyLeft, pc, key, fatal, died, posts, tried>>

\* Posts of a key are counted up to one more than there are goroutines.
PostLimit == Cardinality(Caller) + 1

\* How Alert returns.
Over == {"hit", "sent", "failed", "blank"}

AlertTypeOK ==
    /\ cache \subseteq Key /\ IsFiniteSet(cache) /\ Cardinality(cache) <= Capacity
    /\ newer \subseteq cache \X cache
    /\ \A j, k \in cache : <<j, k>> \in newer <=> j # k /\ <<k, j>> \notin newer
    /\ \A i, j, k \in cache : <<i, j>> \in newer /\ <<j, k>> \in newer => <<i, k>> \in newer
    /\ keyLeft \in [Key -> 0..KeepFor]
    /\ pc \in [Caller -> {"idle", "get", "add", "post"} \cup Over]
    /\ key \in [Caller -> Key \cup {Blank}]
    /\ fatal \in [Caller -> BOOLEAN]
    /\ died \in SUBSET Caller
    /\ posts \in [Key -> 0..PostLimit]
    /\ tried \subseteq Key

AlertInit ==
    /\ cache = {}
    /\ newer = {}
    /\ keyLeft = [k \in Key |-> 0]
    /\ pc = [c \in Caller |-> "idle"]
    /\ key = [c \in Caller |-> Blank]
    /\ fatal = [c \in Caller |-> FALSE]
    /\ died = {}
    /\ posts = [k \in Key |-> 0]
    /\ tried = {}

Goto(c, p) == pc' = [pc EXCEPT ![c] = p]

\* AlertLowFrequency and AlertAuto start a goroutine that calls Alert;
\* AlertPanic calls it itself.
Raise(c, k, f) ==
    /\ died = {}
    /\ pc[c] = "idle"
    /\ Goto(c, IF k = Blank THEN "blank" ELSE "get")
    /\ key' = [key EXCEPT ![c] = k]
    /\ fatal' = [fatal EXCEPT ![c] = f]
    /\ UNCHANGED <<cacheVars, died>>

\* The order of last use among the keys of K, when k is used.
Used(k, K) == (newer \cap (K \ {k}) \X (K \ {k})) \cup {k} \X (K \ {k})

\* Seeded defect of Found: a key that is found is kept for another TTL.
FoundRefreshed(k) == newer' = Used(k, cache) /\ keyLeft' = [keyLeft EXCEPT ![k] = KeepFor]

\* expireCache.Get of a key in the cache: it becomes the one used last.
Found(k) == newer' = Used(k, cache) /\ UNCHANGED keyLeft

Lookup(c) ==
    /\ died = {}
    /\ pc[c] = "get"
    /\ IF key[c] \in cache
       THEN Goto(c, "hit") /\ Found(key[c])
       ELSE Goto(c, "add") /\ UNCHANGED <<newer, keyLeft>>
    /\ UNCHANGED <<cache, key, fatal, died, posts, tried>>

\* What expireCache.Add gives up for k: when the cache is full of others, the key
\* that was not used for the longest time.
GivenUp(k) ==
    IF k \in cache \/ Cardinality(cache) < Capacity THEN {}
    ELSE {CHOOSE j \in cache : \A i \in cache \ {j} : <<i, j>> \in newer}

Add(c) ==
    LET k == key[c]
        out == GivenUp(k)
    IN  /\ died = {}
        /\ pc[c] = "add"
        /\ Goto(c, "post")
        /\ cache' = (cache \ out) \cup {k}
        /\ newer' = Used(k, cache')
        /\ keyLeft' = [j \in Key |-> IF j = k THEN KeepFor ELSE IF j \in out THEN 0 ELSE keyLeft[j]]
        /\ posts' = [j \in Key |-> IF j \in out THEN 0
                                   ELSE IF j = k /\ posts[k] < PostLimit THEN posts[k] + 1
                                   ELSE posts[j]]
        /\ tried' = tried \ (out \cup ({k} \ cache))
        /\ UNCHANGED <<key, fatal, died>>

\* Seeded defect of AfterFailure: a key that was not sent is given up.
AfterFailureFree(k) == cache' = cache \ {k} /\ newer' = newer \cap cache' \X cache'

\* A post that failed does nothing to the cache.
AfterFailure(k) == UNCHANGED <<cache, newer>>

\* The post to the chat ends: with an answer, an error or its timeout.
Post(c, ok) ==
    /\ died = {}
    /\ pc[c] = "post"
    /\ Goto(c, IF ok THEN "sent" ELSE "failed")
    /\ tried' = tried \cup {key[c]}
    /\ IF ok THEN UNCHANGED <<cache, newer>> ELSE AfterFailure(key[c])
    /\ UNCHANGED <<keyLeft, key, fatal, died, posts>>

\* AlertPanic panics when Alert has returned.
MayPanic(c) == pc[c] \in Over

\* The goroutine ends, and with AlertPanic the process.
Return(c) ==
    /\ died = {}
    /\ IF fatal[c] THEN MayPanic(c) /\ died' = {c} /\ UNCHANGED <<pc, key>>
       ELSE /\ pc[c] \in Over
            /\ Goto(c, "idle")
            /\ key' = [key EXCEPT ![c] = Blank]
            /\ UNCHANGED died
    /\ UNCHANGED <<cacheVars, fatal>>

\* A tick: keys expire.
Age ==
    LET gone == {k \in cache : keyLeft[k] = 1}
    IN  /\ died = {}
        /\ keyLeft' = [k \in Key |-> IF keyLeft[k] > 0 THEN keyLeft[k] - 1 ELSE 0]
        /\ cache' = cache \ gone
        /\ newer' = newer \cap cache' \X cache'
        /\ posts' = [k \in Key |-> IF k \in gone THEN 0 ELSE posts[k]]
        /\ tried' = tried \ gone
        /\ UNCHANGED <<pc, key, fatal, died>>

Call(c) == Lookup(c) \/ Add(c) \/ (\E ok \in BOOLEAN : Post(c, ok)) \/ Return(c)

AlertNext ==
    \/ \E c \in Caller, k \in Key \cup {Blank}, f \in BOOLEAN : Raise(c, k, f)
    \/ \E c \in Caller : Call(c)
    \/ Age

\* Goroutines are scheduled, the post has a timeout and time passes.
AlertFairness == WF_alertVars(Age) /\ \A c \in Caller : WF_alertVars(Call(c))

AlertSpec == AlertInit /\ [][AlertNext]_alertVars /\ AlertFairness

-----------------------------------------------------------------------------
(* Properties.                                                             *)

\* Get and Add are two steps, so goroutines that meet between them all post.
\* But no more than those: while a key is in the cache, failed posts and calls
\* that come later add nothing.
StormBounded == \A k \in Key : posts[k] <= Cardinality(Caller)

\* AlertPanic ends the process only after its own attempt to tell the chat, or,
\* when it finds the key in the cache, with somebody else's attempt made or under
\* way.  One that is under way is then cut off by the panic: nobody may hear of it.
DeathReported ==
    \A c \in died :
      \/ key[c] = Blank
      \/ pc[c] \in {"sent", "failed"}
      \/ /\ pc[c] = "hit"
         /\ key[c] \in cache =>
              key[c] \in tried \/ \E d \in Caller : pc[d] = "post" /\ key[d] = key[c]

\* A storm is bounded, and no process ends by AlertPanic before somebody has at
\* least begun to report it.
AlertSafe == AlertTypeOK /\ StormBounded /\ DeathReported


\* A condition that is raised again and again is posted again and again: no
\* stream of calls keeps a key in the cache for ever.
PersistentReported ==
    \A k \in Key :
      ([]<>(\E c \in Caller : key[c] = k /\ pc[c] = "get"))
        => []<>(died # {} \/ \E c \in Caller : key[c] = k /\ pc[c] = "post")
=============================================================================
