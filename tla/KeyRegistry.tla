---------------------------- MODULE KeyRegistry ----------------------------
(***************************************************************************)
(* What the cache of keys promises to the rest of btp, without its indexes.*)
(*                                                                         *)
(* A key is a counter's name together with the number ("id") its points    *)
(* are filed under.  The registry hands an id to every name that is used,  *)
(* never hands the same id out twice, forgets a name only on request or    *)
(* because it has not been used for TTL seconds, and in the second case    *)
(* may be imprecise by less than gcInterval seconds.                       *)
(***************************************************************************)
EXTENDS Integers

CONSTANTS
    Names,        \* names of counters
    TTL           \* key_cache_options::TTL, seconds a key lives unused

VARIABLES
    gcInterval,   \* key_cache_options::gc_interval; 0 switches expiry off
    now,          \* the clock, in seconds
    serving,      \* TRUE once the keys of the previous run have been loaded
    ids,          \* ids[n]: the id of n, NoKey when n is not registered
    issued,       \* every id ever handed out or restored
    lastUse       \* lastUse[n]: when n was last used (or restored as used)

vars == <<gcInterval, now, serving, ids, issued, lastUse>>

NoKey  == 0
NoTime == -1

Held == {n \in Names : ids[n] # NoKey}

Later(a, b) == IF a >= b THEN a ELSE b

Init ==
    /\ gcInterval \in Nat
    /\ now \in Nat
    /\ serving = FALSE
    /\ ids = [n \in Names |-> NoKey]
    /\ issued = {}
    /\ lastUse = [n \in Names |-> NoTime]

Tick ==
    /\ now' = now + 1
    /\ UNCHANGED <<serving, ids, issued, lastUse>>

(* n gets an id that no other name has.                                    *)
Register(n) ==
    /\ ids[n] = NoKey
    /\ ids'[n] # NoKey
    /\ \A m \in Held : ids[m] # ids'[n]
    /\ ids' = [ids EXCEPT ![n] = ids'[n]]
    /\ issued \cup {ids'[n]} \subseteq issued'

(* Start-up: the keys of the previous run come back, with their last use.  *)
Restore(n) ==
    /\ ~serving
    /\ Register(n)
    /\ lastUse'[n] \in Nat
    /\ lastUse' = [lastUse EXCEPT ![n] = lastUse'[n]]
    /\ UNCHANGED <<now, serving>>

(* Using a name keeps its id, or gives it one that nobody has or had.      *)
Use(n) ==
    /\ serving
    /\ \/ Register(n) /\ ids'[n] \notin issued
       \/ ids[n] # NoKey /\ UNCHANGED <<ids, issued>>
    /\ lastUse' = [lastUse EXCEPT ![n] = Later(lastUse[n], now)]
    /\ UNCHANGED <<now, serving>>

Forget(S) ==
    /\ ids' = [n \in Names |-> IF n \in S THEN NoKey ELSE ids[n]]
    /\ lastUse' = [n \in Names |-> IF n \in S THEN NoTime ELSE lastUse[n]]
    /\ UNCHANGED <<now, issued>>

Remove(n) ==
    /\ serving
    /\ Forget({n})
    /\ UNCHANGED serving

(* Every name unused for more than TTL goes, and nothing that has been     *)
(* used within the last TTL - gcInterval seconds does.                     *)
MustExpire == {n \in Held : lastUse[n] < now - TTL}
MayExpire  == {n \in Held : lastUse[n] < now - TTL + gcInterval}

ExpireStale ==
    \E S \in SUBSET Held :
        /\ gcInterval # 0
        /\ MustExpire \subseteq S
        /\ S \subseteq MayExpire
        /\ Forget(S)

Expire == serving /\ ExpireStale /\ UNCHANGED serving

(* Start-up ends with one expiry of what was restored.                     *)
OpenDone ==
    /\ ~serving
    /\ serving' = TRUE
    /\ \/ ExpireStale
       \/ gcInterval = 0 /\ UNCHANGED <<now, ids, issued, lastUse>>

Next ==
    /\ \/ Tick
       \/ \E n \in Names : Restore(n) \/ Use(n) \/ Remove(n)
       \/ Expire
       \/ OpenDone
    /\ UNCHANGED gcInterval

Spec == Init /\ [][Next]_vars
=============================================================================
