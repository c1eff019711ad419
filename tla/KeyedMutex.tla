------------------------------ MODULE KeyedMutex ------------------------------
(***************************************************************************)
(* common/async-mutex.ts: a map from keys to the tail of a chain of        *)
(* promises.  A caller waits for the promise that was the tail when it     *)
(* came, and its own becomes the tail.  A caller is one call of            *)
(* runExclusive, so it comes once.                                         *)
(***************************************************************************)
EXTENDS Integers

CONSTANTS
    Callers,    \* calls of runExclusive
    Keys,       \* the strings they lock
    NoCaller

ASSUME NoCallerAssumption == NoCaller \notin Callers
ASSUME KeysAssumption == Keys # {}

VARIABLES
    tails,      \* the Map: the last caller in line for each key held
    key,        \* what each caller locks
    ahead,      \* its `previous`
    ticket,     \* its place in the line it joined (history, for the order)
    turn        \* where it is

mutex == <<tails, key, ahead, ticket, turn>>

Turns == {"idle", "waiting", "inside", "left"}

MutexInit ==
    /\ tails = [k \in {} |-> NoCaller]
    /\ key = [c \in Callers |-> CHOOSE k \in Keys : TRUE]  \* set on arrival
    /\ ahead = [c \in Callers |-> NoCaller]
    /\ ticket = [c \in Callers |-> 0]
    /\ turn = [c \in Callers |-> "idle"]

\* tails.get(key) ?? Promise.resolve(), then tails.set(key, tail)
Arrive(c, k) ==
    /\ turn[c] = "idle"
    /\ key' = [key EXCEPT ![c] = k]
    /\ ahead' = [ahead EXCEPT ![c] = IF k \in DOMAIN tails THEN tails[k] ELSE NoCaller]
    /\ ticket' = [ticket EXCEPT ![c] = IF k \in DOMAIN tails THEN ticket[tails[k]] + 1 ELSE 1]
    /\ tails' = [x \in DOMAIN tails \cup {k} |-> IF x = k THEN c ELSE tails[x]]
    /\ turn' = [turn EXCEPT ![c] = "waiting"]

\* Nobody ahead, or the gate of the one ahead is open.
Front_NotAwaited(c) == TRUE
Front(c) == ahead[c] \in Callers => turn[ahead[c]] = "left"

Admit(c) ==
    /\ turn[c] = "waiting" /\ Front(c)
    /\ turn' = [turn EXCEPT ![c] = "inside"]
    /\ UNCHANGED <<tails, key, ahead, ticket>>

\* release(), and the tail is dropped when nobody queued behind it.
Leave(c) ==
    /\ turn[c] = "inside"
    /\ turn' = [turn EXCEPT ![c] = "left"]
    /\ tails' = [x \in {k \in DOMAIN tails : tails[k] # c} |-> tails[x]]
    /\ UNCHANGED <<key, ahead, ticket>>

MutexNext ==
    \E c \in Callers : (\E k \in Keys : Arrive(c, k)) \/ Admit(c) \/ Leave(c)

MutexSpec == MutexInit /\ [][MutexNext]_mutex

\* "Same-key operations are serialised, FIFO per key": whoever is inside came
\* before everybody who is in line for the same key, so no two are inside.
TakesTurns ==
    \A c, d \in Callers :
        /\ turn[c] = "inside" /\ turn[d] \in {"waiting", "inside"}
        /\ key[c] = key[d] /\ c # d
        => turn[d] = "waiting" /\ ticket[c] < ticket[d]
=============================================================================
