-------------------------- MODULE KeyedMutex_proofs --------------------------
(* Turns and order in the promise chain, for any number of callers and keys. *)
EXTENDS KeyedMutex, TLAPS

Active(c) == turn[c] \in {"waiting", "inside"}
SameLine(c, d) == Active(c) /\ Active(d) /\ key[c] = key[d]

MutexTypeOK ==
    /\ DOMAIN tails \subseteq Keys
    /\ \A k \in DOMAIN tails : tails[k] \in Callers
    /\ key \in [Callers -> Keys]
    /\ ahead \in [Callers -> Callers \cup {NoCaller}]
    /\ ticket \in [Callers -> Nat]
    /\ turn \in [Callers -> Turns]

\* The map holds a key exactly while somebody is in line for it: the last one.
TailIsLast ==
    /\ \A k \in DOMAIN tails : Active(tails[k]) /\ key[tails[k]] = k
    /\ \A c \in Callers :
          Active(c) => key[c] \in DOMAIN tails /\ ticket[c] <= ticket[tails[key[c]]]

\* Whoever is not at the front stands right behind somebody of the same line.
Behind ==
    \A c \in Callers :
        Active(c) /\ ~Front(c) =>
            /\ ahead[c] \in Callers /\ SameLine(c, ahead[c])
            /\ ticket[c] = ticket[ahead[c]] + 1

Distinct == \A c, d \in Callers : SameLine(c, d) /\ ticket[c] = ticket[d] => c = d
FrontIsLeast == \A c, d \in Callers : SameLine(c, d) /\ Front(c) => ticket[c] <= ticket[d]
InsideIsFront == \A c \in Callers : turn[c] = "inside" => Front(c)

MutexInv ==
    /\ MutexTypeOK /\ TailIsLast /\ Behind /\ Distinct /\ FrontIsLeast /\ InsideIsFront

\* The empty map satisfies the invariant.
LEMMA MutexInitial == MutexInit => MutexInv
  BY NoCallerAssumption, KeysAssumption DEF MutexInit, MutexInv, MutexTypeOK, TailIsLast, Behind, Distinct,
     FrontIsLeast, InsideIsFront, SameLine, Active, Turns

\* A newcomer joins the end of its line.
LEMMA ArriveKeeps ==
  ASSUME MutexInv, NEW c \in Callers, NEW k \in Keys, Arrive(c, k)
  PROVE  MutexInv'
<1> USE DEF SameLine, Active, Turns
<1>1. MutexTypeOK'
  BY DEF MutexInv, MutexTypeOK, Arrive
<1>2. \A d \in Callers \ {c} :
        /\ turn'[d] = turn[d] /\ key'[d] = key[d] /\ ahead'[d] = ahead[d] /\ ticket'[d] = ticket[d]
  BY DEF MutexInv, MutexTypeOK, Arrive
<1>3. /\ turn[c] = "idle" /\ turn'[c] = "waiting" /\ key'[c] = k
      /\ k \in DOMAIN tails => ahead'[c] = tails[k] /\ ticket'[c] = ticket[tails[k]] + 1
      /\ k \notin DOMAIN tails => ahead'[c] = NoCaller /\ ticket'[c] = 1
      /\ DOMAIN tails' = DOMAIN tails \cup {k} /\ tails'[k] = c
      /\ \A x \in DOMAIN tails : x # k => tails'[x] = tails[x]
  BY DEF MutexInv, MutexTypeOK, Arrive
<1>4. \A d \in Callers \ {c} : Active(d) /\ key[d] = k =>
        k \in DOMAIN tails /\ ticket[d] <= ticket[tails[k]] /\ ticket[d] < ticket'[c]
  BY <1>3 DEF MutexInv, MutexTypeOK, TailIsLast
<1>5. \A d \in Callers \ {c} : Front(d)' <=> Front(d)
  BY <1>2, <1>3, NoCallerAssumption DEF Front, MutexInv, MutexTypeOK
<1>6. TailIsLast'
  BY <1>2, <1>3, <1>4 DEF MutexInv, MutexTypeOK, TailIsLast
<1>7. Behind'
  <2>1. ASSUME NEW d \in Callers \ {c}, Active(d)', ~Front(d)'
        PROVE  ahead'[d] \in Callers /\ SameLine(d, ahead[d])' /\ ticket'[d] = ticket'[ahead'[d]] + 1
    <3>1. Active(d) /\ ~Front(d)
      BY <2>1, <1>2, <1>5
    <3>2. ahead[d] \in Callers /\ SameLine(d, ahead[d]) /\ ticket[d] = ticket[ahead[d]] + 1
      BY <3>1 DEF MutexInv, Behind
    <3>3. ahead[d] # c
      BY <3>2, <1>3
    <3> QED BY <3>2, <3>3, <1>2
  <2>2. ASSUME ~Front(c)'
        PROVE  ahead'[c] \in Callers /\ SameLine(c, ahead[c])' /\ ticket'[c] = ticket'[ahead'[c]] + 1
    <3>1. k \in DOMAIN tails
      BY <2>2, <1>3, NoCallerAssumption DEF Front
    <3>2. tails[k] \in Callers \ {c} /\ Active(tails[k]) /\ key[tails[k]] = k
      BY <3>1, <1>3 DEF MutexInv, MutexTypeOK, TailIsLast
    <3> QED BY <3>1, <3>2, <1>2, <1>3
  <2> QED BY <2>1, <2>2 DEF Behind
<1>8. Distinct'
  BY <1>2, <1>3, <1>4 DEF MutexInv, MutexTypeOK, Distinct
<1>9. FrontIsLeast'
  <2>1. ASSUME NEW d \in Callers, SameLine(c, d)', Front(c)'
        PROVE  d = c
    <3>1. k \notin DOMAIN tails
      BY <2>1, <1>2, <1>3 DEF Front, MutexInv, MutexTypeOK, TailIsLast
    <3>2. d # c => Active(d) /\ key[d] = k
      BY <2>1, <1>2, <1>3
    <3> QED BY <3>1, <3>2, <1>4
  <2> QED BY <2>1, <1>1, <1>2, <1>3, <1>4, <1>5 DEF MutexInv, MutexTypeOK, FrontIsLeast
<1>10. InsideIsFront'
  BY <1>2, <1>3, <1>5 DEF MutexInv, InsideIsFront
<1> QED BY <1>1, <1>6, <1>7, <1>8, <1>9, <1>10 DEF MutexInv

\* Being admitted changes nobody's place.
LEMMA AdmitKeeps ==
  ASSUME MutexInv, NEW c \in Callers, Admit(c)
  PROVE  MutexInv'
<1> USE DEF SameLine, Active, Turns
<1>1. /\ turn[c] = "waiting" /\ turn'[c] = "inside" /\ Front(c)
      /\ \A d \in Callers \ {c} : turn'[d] = turn[d]
      /\ UNCHANGED <<tails, key, ahead, ticket>>
  BY DEF MutexInv, MutexTypeOK, Admit
<1>2. \A d \in Callers : (Active(d)' <=> Active(d)) /\ (Front(d)' <=> Front(d))
  BY <1>1 DEF Front
<1> QED BY <1>1, <1>2 DEF MutexInv, MutexTypeOK, TailIsLast, Behind, Distinct, FrontIsLeast, InsideIsFront, Admit

\* The one behind the caller that leaves, and nobody else, comes to the front.
LEMMA LeaveKeeps ==
  ASSUME MutexInv, NEW c \in Callers, Leave(c)
  PROVE  MutexInv'
<1> USE DEF SameLine, Active, Turns
<1>1. MutexTypeOK'
  BY DEF MutexInv, MutexTypeOK, Leave
<1>2. /\ turn[c] = "inside" /\ turn'[c] = "left" /\ Front(c)
      /\ \A d \in Callers \ {c} : turn'[d] = turn[d]
      /\ UNCHANGED <<key, ahead, ticket>>
      /\ DOMAIN tails' = {k \in DOMAIN tails : tails[k] # c}
      /\ \A k \in DOMAIN tails' : tails'[k] = tails[k]
  BY DEF MutexInv, MutexTypeOK, InsideIsFront, Leave
<1>3. \A d \in Callers \ {c} : Active(d) /\ key[d] = key[c] => ticket[c] < ticket[d] /\ ~Front(d)
  BY <1>2 DEF MutexInv, MutexTypeOK, Distinct, FrontIsLeast
<1>4. \A d \in Callers \ {c} : Active(d) => Active(d)' /\ key[d] \in DOMAIN tails'
  BY <1>2, <1>3 DEF MutexInv, MutexTypeOK, TailIsLast
<1>5. TailIsLast'
  BY <1>2, <1>4 DEF MutexInv, MutexTypeOK, TailIsLast
<1>6. \A d \in Callers \ {c} : Front(d)' <=> Front(d) \/ ahead[d] = c
  BY <1>2 DEF Front, MutexInv, MutexTypeOK
<1>7. Behind'
  BY <1>2, <1>6 DEF MutexInv, Behind
<1>8. Distinct'
  BY <1>2 DEF MutexInv, Distinct
<1>9. FrontIsLeast'
  <2>1. ASSUME NEW d \in Callers, NEW e \in Callers, SameLine(d, e)', Front(d)'
        PROVE  ticket[d] <= ticket[e]
    <3>1. d # c /\ e # c /\ SameLine(d, e)
      BY <2>1, <1>2
    <3>2. CASE Front(d)
      BY <3>1, <3>2 DEF MutexInv, FrontIsLeast
    <3>3. CASE ~Front(d)
      <4>1. ahead[d] = c /\ key[c] = key[d] /\ ticket[d] = ticket[c] + 1
        BY <3>1, <3>3, <2>1, <1>6 DEF MutexInv, Behind
      <4>2. ticket[c] < ticket[e]
        BY <4>1, <3>1, <1>3
      <4> QED BY <4>1, <4>2 DEF MutexInv, MutexTypeOK
    <3> QED BY <3>2, <3>3
  <2> QED BY <2>1, <1>2 DEF FrontIsLeast
<1>10. InsideIsFront'
  BY <1>2, <1>6 DEF MutexInv, InsideIsFront
<1> QED BY <1>1, <1>5, <1>7, <1>8, <1>9, <1>10 DEF MutexInv

\* Steps of nobody.
LEMMA MutexStutter == ASSUME MutexInv, UNCHANGED mutex PROVE MutexInv'
  BY DEF mutex, MutexInv, MutexTypeOK, TailIsLast, Behind, Distinct, FrontIsLeast, InsideIsFront,
     SameLine, Active, Front

\* The invariant holds in every reachable state of the mutex.
THEOREM MutexInvariant == MutexSpec => []MutexInv
<1>1. MutexInv /\ [MutexNext]_mutex => MutexInv'
  BY ArriveKeeps, AdmitKeeps, LeaveKeeps, MutexStutter DEF MutexNext
<1> QED BY <1>1, MutexInitial, PTL DEF MutexSpec

\* In a state that satisfies it, whoever is inside is alone and came first.
LEMMA InsideAreAlone == MutexInv => TakesTurns
<1> SUFFICES ASSUME MutexInv, NEW c \in Callers, NEW d \in Callers, turn[c] = "inside",
                    turn[d] \in {"waiting", "inside"}, key[c] = key[d], c # d
             PROVE  turn[d] = "waiting" /\ ticket[c] < ticket[d]
  BY DEF TakesTurns
<1>1. SameLine(c, d) /\ SameLine(d, c) /\ Front(c)
  BY DEF SameLine, Active, MutexInv, InsideIsFront
<1>2. ticket[c] < ticket[d]
  BY <1>1 DEF MutexInv, MutexTypeOK, FrontIsLeast, Distinct
<1>3. ~Front(d)
  BY <1>1, <1>2 DEF MutexInv, MutexTypeOK, FrontIsLeast
<1> QED BY <1>2, <1>3 DEF MutexInv, InsideIsFront

\* runExclusive admits the callers of a key one at a time, in the order they came.
THEOREM TurnsAreTaken == MutexSpec => []TakesTurns
  BY InsideAreAlone, MutexInvariant, PTL
=============================================================================
