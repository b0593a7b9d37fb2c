------------------------ MODULE OutboxScheduleProofs ------------------------
(***************************************************************************)
(* Proofs about OutboxSchedule, for any entries, messages, destinations    *)
(* and limits.                                                             *)
(***************************************************************************)
EXTENDS OutboxSchedule, FiniteSetTheorems, WellFoundedInduction, TLAPS

(***************************************************************************)
(* Least elements, which serve as induction.                               *)
(***************************************************************************)
LEMMA Least ==
  ASSUME NEW T, T \subseteq Nat, T # {}
  PROVE  \E x \in T : \A y \in T : x <= y
<1>1. IsWellFoundedOn(OpToRel(<, Nat), Nat)
  BY NatLessThanWellFounded
<1>2. PICK R : R = OpToRel(<, Nat)
  OBVIOUS
<1>3. IsWellFoundedOn(R, Nat)
  BY <1>1, <1>2
<1>4. PICK x \in T : \A y \in T : ~(<<y, x>> \in R)
  BY <1>3, WFMin
<1>5. \A y \in Nat : y < x => <<y, x>> \in R
  BY <1>2 DEF OpToRel
<1>6. \A y \in T : x \in Nat /\ y \in Nat /\ ~(y < x)
  BY <1>4, <1>5
<1> QED BY <1>6

\* The first of some entries is one of them.
LEMMA FirstIsIn ==
  ASSUME NEW D, NEW order, Orders(order, D), NEW S, S \subseteq D, S # {}, IsFiniteSet(S)
  PROVE  First(S, order) \in S
<1> DEFINE Before(e) == {f \in S : <<f, e>> \in order}
           Ranks == {Cardinality(Before(e)) : e \in S}
<1>1. \A e \in S : IsFiniteSet(Before(e)) /\ Cardinality(Before(e)) \in Nat
  BY FS_Subset, FS_CardinalityType
<1>2. Ranks \subseteq Nat /\ Ranks # {}
  BY <1>1
<1>3. PICK x \in Ranks : \A y \in Ranks : x <= y
  <2> HIDE DEF Ranks
  <2> QED BY <1>2, Least
<1>4. PICK e \in S : x = Cardinality(Before(e))
  BY <1>3
<1>5. ASSUME NEW f \in S \ {e}
      PROVE  <<e, f>> \in order
  <2>1. SUFFICES ASSUME <<f, e>> \in order PROVE FALSE
    BY DEF Orders
  <2>2. Before(f) \subseteq Before(e) /\ f \in Before(e) /\ f \notin Before(f)
    BY <2>1 DEF Orders
  <2>3. /\ Cardinality(Before(f)) <= Cardinality(Before(e))
        /\ Cardinality(Before(f)) # Cardinality(Before(e))
    BY <1>1, <2>2, FS_Subset
  <2>4. Cardinality(Before(e)) <= Cardinality(Before(f))
    BY <1>3, <1>4
  <2>5. Cardinality(Before(e)) \in Nat /\ Cardinality(Before(f)) \in Nat
    BY <1>1
  <2> HIDE DEF Before
  <2> QED BY <2>3, <2>4, <2>5
<1> QED BY <1>5 DEF First

(***************************************************************************)
(* The loop of select.                                                     *)
(***************************************************************************)
Start == [picked |-> {}, turn |-> streak, streak |-> streak, since |-> bypassed]

Unfolds(turn, failed, m) ==
  turn = [n \in 0 .. m |-> IF n = 0 THEN Start ELSE PickNext(failed, turn[n - 1])]

LEMMA CapacityNatural ==
  ASSUME TypeOK
  PROVE  Capacity \in Nat /\ Cardinality(inFlight) \in Nat /\ IsFiniteSet(inFlight)
<1>1. IsFiniteSet(inFlight) /\ Cardinality(inFlight) \in Nat
  BY ScheduleAssumption, FS_Subset, FS_CardinalityType DEF TypeOK
<1> QED BY <1>1, ScheduleAssumption DEF Capacity

\* Turns can be taken as often as one likes.
LEMMA TurnsExist ==
  ASSUME NEW failed, NEW m \in Nat
  PROVE  \E turn : Unfolds(turn, failed, m)
<1> DEFINE T == {n \in Nat : ~ \E turn : Unfolds(turn, failed, n)}
<1>1. SUFFICES ASSUME T # {} PROVE FALSE
  OBVIOUS
<1>2. PICK n \in T : \A k \in T : n <= k
  BY <1>1, Least
<1>3. CASE n = 0
  <2>1. PICK turn : turn = [k \in 0 .. 0 |-> Start]
    OBVIOUS
  <2>2. Unfolds(turn, failed, 0)
    BY <2>1 DEF Unfolds
  <2> QED BY <1>2, <1>3, <2>2
<1>4. CASE n # 0
  <2>1. n - 1 \in Nat /\ n \in Nat
    BY <1>2, <1>4
  <2>2. n - 1 \notin T
    BY <1>2, <2>1
  <2>3. PICK f : Unfolds(f, failed, n - 1)
    BY <2>1, <2>2
  <2>4. PICK turn : turn = [k \in 0 .. n |-> IF k = n THEN PickNext(failed, f[n - 1]) ELSE f[k]]
    OBVIOUS
  <2>5. ASSUME NEW k \in 0 .. n
        PROVE  turn[k] = IF k = 0 THEN Start ELSE PickNext(failed, turn[k - 1])
    <3>1. CASE k = n
      BY <1>4, <2>1, <2>4, <3>1
    <3>2. CASE k # n
      <4>1. k \in 0 .. n - 1 /\ turn[k] = f[k]
        BY <2>1, <2>4, <3>2
      <4>2. f[k] = IF k = 0 THEN Start ELSE PickNext(failed, f[k - 1])
        BY <2>3, <4>1 DEF Unfolds
      <4>3. k # 0 => turn[k - 1] = f[k - 1]
        BY <2>1, <2>4, <3>2, <4>1
      <4> QED BY <4>1, <4>2, <4>3
    <3> QED BY <3>1, <3>2
  <2>6. Unfolds(turn, failed, n)
    BY <2>4, <2>5 DEF Unfolds
  <2> QED BY <1>2, <2>6
<1> QED BY <1>3, <1>4

LEMMA LoopUnfolds ==
  ASSUME TypeOK, NEW failed
  PROVE  Unfolds(Loop(failed), failed, Capacity)
<1>1. \E turn : Unfolds(turn, failed, Capacity)
  BY CapacityNatural, TurnsExist
<1>2. Loop(failed) = CHOOSE turn : Unfolds(turn, failed, Capacity)
  BY DEF Loop, Unfolds, Start
<1> QED BY <1>1, <1>2

(***************************************************************************)
(* The limits.                                                             *)
(***************************************************************************)
OfMessage(S, m) == {f \in S : MsgOf[f] = m}

OfDest(S, x) == {f \in S : DestOf[f] = x}

\* No message and no destination has more of S than it may.
Capped(S) ==
  \A e \in S : /\ Cardinality(OfMessage(S, MsgOf[e])) <= MaxPerMessage
               /\ Cardinality(OfDest(S, DestOf[e])) <= MaxPerDest

LEMMA Counts ==
  ASSUME NEW S, IsFiniteSet(S), NEW T, T \subseteq S
  PROVE  /\ IsFiniteSet(T) /\ Cardinality(T) \in Nat /\ Cardinality(S) \in Nat
         /\ Cardinality(T) <= Cardinality(S)
         /\ T # S => Cardinality(T) < Cardinality(S)
<1>1. /\ IsFiniteSet(T) /\ Cardinality(T) <= Cardinality(S)
      /\ Cardinality(T) = Cardinality(S) => T = S
  BY FS_Subset
<1>2. Cardinality(T) \in Nat /\ Cardinality(S) \in Nat
  BY <1>1, FS_CardinalityType
<1> QED BY <1>1, <1>2

LEMMA CountsOf ==
  ASSUME NEW S, IsFiniteSet(S), NEW T, T \subseteq S, NEW m, NEW x
  PROVE  /\ IsFiniteSet(T)
         /\ Cardinality(OfMessage(T, m)) \in Nat /\ Cardinality(OfDest(T, x)) \in Nat
         /\ Cardinality(OfMessage(S, m)) \in Nat /\ Cardinality(OfDest(S, x)) \in Nat
         /\ Cardinality(OfMessage(T, m)) <= Cardinality(OfMessage(S, m))
         /\ Cardinality(OfDest(T, x)) <= Cardinality(OfDest(S, x))
<1>1. IsFiniteSet(OfMessage(S, m)) /\ IsFiniteSet(OfDest(S, x)) /\ IsFiniteSet(T)
  BY Counts DEF OfMessage, OfDest
<1>2. OfMessage(T, m) \subseteq OfMessage(S, m) /\ OfDest(T, x) \subseteq OfDest(S, x)
  BY DEF OfMessage, OfDest
<1> QED BY <1>1, <1>2, Counts

LEMMA LimitsNatural ==
  /\ MaxInFlight \in Nat /\ MaxPerMessage \in Nat /\ MaxPerDest \in Nat
  /\ FreshBurst \in Nat /\ FreshBurst > 0
BY ScheduleAssumption

\* An entry that may start next to a set may start next to a smaller one.
LEMMA WithinLess ==
  ASSUME NEW S, IsFiniteSet(S), NEW T, T \subseteq S, NEW e, Within(e, S)
  PROVE  Within(e, T)
<1>1. \A R : Within(e, R) <=> /\ Cardinality(OfMessage(R, MsgOf[e])) < MaxPerMessage
                            /\ Cardinality(OfDest(R, DestOf[e])) < MaxPerDest
  BY DEF Within, OfMessage, OfDest
<1> QED BY <1>1, CountsOf, LimitsNatural

LEMMA CappedLess ==
  ASSUME NEW S, IsFiniteSet(S), NEW T, T \subseteq S, Capped(S)
  PROVE  Capped(T)
BY CountsOf, LimitsNatural DEF Capped

LEMMA CappedAdd ==
  ASSUME NEW S, IsFiniteSet(S), Capped(S), NEW e, e \notin S, Within(e, S)
  PROVE  Capped(S \cup {e})
<1> DEFINE U == S \cup {e}
<1>1. ASSUME NEW f \in U
      PROVE  Cardinality(OfMessage(U, MsgOf[f])) <= MaxPerMessage
  <2>1. CASE MsgOf[f] = MsgOf[e]
    <3>1. OfMessage(U, MsgOf[f]) = OfMessage(S, MsgOf[e]) \cup {e}
      BY <2>1 DEF OfMessage
    <3>2. IsFiniteSet(OfMessage(S, MsgOf[e])) /\ e \notin OfMessage(S, MsgOf[e])
      BY Counts DEF OfMessage
    <3>3. Cardinality(OfMessage(U, MsgOf[f])) = Cardinality(OfMessage(S, MsgOf[e])) + 1
      BY <3>1, <3>2, FS_AddElement
    <3>4. /\ Cardinality(OfMessage(S, MsgOf[e])) \in Nat
          /\ Cardinality(OfMessage(S, MsgOf[e])) < MaxPerMessage
      BY <3>2, FS_CardinalityType DEF Within, OfMessage
    <3> QED BY <3>3, <3>4, LimitsNatural
  <2>2. CASE MsgOf[f] # MsgOf[e]
    <3>1. OfMessage(U, MsgOf[f]) = OfMessage(S, MsgOf[f]) /\ f \in S
      BY <2>2 DEF OfMessage
    <3> QED BY <3>1 DEF Capped
  <2> QED BY <2>1, <2>2
<1>2. ASSUME NEW f \in U
      PROVE  Cardinality(OfDest(U, DestOf[f])) <= MaxPerDest
  <2>1. CASE DestOf[f] = DestOf[e]
    <3>1. OfDest(U, DestOf[f]) = OfDest(S, DestOf[e]) \cup {e}
      BY <2>1 DEF OfDest
    <3>2. IsFiniteSet(OfDest(S, DestOf[e])) /\ e \notin OfDest(S, DestOf[e])
      BY Counts DEF OfDest
    <3>3. Cardinality(OfDest(U, DestOf[f])) = Cardinality(OfDest(S, DestOf[e])) + 1
      BY <3>1, <3>2, FS_AddElement
    <3>4. /\ Cardinality(OfDest(S, DestOf[e])) \in Nat
          /\ Cardinality(OfDest(S, DestOf[e])) < MaxPerDest
      BY <3>2, FS_CardinalityType DEF Within, OfDest
    <3> QED BY <3>3, <3>4, LimitsNatural
  <2>2. CASE DestOf[f] # DestOf[e]
    <3>1. OfDest(U, DestOf[f]) = OfDest(S, DestOf[f]) /\ f \in S
      BY <2>2 DEF OfDest
    <3> QED BY <3>1 DEF Capped
  <2> QED BY <2>1, <2>2
<1> QED BY <1>1, <1>2 DEF Capped

\* What is capped is within the limits for each of its entries.
LEMMA CappedWithin ==
  ASSUME NEW S, IsFiniteSet(S), Capped(S), NEW e \in S
  PROVE  Within(e, S \ {e})
<1>1. /\ OfMessage(S \ {e}, MsgOf[e]) \subseteq OfMessage(S, MsgOf[e])
      /\ OfMessage(S \ {e}, MsgOf[e]) # OfMessage(S, MsgOf[e])
      /\ IsFiniteSet(OfMessage(S, MsgOf[e]))
  BY Counts DEF OfMessage
<1>2. /\ OfDest(S \ {e}, DestOf[e]) \subseteq OfDest(S, DestOf[e])
      /\ OfDest(S \ {e}, DestOf[e]) # OfDest(S, DestOf[e])
      /\ IsFiniteSet(OfDest(S, DestOf[e]))
  BY Counts DEF OfDest
<1>3. /\ Cardinality(OfMessage(S \ {e}, MsgOf[e])) < MaxPerMessage
      /\ Cardinality(OfDest(S \ {e}, DestOf[e])) < MaxPerDest
  <2>1. /\ Cardinality(OfMessage(S, MsgOf[e])) <= MaxPerMessage
        /\ Cardinality(OfDest(S, DestOf[e])) <= MaxPerDest
    BY DEF Capped
  <2>2. /\ Cardinality(OfMessage(S \ {e}, MsgOf[e])) < Cardinality(OfMessage(S, MsgOf[e]))
        /\ Cardinality(OfMessage(S \ {e}, MsgOf[e])) \in Nat
        /\ Cardinality(OfMessage(S, MsgOf[e])) \in Nat
    BY <1>1, Counts
  <2>3. /\ Cardinality(OfDest(S \ {e}, DestOf[e])) < Cardinality(OfDest(S, DestOf[e]))
        /\ Cardinality(OfDest(S \ {e}, DestOf[e])) \in Nat
        /\ Cardinality(OfDest(S, DestOf[e])) \in Nat
    BY <1>2, Counts
  <2> QED BY <2>1, <2>2, <2>3, LimitsNatural
<1> QED BY <1>3 DEF Within, OfMessage, OfDest

(***************************************************************************)
(* What every turn of the loop keeps.                                      *)
(***************************************************************************)
Busy(picked) == (inFlight \cap outbox) \cup picked

Stuck(picked) == Candidates(Fresh, picked) = {} /\ Candidates(Retries, picked) = {}

TurnSound(failed, n, state) ==
  /\ state.picked \subseteq Fresh \cup Retries
  /\ Cardinality(state.picked) <= n
  /\ Cardinality(state.picked) = n \/ Stuck(state.picked)
  /\ Capped(Busy(state.picked))
  /\ state.turn \in 0 .. FreshBurst /\ state.streak \in 0 .. FreshBurst
  /\ state.since \in 0 .. FreshBurst + 1
  /\ failed = {} => state.streak = state.turn
  /\ state.since <= state.turn \/ Candidates(Retries, state.picked) = {}

IInv ==
  /\ TypeOK
  /\ bypassed <= streak
  /\ Cardinality(inFlight) <= MaxInFlight
  /\ Capped(inFlight \cap outbox)

LEMMA DispatchedRange ==
  ASSUME NEW n \in 0 .. FreshBurst, NEW e
  PROVE  Dispatched(n, e) \in 0 .. FreshBurst
BY LimitsNatural DEF Dispatched

LEMMA QueuesFinite ==
  ASSUME TypeOK
  PROVE  /\ IsFiniteSet(inFlight) /\ IsFiniteSet(outbox)
         /\ Fresh \subseteq outbox /\ Retries \subseteq outbox /\ Retries \subseteq due
         /\ (Fresh \cup Retries) \cap inFlight = {}
         /\ Fresh \cap tried = {} /\ Retries \subseteq tried
         /\ \A P \in SUBSET outbox : IsFiniteSet(P) /\ IsFiniteSet(Busy(P))
<1>1. /\ Fresh \subseteq outbox /\ Retries \subseteq outbox /\ Retries \subseteq due
      /\ (Fresh \cup Retries) \cap inFlight = {}
      /\ Fresh \cap tried = {} /\ Retries \subseteq tried
  BY DEF TypeOK, Fresh, Retries
<1>2. IsFiniteSet(outbox) /\ IsFiniteSet(inFlight)
  BY ScheduleAssumption, FS_Subset DEF TypeOK
<1>3. \A P \in SUBSET outbox : Busy(P) \subseteq outbox
  BY DEF Busy
<1> QED BY <1>1, <1>2, <1>3, FS_Subset

\* The choice is a candidate; a fresh one only while the burst lasts, or nothing else may start.
LEMMA ChooseIsCandidate ==
  ASSUME TypeOK, NEW fresh, fresh \subseteq Fresh, NEW retries, retries \subseteq Retries,
         fresh # {} \/ retries # {}, NEW n \in 0 .. FreshBurst, NEW e, e = Choose(fresh, retries, n)
  PROVE  (e \in fresh /\ (retries = {} \/ n < FreshBurst)) \/ e \in retries
<1>1. IsFiniteSet(fresh) /\ fresh \subseteq outbox /\ IsFiniteSet(retries) /\ retries \subseteq due
  BY QueuesFinite, FS_Subset
<1>2. fresh # {} => First(fresh, older) \in fresh
  BY <1>1, FirstIsIn DEF TypeOK
<1>3. retries # {} => First(retries, sooner) \in retries
  BY <1>1, FirstIsIn DEF TypeOK
<1> QED BY <1>2, <1>3 DEF Choose

\* The more is picked, the less may still start.
LEMMA CandidatesShrink ==
  ASSUME TypeOK, NEW queue, queue \subseteq outbox, NEW P, NEW Q, P \subseteq Q, Q \subseteq outbox
  PROVE  Candidates(queue, Q) \subseteq Candidates(queue, P)
<1>1. IsFiniteSet(Busy(Q)) /\ Busy(P) \subseteq Busy(Q)
  BY QueuesFinite DEF Busy
<1>2. \A e : Within(e, Busy(Q)) => Within(e, Busy(P))
  BY <1>1, WithinLess
<1> QED BY <1>2 DEF Candidates, Allowed, Busy

LEMMA NextTurn ==
  ASSUME TypeOK, NEW failed, NEW n \in Nat, NEW state, TurnSound(failed, n, state),
         NEW next, next = PickNext(failed, state)
  PROVE  TurnSound(failed, n + 1, next)
<1>1. PICK P : P = state.picked
  OBVIOUS
<1>2. PICK fresh : fresh = Candidates(Fresh, P)
  OBVIOUS
<1>3. PICK retries : retries = Candidates(Retries, P)
  OBVIOUS
<1>4. PICK e : e = Choose(fresh, retries, state.turn)
  OBVIOUS
<1>5. P \subseteq outbox /\ IsFiniteSet(P) /\ Cardinality(P) \in Nat /\ Cardinality(P) <= n
  BY <1>1, QueuesFinite, FS_CardinalityType DEF TurnSound
<1>6. CASE fresh = {} /\ retries = {}
  <2>1. next = state
    BY <1>1, <1>2, <1>3, <1>6 DEF PickNext
  <2>2. Stuck(P)
    BY <1>2, <1>3, <1>6 DEF Stuck
  <2> QED BY <1>1, <1>5, <2>1, <2>2 DEF TurnSound
<1>7. CASE fresh # {} \/ retries # {}
  <2>1. /\ next.picked = P \cup {e}
        /\ next.turn = Dispatched(state.turn, e)
        /\ next.streak = IF e \in failed THEN state.streak ELSE Dispatched(state.streak, e)
        /\ next.since = IF e \in tried THEN 0
                        ELSE IF state.since > FreshBurst THEN state.since ELSE state.since + 1
    BY <1>1, <1>2, <1>3, <1>4, <1>7 DEF PickNext
  <2>2. \/ e \in fresh /\ (retries = {} \/ state.turn < FreshBurst)
        \/ e \in retries
    BY <1>2, <1>3, <1>4, <1>7, ChooseIsCandidate DEF Candidates, TurnSound
  <2>3. e \in Fresh \cup Retries /\ e \notin P /\ Allowed(e, P)
    BY <1>2, <1>3, <2>2 DEF Candidates
  <2>4. Cardinality(next.picked) = Cardinality(P) + 1
    BY <1>5, <2>1, <2>3, FS_AddElement
  <2>5. Cardinality(P) = n
    BY <1>1, <1>2, <1>3, <1>7 DEF TurnSound, Stuck
  <2>6. Capped(Busy(next.picked))
    <3>1. Busy(next.picked) = Busy(P) \cup {e} /\ e \notin Busy(P)
      BY <2>1, <2>3, QueuesFinite DEF Busy
    <3>2. IsFiniteSet(Busy(P)) /\ Capped(Busy(P)) /\ Within(e, Busy(P))
      BY <1>1, <1>5, <2>3, QueuesFinite DEF TurnSound, Allowed, Busy
    <3> QED BY <3>1, <3>2, CappedAdd
  <2>7. next.turn \in 0 .. FreshBurst /\ next.streak \in 0 .. FreshBurst
    BY <2>1, DispatchedRange DEF TurnSound
  <2>8. next.since \in 0 .. FreshBurst + 1
    BY <2>1, LimitsNatural DEF TurnSound
  <2>9. failed = {} => next.streak = next.turn
    BY <2>1 DEF TurnSound
  <2>10. next.since <= next.turn \/ Candidates(Retries, next.picked) = {}
    <3>1. CASE retries = {}
      <4>1. next.picked \subseteq outbox /\ P \subseteq next.picked
        BY <1>5, <2>1, <2>3, QueuesFinite
      <4> QED BY <1>3, <3>1, <4>1, CandidatesShrink, QueuesFinite
    <3>2. CASE e \in tried
      BY <2>1, <2>7, <3>2 
    <3>3. CASE e \notin tried /\ retries # {}
      <4>1. e \in fresh /\ state.turn < FreshBurst
        BY <1>3, <2>2, <3>3, QueuesFinite DEF Candidates
      <4>2. state.since <= state.turn
        BY <1>1, <1>3, <3>3 DEF TurnSound
      <4>3. next.turn = state.turn + 1
        BY <2>1, <3>3, <4>1 DEF Dispatched
      <4> QED BY <2>1, <3>3, <4>1, <4>2, <4>3, LimitsNatural DEF TurnSound
    <3> QED BY <3>1, <3>2, <3>3
  <2>11. next.picked \subseteq Fresh \cup Retries /\ Cardinality(next.picked) = n + 1
    BY <1>1, <2>1, <2>3, <2>4, <2>5 DEF TurnSound
  <2> QED BY <2>6, <2>7, <2>8, <2>9, <2>10, <2>11 DEF TurnSound
<1> QED BY <1>6, <1>7

LEMMA LoopSound ==
  ASSUME IInv, NEW failed, NEW n \in 0 .. Capacity
  PROVE  TurnSound(failed, n, Loop(failed)[n])
<1> DEFINE T == {k \in 0 .. Capacity : ~TurnSound(failed, k, Loop(failed)[k])}
<1>1. SUFFICES ASSUME T # {} PROVE FALSE
  OBVIOUS
<1>2. TypeOK /\ Capacity \in Nat
  BY CapacityNatural DEF IInv
<1>3. T \subseteq Nat
  BY <1>2
<1>4. PICK k \in T : \A j \in T : k <= j
  <2> HIDE DEF T
  <2> QED BY <1>1, <1>3, Least
<1>5. Loop(failed)[k] = IF k = 0 THEN Start ELSE PickNext(failed, Loop(failed)[k - 1])
  BY <1>2, <1>4, LoopUnfolds DEF Unfolds
<1>6. CASE k = 0
  <2>1. PICK state : state = Loop(failed)[k]
    OBVIOUS
  <2>2. /\ state.picked = {} /\ state.turn = streak /\ state.streak = streak
        /\ state.since = bypassed
    BY <1>5, <1>6, <2>1 DEF Start
  <2>3. Capped(Busy(state.picked))
    BY <2>2 DEF Busy, IInv
  <2>4. Cardinality(state.picked) = 0
    BY <2>2, FS_EmptySet
  <2>5. TurnSound(failed, k, state)
    BY <1>2, <1>6, <2>2, <2>3, <2>4 DEF TurnSound, IInv, TypeOK
  <2> QED BY <1>4, <2>1, <2>5
<1>7. CASE k # 0
  <2>1. k - 1 \in 0 .. Capacity /\ k - 1 \in Nat /\ (k - 1) + 1 = k /\ k - 1 \notin T
    BY <1>2, <1>4, <1>7
  <2>2. TurnSound(failed, k - 1, Loop(failed)[k - 1])
    BY <2>1
  <2>3. TurnSound(failed, (k - 1) + 1, Loop(failed)[k])
    BY <1>2, <1>5, <1>7, <2>1, <2>2, NextTurn
  <2> QED BY <1>4, <2>1, <2>3
<1> QED BY <1>6, <1>7

\* What is picked does not depend on the threads that cannot be spawned.
LEMMA PickedSame ==
  ASSUME TypeOK, NEW failed
  PROVE  Polled(failed).picked = Selected
<1> DEFINE A == Loop(failed)
           B == Loop({})
           T == {k \in 0 .. Capacity : ~(A[k].picked = B[k].picked /\ A[k].turn = B[k].turn)}
<1>1. Capacity \in Nat
  BY CapacityNatural
<1>2. ASSUME T # {} PROVE FALSE
  <2>1. T \subseteq Nat
    BY <1>1
  <2>2. PICK k \in T : \A j \in T : k <= j
    <3> HIDE DEF T
    <3> QED BY <1>2, <2>1, Least
  <2>3. /\ A[k] = IF k = 0 THEN Start ELSE PickNext(failed, A[k - 1])
        /\ B[k] = IF k = 0 THEN Start ELSE PickNext({}, B[k - 1])
    BY <1>1, <2>2, LoopUnfolds DEF Unfolds
  <2>4. CASE k = 0
    BY <2>2, <2>3, <2>4
  <2>5. CASE k # 0
    <3>1. k - 1 \in 0 .. Capacity /\ k - 1 \notin T
      BY <1>1, <2>2, <2>5
    <3>2. PICK a, b : a = A[k - 1] /\ b = B[k - 1]
      OBVIOUS
    <3>3. a.picked = b.picked /\ a.turn = b.turn
      BY <3>1, <3>2
    <3>4. A[k] = PickNext(failed, a) /\ B[k] = PickNext({}, b)
      BY <2>3, <2>5, <3>2
    <3>5. /\ PickNext(failed, a).picked = PickNext({}, b).picked
          /\ PickNext(failed, a).turn = PickNext({}, b).turn
      BY <3>3 DEF PickNext
    <3> QED BY <2>2, <3>4, <3>5
  <2> QED BY <2>4, <2>5
<1>3. Capacity \notin T /\ Capacity \in 0 .. Capacity
  BY <1>1, <1>2
<1> QED BY <1>3 DEF Polled, Selected

(***************************************************************************)
(* A poll.                                                                 *)
(***************************************************************************)
LEMMA PolledSound ==
  ASSUME IInv, NEW failed, NEW end, end = Polled(failed)
  PROVE  /\ TurnSound(failed, Capacity, end) /\ end.picked = Selected
         /\ IsFiniteSet(end.picked) /\ end.picked \subseteq outbox
         /\ end.picked \cap inFlight = {} /\ Cardinality(end.picked) \in Nat
<1>1. TypeOK /\ Capacity \in 0 .. Capacity
  BY CapacityNatural DEF IInv
<1>2. TurnSound(failed, Capacity, end) /\ end.picked = Selected
  BY <1>1, LoopSound, PickedSame DEF Polled
<1> QED BY <1>1, <1>2, QueuesFinite, FS_CardinalityType DEF TurnSound

\* The entries in flight after a poll.
LEMMA PollLimits ==
  ASSUME IInv, NEW failed, Poll(failed)
  PROVE  /\ inFlight' \subseteq Entry /\ IsFiniteSet(inFlight')
         /\ Cardinality(inFlight') <= MaxInFlight
         /\ Capped(inFlight' \cap outbox)
<1>1. PICK end : end = Polled(failed)
  OBVIOUS
<1>2. /\ TurnSound(failed, Capacity, end) /\ IsFiniteSet(end.picked) /\ end.picked \subseteq outbox
      /\ end.picked \cap inFlight = {} /\ Cardinality(end.picked) \in Nat
  BY <1>1, PolledSound
<1>3. end.picked \ failed # {} /\ inFlight' = inFlight \cup (end.picked \ failed)
  BY <1>1 DEF Poll
<1>4. /\ Capacity \in Nat /\ Cardinality(inFlight) \in Nat /\ IsFiniteSet(inFlight)
      /\ inFlight \subseteq Entry /\ outbox \subseteq Entry
  BY CapacityNatural DEF IInv, TypeOK
<1>5. Cardinality(end.picked) <= Capacity /\ Capacity > 0
  <2>1. Cardinality(end.picked) # 0
    BY <1>2, <1>3, FS_EmptySet
  <2> QED BY <1>2, <1>4, <2>1 DEF TurnSound
<1>6. Capacity = MaxInFlight - Cardinality(inFlight)
  BY <1>5 DEF Capacity
<1>7. /\ IsFiniteSet(inFlight \cup end.picked)
      /\ Cardinality(inFlight \cup end.picked) = Cardinality(inFlight) + Cardinality(end.picked)
  <2>1. inFlight \cap end.picked = {}
    BY <1>2
  <2>2. Cardinality(inFlight \cap end.picked) = 0
    BY <2>1, FS_EmptySet
  <2>3. /\ IsFiniteSet(inFlight \cup end.picked)
        /\ Cardinality(inFlight \cup end.picked)
             = Cardinality(inFlight) + Cardinality(end.picked) - Cardinality(inFlight \cap end.picked)
    BY <1>2, <1>4, FS_Union
  <2> QED BY <1>2, <1>4, <2>2, <2>3
<1>8. IsFiniteSet(inFlight') /\ Cardinality(inFlight') <= Cardinality(inFlight \cup end.picked)
      /\ Cardinality(inFlight') \in Nat
  BY <1>3, <1>7, Counts
<1>9. Cardinality(inFlight') <= MaxInFlight
  BY <1>2, <1>4, <1>5, <1>6, <1>7, <1>8, LimitsNatural
<1>10. Capped(inFlight' \cap outbox)
  <2>1. inFlight' \cap outbox \subseteq Busy(end.picked)
    BY <1>2, <1>3 DEF Busy
  <2>2. Capped(Busy(end.picked)) /\ IsFiniteSet(Busy(end.picked))
    BY <1>2, QueuesFinite DEF TurnSound, IInv
  <2> QED BY <2>1, <2>2, CappedLess
<1> QED BY <1>2, <1>3, <1>4, <1>8, <1>9, <1>10

LEMMA PollStep ==
  ASSUME IInv, NEW failed, Poll(failed)
  PROVE  IInv'
<1>1. PICK end : end = Polled(failed)
  OBVIOUS
<1>2. TurnSound(failed, Capacity, end)
  BY <1>1, PolledSound
<1>3. /\ streak' = end.streak /\ UNCHANGED <<queues, reports>>
      /\ bypassed' = IF failed # {} \/ Candidates(Retries, end.picked) = {} THEN 0 ELSE end.since
  BY <1>1 DEF Poll
<1>4. streak' \in 0 .. FreshBurst
  BY <1>2, <1>3 DEF TurnSound
<1>5. bypassed' \in 0 .. FreshBurst + 1 /\ bypassed' <= streak'
  <2>1. CASE failed # {} \/ Candidates(Retries, end.picked) = {}
    BY <1>3, <1>4, <2>1, LimitsNatural
  <2>2. CASE failed = {} /\ Candidates(Retries, end.picked) # {}
    BY <1>2, <1>3, <2>2 DEF TurnSound
  <2> QED BY <2>1, <2>2
<1>6. TypeOK'
  <2>1. inFlight' \subseteq Entry
    BY PollLimits
  <2> QED BY <1>3, <1>4, <1>5, <2>1 DEF IInv, TypeOK, queues
<1>7. Cardinality(inFlight') <= MaxInFlight /\ Capped(inFlight' \cap outbox')
  BY <1>3, PollLimits DEF queues
<1> QED BY <1>5, <1>6, <1>7 DEF IInv

(***************************************************************************)
(* The other steps: queues and their orders.                               *)
(***************************************************************************)

\* Only a poll adds to what is in flight and queued.
LEMMA LimitsKept ==
  ASSUME IInv, inFlight' \subseteq inFlight, inFlight' \cap outbox' \subseteq inFlight \cap outbox
  PROVE  Cardinality(inFlight') <= MaxInFlight /\ Capped(inFlight' \cap outbox')
<1>1. /\ IsFiniteSet(inFlight) /\ Cardinality(inFlight) <= MaxInFlight
      /\ Capped(inFlight \cap outbox)
  BY CapacityNatural DEF IInv
<1>2. /\ Cardinality(inFlight') <= Cardinality(inFlight)
      /\ Cardinality(inFlight') \in Nat /\ Cardinality(inFlight) \in Nat
  BY <1>1, Counts
<1>3. IsFiniteSet(inFlight \cap outbox)
  BY <1>1, Counts
<1> QED BY <1>1, <1>2, <1>3, CappedLess, LimitsNatural

LEMMA WithoutOrders ==
  ASSUME NEW D, NEW order, Orders(order, D), NEW S
  PROVE  Orders(Without(order, S), D \ S)
<1>1. \A p \in order : p = <<p[1], p[2]>> /\ p[1] \in D /\ p[2] \in D
  BY DEF Orders
<1>2. \A e, f : <<e, f>> \in Without(order, S) <=> <<e, f>> \in order /\ e \notin S /\ f \notin S
  BY DEF Without
<1>3. Without(order, S) \subseteq (D \ S) \X (D \ S)
  BY <1>1 DEF Without
<1> QED BY <1>2, <1>3 DEF Orders

LEMMA BehindOrders ==
  ASSUME NEW D, NEW order, Orders(order, D), NEW e, e \notin D
  PROVE  Orders(Behind(order, D, e), D \cup {e})
<1>1. \A f, g : <<f, g>> \in Behind(order, D, e) <=> <<f, g>> \in order \/ (f \in D /\ g = e)
  BY DEF Behind
<1>2. order \subseteq D \X D
  BY DEF Orders
<1>3. Behind(order, D, e) \subseteq (D \cup {e}) \X (D \cup {e})
  BY <1>2 DEF Behind
<1> QED BY <1>1, <1>2, <1>3 DEF Orders

LEMMA ArriveStep ==
  ASSUME IInv, NEW e \in Entry, Arrive(e)
  PROVE  IInv'
<1>1. /\ e \notin outbox \cup inFlight
      /\ outbox' = outbox \cup {e} /\ older' = Behind(older, outbox, e)
      /\ UNCHANGED <<tried, due, sooner, reset, rerouted, inFlight, streak, bypassed, reports>>
  BY DEF Arrive
<1>2. Orders(older', outbox')
  BY <1>1, BehindOrders DEF IInv, TypeOK
<1>3. Cardinality(inFlight') <= MaxInFlight /\ Capped(inFlight' \cap outbox')
  BY <1>1, LimitsKept
<1>4. TypeOK'
  BY <1>1, <1>2 DEF IInv, TypeOK
<1> QED BY <1>1, <1>3, <1>4 DEF IInv

LEMMA FallDueStep ==
  ASSUME IInv, NEW e \in Entry, FallDue(e)
  PROVE  IInv'
<1>1. /\ e \in tried /\ e \notin due
      /\ due' = due \cup {e} /\ sooner' = Behind(sooner, due, e)
      /\ UNCHANGED <<outbox, older, tried, reset, rerouted, inFlight, streak, bypassed, reports>>
  BY DEF FallDue
<1>2. Orders(sooner', due')
  BY <1>1, BehindOrders DEF IInv, TypeOK
<1>3. TypeOK'
  BY <1>1, <1>2 DEF IInv, TypeOK
<1> QED BY <1>1, <1>3 DEF IInv

LEMMA ZeroFirstOrders ==
  ASSUME Orders(older, outbox), Orders(sooner, due),
         NEW D, NEW Z, Z \subseteq D, D \subseteq outbox, D \ Z \subseteq due
  PROVE  Orders(ZeroFirst(D, Z), D)
<1>1. PICK Now : Now = ZeroFirst(D, Z)
  OBVIOUS
<1>2. \A e, f : <<e, f>> \in Now <=>
        /\ e \in D /\ f \in D
        /\ IF e \in Z THEN f \in Z => <<e, f>> \in older
           ELSE f \notin Z /\ <<e, f>> \in sooner
  BY <1>1 DEF ZeroFirst
<1>3. Now \subseteq D \X D
  BY <1>1 DEF ZeroFirst
<1>4. ASSUME NEW e \in D
      PROVE  <<e, e>> \notin Now
  <2>1. CASE e \in Z
    <3>1. e \in outbox
      BY <2>1
    <3>2. <<e, e>> \notin older
      BY <3>1 DEF Orders
    <3> QED BY <1>2, <2>1, <3>2
  <2>2. CASE e \notin Z
    <3>1. e \in due
      BY <2>2
    <3>2. <<e, e>> \notin sooner
      BY <3>1 DEF Orders
    <3> QED BY <1>2, <2>2, <3>2
  <2> QED BY <2>1, <2>2
<1>5. \A e, f \in D : e # f => <<e, f>> \in Now \/ <<f, e>> \in Now
  <2>1. TAKE e, f \in D
  <2>2. HAVE e # f
  <2>3. CASE e \in Z /\ f \in Z
    <3>1. e \in outbox /\ f \in outbox
      BY <2>3
    <3>2. <<e, f>> \in older \/ <<f, e>> \in older
      BY <2>2, <3>1 DEF Orders
    <3> QED BY <1>2, <2>3, <3>2
  <2>4. CASE e \notin Z /\ f \notin Z
    <3>1. e \in due /\ f \in due
      BY <2>4
    <3>2. <<e, f>> \in sooner \/ <<f, e>> \in sooner
      BY <2>2, <3>1 DEF Orders
    <3> QED BY <1>2, <2>4, <3>2
  <2>5. CASE e \in Z /\ f \notin Z
    BY <1>2, <2>5
  <2>6. CASE e \notin Z /\ f \in Z
    BY <1>2, <2>6
  <2> QED BY <2>3, <2>4, <2>5, <2>6
<1>6. ASSUME NEW e \in D, NEW f \in D, NEW g \in D,
             <<e, f>> \in Now, <<f, g>> \in Now
      PROVE  <<e, g>> \in Now
  <2>1. CASE e \in Z
    <3>1. g \in Z => f \in Z
      BY <1>2, <1>6
    <3>2. g \in Z => <<e, g>> \in older
      BY <1>2, <1>6, <2>1, <3>1 DEF Orders
    <3> QED BY <1>2, <2>1, <3>2
  <2>2. CASE e \notin Z
    <3>1. f \notin Z /\ g \notin Z /\ <<e, f>> \in sooner /\ <<f, g>> \in sooner
      BY <1>2, <1>6, <2>2
    <3>2. e \in due /\ f \in due /\ g \in due
      BY <2>2, <3>1
    <3> QED BY <1>2, <2>2, <3>1, <3>2 DEF Orders
  <2> QED BY <2>1, <2>2
<1> QED BY <1>1, <1>3, <1>4, <1>5, <1>6 DEF Orders

LEMMA DueNowStep ==
  ASSUME IInv, NEW S, DueNow(S),
         UNCHANGED rerouted \/ \E M \in SUBSET outbox : rerouted' = rerouted \cup (M \cap inFlight)
  PROVE  IInv'
<1>1. /\ reset' = reset \cup (S \cap tried) /\ due' = due \cup reset'
      /\ sooner' = ZeroFirst(due', reset')
      /\ reports < MaxRecoveries /\ reports' = reports + 1
      /\ UNCHANGED <<outbox, older, tried, inFlight, streak, bypassed>>
  BY DEF DueNow
<1>2. /\ reset' \subseteq due' /\ due' \subseteq tried /\ tried \subseteq outbox
      /\ due' \ reset' \subseteq due
  BY <1>1 DEF IInv, TypeOK
<1>3. Orders(sooner', due')
  <2>1. PICK D, Z : D = due' /\ Z = reset'
    OBVIOUS
  <2>2. Orders(ZeroFirst(D, Z), D)
    BY <1>2, <2>1, ZeroFirstOrders DEF IInv, TypeOK
  <2> QED BY <1>1, <2>1, <2>2
<1>4. reports' \in 0 .. MaxRecoveries
  BY <1>1, ScheduleAssumption DEF IInv, TypeOK
<1>5. rerouted' \subseteq inFlight' \cap outbox'
  BY <1>1 DEF IInv, TypeOK
<1>6. TypeOK'
  BY <1>1, <1>2, <1>3, <1>4, <1>5 DEF IInv, TypeOK
<1> QED BY <1>1, <1>6 DEF IInv

LEMMA DropStep ==
  ASSUME IInv, NEW S, Drop(S), inFlight' \subseteq inFlight, inFlight \ inFlight' \subseteq S,
         UNCHANGED <<streak, bypassed, reports>>
  PROVE  IInv'
<1>1. /\ outbox' = outbox \ S /\ older' = Without(older, S) /\ tried' = tried \ S
      /\ due' = due \ S /\ sooner' = Without(sooner, S) /\ reset' = reset \ S
      /\ rerouted' = rerouted \ S
  BY DEF Drop
<1>2. Orders(older', outbox') /\ Orders(sooner', due')
  BY <1>1, WithoutOrders DEF IInv, TypeOK
<1>3. Cardinality(inFlight') <= MaxInFlight /\ Capped(inFlight' \cap outbox')
  BY <1>1, LimitsKept
<1>4. TypeOK'
  BY <1>1, <1>2 DEF IInv, TypeOK
<1> QED BY <1>3, <1>4 DEF IInv

LEMMA FailStep ==
  ASSUME IInv, NEW e, Fail(e)
  PROVE  IInv'
<1>1. /\ inFlight' = inFlight \ {e} /\ tried' = tried \cup ({e} \cap outbox)
      /\ rerouted' = rerouted \ {e}
      /\ UNCHANGED <<outbox, older, streak, bypassed, reports>>
  BY DEF Fail
<1>2. /\ Orders(sooner', due') /\ due' \subseteq tried' /\ reset' \subseteq due'
  <2>1. CASE e \in rerouted
    <3>1. /\ reset' = reset \cup {e} /\ due' = due \cup {e} /\ sooner' = ZeroFirst(due', reset')
      BY <2>1 DEF Fail
    <3>2. e \in outbox
      BY <2>1 DEF IInv, TypeOK
    <3>3. PICK D, Z : D = due' /\ Z = reset'
      OBVIOUS
    <3>4. Z \subseteq D /\ D \subseteq outbox /\ D \ Z \subseteq due
      BY <3>1, <3>2, <3>3 DEF IInv, TypeOK
    <3>5. Orders(ZeroFirst(D, Z), D)
      BY <3>4, ZeroFirstOrders DEF IInv, TypeOK
    <3>6. due' \subseteq tried' /\ reset' \subseteq due'
      BY <1>1, <3>1, <3>2 DEF IInv, TypeOK
    <3> QED BY <3>1, <3>3, <3>5, <3>6
  <2>2. CASE e \notin rerouted
    <3>1. due' = due \ {e} /\ sooner' = Without(sooner, {e}) /\ reset' = reset \ {e}
      BY <2>2 DEF Fail
    <3>2. Orders(sooner', due')
      BY <3>1, WithoutOrders DEF IInv, TypeOK
    <3> QED BY <1>1, <3>1, <3>2 DEF IInv, TypeOK
  <2> QED BY <2>1, <2>2
<1>3. Cardinality(inFlight') <= MaxInFlight /\ Capped(inFlight' \cap outbox')
  BY <1>1, LimitsKept
<1>4. TypeOK'
  BY <1>1, <1>2 DEF IInv, TypeOK
<1> QED BY <1>1, <1>3, <1>4 DEF IInv

(***************************************************************************)
(* Theorems.                                                               *)
(***************************************************************************)
LEMMA InitSound == Init => IInv
<1>1. SUFFICES ASSUME Init PROVE IInv
  OBVIOUS
<1>2. /\ outbox = {} /\ older = {} /\ tried = {} /\ due = {} /\ sooner = {} /\ reset = {}
      /\ rerouted = {} /\ inFlight = {} /\ streak = 0 /\ bypassed = 0 /\ reports = 0
  BY <1>1 DEF Init
<1>3. TypeOK
  BY <1>2, LimitsNatural, ScheduleAssumption DEF TypeOK, Orders
<1>4. Cardinality(inFlight) <= MaxInFlight
  BY <1>2, FS_EmptySet, LimitsNatural
<1> QED BY <1>2, <1>3, <1>4 DEF IInv, Capped

\* What a step is.
LEMMA StepCases ==
  ASSUME Next
  PROVE  \/ \E failed : Poll(failed)
         \/ \E e \in Entry : Arrive(e) \/ FallDue(e) \/ Fail(e)
         \/ \E S : /\ DueNow(S)
                   /\ \/ UNCHANGED rerouted
                      \/ \E M \in SUBSET outbox : rerouted' = rerouted \cup (M \cap inFlight)
         \/ \E S : /\ Drop(S) /\ inFlight' \subseteq inFlight /\ inFlight \ inFlight' \subseteq S
                   /\ UNCHANGED <<streak, bypassed, reports>>
<1>1. CASE \E failed \in SUBSET Selected : Poll(failed)
  BY <1>1
<1>2. CASE \E e \in Entry : Arrive(e) \/ FallDue(e) \/ Succeed(e) \/ Fail(e)
  BY <1>2 DEF Succeed
<1>3. CASE NetworkRecovered
  BY <1>3 DEF NetworkRecovered
<1>4. CASE \E e \in Entry : Reroute(e) \/ Cancel(MsgOf[e])
  BY <1>4 DEF Reroute, Cancel
<1> QED BY <1>1, <1>2, <1>3, <1>4 DEF Next

LEMMA StepSound ==
  ASSUME IInv, [Next]_vars
  PROVE  IInv'
<1>1. CASE Next
  BY <1>1, StepCases, PollStep, ArriveStep, FallDueStep, FailStep, DueNowStep, DropStep
<1>2. CASE UNCHANGED vars
  BY <1>2 DEF vars, queues, IInv, TypeOK
<1> QED BY <1>1, <1>2

\* The invariant of the schedule: what has a worker keeps within the limits, and retries
\* have waited no longer than the streak says.
THEOREM InvariantHolds == Spec => []IInv
<1>1. IInv /\ [Next]_vars => IInv'
  BY StepSound
<1> QED BY <1>1, InitSound, PTL DEF Spec

\* The queues and their orders are what they should be; due retries were tried and are
\* still in the outbox.
THEOREM TypeCorrect == Spec => []TypeOK
<1>1. IInv => TypeOK
  BY DEF IInv
<1> QED BY <1>1, InvariantHolds, PTL

\* select starts at most a burst of fresh entries, over any number of polls, before a due
\* retry that might start.
THEOREM RetriesGetTheirTurn == Spec => []BurstIsBounded
<1>1. IInv => BurstIsBounded
  BY LimitsNatural DEF IInv, TypeOK, BurstIsBounded
<1> QED BY <1>1, InvariantHolds, PTL

\* A poll of select exceeds no limit, and leaves no worker idle that a due entry could
\* have without exceeding one.
THEOREM LimitsHold == Spec => LimitsAreTight
<1>1. ASSUME IInv, [Next]_vars, inFlight' \ inFlight # {}
      PROVE  /\ Bounded(inFlight')
             /\ Selected \subseteq inFlight' =>
                  \A e \in (Fresh \cup Retries) \ inFlight' :
                    Cardinality(inFlight') >= MaxInFlight \/ ~Within(e, inFlight' \cap outbox)
  <2>1. PICK failed : Poll(failed)
    <3>1. CASE Next
      BY <1>1, <3>1, StepCases DEF Arrive, FallDue, Fail, DueNow
    <3>2. CASE UNCHANGED vars
      BY <1>1, <3>2 DEF vars
    <3> QED BY <1>1, <3>1, <3>2
  <2>2. /\ IsFiniteSet(inFlight') /\ Cardinality(inFlight') <= MaxInFlight
        /\ Capped(inFlight' \cap outbox)
    BY <1>1, <2>1, PollLimits
  <2>3. Bounded(inFlight')
    <3>1. IsFiniteSet(inFlight' \cap outbox)
      BY <2>2, Counts
    <3> QED BY <2>2, <3>1, CappedWithin DEF Bounded
  <2>4. ASSUME Selected \subseteq inFlight', NEW e \in (Fresh \cup Retries) \ inFlight',
               Within(e, inFlight' \cap outbox)
        PROVE  Cardinality(inFlight') >= MaxInFlight
    <3>1. PICK end : end = Polled(failed)
      OBVIOUS
    <3>2. /\ TurnSound(failed, Capacity, end) /\ end.picked = Selected
          /\ IsFiniteSet(end.picked) /\ end.picked \subseteq outbox
          /\ end.picked \cap inFlight = {} /\ Cardinality(end.picked) \in Nat
      BY <1>1, <3>1, PolledSound
    <3>3. inFlight' = inFlight \cup end.picked
      BY <2>1, <2>4, <3>1, <3>2 DEF Poll
    <3>4. inFlight' \cap outbox = Busy(end.picked)
      BY <3>2, <3>3 DEF Busy
    <3>5. ~Stuck(end.picked)
      BY <2>4, <3>3, <3>4 DEF Stuck, Candidates, Allowed, Busy
    <3>6. Cardinality(end.picked) = Capacity
      BY <3>2, <3>5 DEF TurnSound
    <3>7. Cardinality(inFlight') = Cardinality(inFlight) + Cardinality(end.picked)
      <4>1. IsFiniteSet(inFlight) /\ Cardinality(inFlight) \in Nat
        BY <1>1, CapacityNatural DEF IInv
      <4>2. inFlight \cap end.picked = {} /\ Cardinality(inFlight \cap end.picked) = 0
        BY <3>2, FS_EmptySet
      <4>3. Cardinality(inFlight \cup end.picked)
              = Cardinality(inFlight) + Cardinality(end.picked)
                - Cardinality(inFlight \cap end.picked)
        BY <3>2, <4>1, FS_Union
      <4> QED BY <3>2, <3>3, <4>1, <4>2, <4>3
    <3>8. Cardinality(inFlight) \in Nat /\ Cardinality(inFlight) + Capacity >= MaxInFlight
      BY <1>1, CapacityNatural, LimitsNatural DEF IInv, Capacity
    <3> QED BY <3>6, <3>7, <3>8
  <2> QED BY <2>3, <2>4
<1>2. IInv /\ [Next]_vars =>
        [ inFlight' \ inFlight # {} =>
            /\ Bounded(inFlight')
            /\ Selected \subseteq inFlight' =>
                 \A e \in (Fresh \cup Retries) \ inFlight' :
                   Cardinality(inFlight') >= MaxInFlight \/ ~Within(e, inFlight' \cap outbox) ]_vars
  BY <1>1
<1> QED BY <1>2, InvariantHolds, PTL DEF Spec, LimitsAreTight

=============================================================================
