--------------------------- MODULE OutboxSchedule ---------------------------
(***************************************************************************)
(* Which entries of the outbox a poll hands to its few workers.  An entry  *)
(* is fresh until it has failed once, then it is a retry that waits for    *)
(* its next attempt.  A poll prefers fresh entries, but after a burst of   *)
(* them it gives the turn to a retry; and it lets neither one message nor  *)
(* one destination take all the workers.                                   *)
(*                                                                         *)
(* Whether a ciphertext is lost or sent twice is the subject of Outbox:    *)
(* here a result is applied at once.  Time is reduced to the order in      *)
(* which retries fall due: the due time of an entry that is due already is *)
(* past, so one that fails now comes after it.  A device keeps its own     *)
(* destination when its route is refreshed, since all its entries change.  *)
(* A queue is a set and the order of its entries, as a set of pairs.       *)
(*                                                                         *)
(* Operators named _Slip are plausible mistakes in the code they stand     *)
(* before, used by the mutation runs only.                                 *)
(***************************************************************************)
EXTENDS Naturals, FiniteSets

CONSTANTS
  Entry,          \* names for ciphertexts; a delivered one is used again
  MsgOf, DestOf,  \* their message and their destination
  MaxInFlight,    \* MAX_OUTBOX_IN_FLIGHT
  MaxPerMessage,  \* MAX_PER_MESSAGE
  MaxPerDest,     \* MAX_PER_DESTINATION
  FreshBurst,     \* FRESH_BURST
  Cancels,        \* whether conversations are deleted while they are delivered
  MaxRecoveries   \* bound: reports that the network, or a device by a new route, is back

ASSUME ScheduleAssumption ==
  /\ IsFiniteSet(Entry)
  /\ {MaxInFlight, MaxPerMessage, MaxPerDest, FreshBurst} \subseteq Nat \ {0}
  /\ Cancels \in BOOLEAN /\ MaxRecoveries \in Nat

VARIABLES
  outbox,    \* the entries to deliver
  older,     \* the order in which they were queued
  tried,     \* those of them that failed at least once
  due,       \* retries whose time has come
  sooner,    \* the order of their due times
  reset,     \* those of them whose due time was set back to zero
  rerouted,  \* entries whose worker uses a route that was replaced meanwhile
  inFlight,  \* in_flight: entries with a worker or a result not applied yet
  streak,    \* fresh_streak
  bypassed,  \* history: fresh starts while a retry waited for its turn
  reports    \* how many there were

queues == <<outbox, older, tried, due, sooner, reset, rerouted>>

vars == <<queues, inFlight, streak, bypassed, reports>>

Fresh == (outbox \ tried) \ inFlight

Retries == due \ inFlight

\* An order without the entries of S, and with e after all of S.
Without(order, S) == {p \in order : p[1] \notin S /\ p[2] \notin S}

Behind(order, S, e) == order \cup (S \X {e})

\* The order of the entries D that are due, when the due time of those in Z is zero: these
\* come before all others, in the order of the outbox.
ZeroFirst(D, Z) ==
  {p \in D \X D : IF p[1] \in Z THEN p[2] \in Z => p \in older
                  ELSE p[2] \notin Z /\ p \in sooner}

First(S, order) == CHOOSE e \in S : \A f \in S \ {e} : <<e, f>> \in order

-----------------------------------------------------------------------------
(* select.                                                                 *)

Within(e, S) ==
  /\ Cardinality({f \in S : MsgOf[f] = MsgOf[e]}) < MaxPerMessage
  /\ Cardinality({f \in S : DestOf[f] = DestOf[e]}) < MaxPerDest

\* dispatched: what a start does to the streak.
Dispatched(n, e) ==
  IF e \in tried THEN 0 ELSE IF n < FreshBurst THEN n + 1 ELSE n

\* Entries of the outbox that have a worker already count too.
Allowed(e, picked) == Within(e, (inFlight \cap outbox) \cup picked)

\* Only the head of the retries is considered.
Candidates_Slip(queue, picked) ==
  {e \in queue \ picked : /\ Allowed(e, picked)
                          /\ queue = Retries => e = First(queue \ picked, sooner)}

\* The entries of a queue that may start next to those picked so far.
Candidates(queue, picked) == {e \in queue \ picked : Allowed(e, picked)}

\* Fresh entries always come first.
Choose_Slip(fresh, retries, n) ==
  IF fresh # {} THEN First(fresh, older) ELSE First(retries, sooner)

Choose(fresh, retries, n) ==
  IF retries = {} \/ (fresh # {} /\ n < FreshBurst) THEN First(fresh, older)
  ELSE First(retries, sooner)

\* One turn of the loop. state is what it has picked, and its copy of the streak; of the
\* starts that follow in this order the streak they leave, where a thread that cannot be
\* spawned leaves it alone; and how many were fresh since a retry, up to one more than a burst.
PickNext(failed, state) ==
  LET fresh   == Candidates(Fresh, state.picked)
      retries == Candidates(Retries, state.picked)
      e       == Choose(fresh, retries, state.turn)
  IN  IF fresh = {} /\ retries = {} THEN state
      ELSE [picked |-> state.picked \cup {e},
            turn   |-> Dispatched(state.turn, e),
            streak |-> IF e \in failed THEN state.streak ELSE Dispatched(state.streak, e),
            since  |-> IF e \in tried THEN 0
                       ELSE IF state.since > FreshBurst THEN state.since ELSE state.since + 1]

Capacity == IF MaxInFlight > Cardinality(inFlight) THEN MaxInFlight - Cardinality(inFlight) ELSE 0

\* The states of the loop.
Loop(failed) ==
  LET turn[n \in 0 .. Capacity] ==
        IF n = 0 THEN [picked |-> {}, turn |-> streak, streak |-> streak, since |-> bypassed]
        ELSE PickNext(failed, turn[n - 1])
  IN  turn

Polled(failed) == Loop(failed)[Capacity]

Selected == Polled({}).picked

-----------------------------------------------------------------------------
(* poll_outbox_transport_with: start what select chose; a thread that      *)
(* cannot be spawned leaves its entry in the outbox and the streak alone.  *)
Poll(failed) ==
  LET end == Polled(failed) IN
  /\ end.picked \ failed # {}
  /\ inFlight' = inFlight \cup (end.picked \ failed)
  /\ streak' = end.streak
  /\ bypassed' = IF failed # {} \/ Candidates(Retries, end.picked) = {} THEN 0 ELSE end.since
  /\ UNCHANGED <<queues, reports>>

Arrive(e) ==
  /\ e \notin outbox \cup inFlight
  /\ outbox' = outbox \cup {e} /\ older' = Behind(older, outbox, e)
  /\ UNCHANGED <<tried, due, sooner, reset, rerouted, inFlight, streak, bypassed, reports>>

\* The time of a retry has come.
FallDue(e) ==
  /\ e \in tried \ (inFlight \cup due)
  /\ due' = due \cup {e} /\ sooner' = Behind(sooner, due, e)
  /\ UNCHANGED <<outbox, older, tried, reset, rerouted, inFlight, streak, bypassed, reports>>

\* Retries of S become due at time zero.
DueNow(S) ==
  /\ reset' = reset \cup (S \cap tried)
  /\ due' = due \cup reset'
  /\ sooner' = ZeroFirst(due', reset')
  /\ reports < MaxRecoveries /\ reports' = reports + 1
  /\ UNCHANGED <<outbox, older, tried, inFlight, streak, bypassed>>

NetworkRecovered == DueNow(outbox) /\ UNCHANGED rerouted

\* reroute_pending_deliveries: the device of e has published a new route.
Reroute(e) ==
  LET Moved == {f \in outbox : DestOf[f] = DestOf[e]} IN
  /\ DueNow(Moved)
  /\ rerouted' = rerouted \cup (Moved \cap inFlight)

\* Entries leave the outbox.
Drop(S) ==
  /\ outbox' = outbox \ S /\ older' = Without(older, S)
  /\ tried' = tried \ S
  /\ due' = due \ S /\ sooner' = Without(sooner, S) /\ reset' = reset \ S
  /\ rerouted' = rerouted \ S

\* flush_outbox and acknowledge_outbox_results, for one result.
Succeed(e) ==
  /\ e \in inFlight
  /\ inFlight' = inFlight \ {e}
  /\ Drop({e})
  /\ UNCHANGED <<streak, bypassed, reports>>

\* The attempt is counted and the next one is put off, unless the route it took was replaced.
Fail(e) ==
  /\ e \in inFlight
  /\ inFlight' = inFlight \ {e}
  /\ tried' = tried \cup ({e} \cap outbox)
  /\ \/ /\ e \in rerouted
        /\ reset' = reset \cup {e} /\ due' = due \cup {e} /\ sooner' = ZeroFirst(due', reset')
     \/ /\ e \notin rerouted
        /\ due' = due \ {e} /\ sooner' = Without(sooner, {e}) /\ reset' = reset \ {e}
  /\ rerouted' = rerouted \ {e}
  /\ UNCHANGED <<outbox, older, streak, bypassed, reports>>

\* delete_conversation: the entries of a message leave the outbox, their workers
\* run on.
Cancel(m) ==
  LET Gone == {e \in outbox : MsgOf[e] = m} IN
  /\ Cancels /\ Gone # {}
  /\ Drop(Gone)
  /\ UNCHANGED <<inFlight, streak, bypassed, reports>>

Init ==
  /\ outbox = {} /\ older = {} /\ tried = {} /\ due = {} /\ sooner = {} /\ reset = {}
  /\ rerouted = {} /\ inFlight = {} /\ streak = 0 /\ bypassed = 0 /\ reports = 0

Next ==
  \/ \E failed \in SUBSET Selected : Poll(failed)
  \/ \E e \in Entry : Arrive(e) \/ FallDue(e) \/ Succeed(e) \/ Fail(e)
  \/ NetworkRecovered
  \/ \E e \in Entry : Reroute(e) \/ Cancel(MsgOf[e])

Spec == Init /\ [][Next]_vars

-----------------------------------------------------------------------------
(* Properties.                                                             *)

\* order is a strict and total order of S.
Orders(order, S) ==
  /\ order \subseteq S \X S
  /\ \A e \in S : <<e, e>> \notin order
  /\ \A e, f \in S : e # f => <<e, f>> \in order \/ <<f, e>> \in order
  /\ \A e, f, g \in S : <<e, f>> \in order /\ <<f, g>> \in order => <<e, g>> \in order

TypeOK ==
  /\ outbox \subseteq Entry /\ Orders(older, outbox)
  /\ tried \subseteq outbox
  /\ due \subseteq tried /\ Orders(sooner, due)
  /\ reset \subseteq due
  /\ rerouted \subseteq inFlight \cap outbox
  /\ inFlight \subseteq Entry
  /\ streak \in 0 .. FreshBurst /\ bypassed \in 0 .. FreshBurst + 1
  /\ reports \in 0 .. MaxRecoveries

\* While a due retry could be started, at most a burst of fresh entries starts
\* before it, over any number of polls.  (select, dispatched)
BurstIsBounded == bypassed <= FreshBurst

\* The entries in flight and still queued keep within the limits.
Bounded(S) ==
  /\ Cardinality(S) <= MaxInFlight
  /\ \A e \in S \cap outbox : Within(e, (S \cap outbox) \ {e})

\* A poll never exceeds a limit, counting the workers of earlier polls; and when it
\* starts all that it chose, it leaves no worker idle that an entry which is due could
\* have without exceeding one.  (select, poll_outbox_transport_with)
LimitsAreTight ==
  [][ inFlight' \ inFlight # {} =>
        /\ Bounded(inFlight')
        /\ Selected \subseteq inFlight' =>
             \A e \in (Fresh \cup Retries) \ inFlight' :
               Cardinality(inFlight') >= MaxInFlight \/ ~Within(e, inFlight' \cap outbox) ]_vars

(***************************************************************************)
(* Liveness.  Each sync polls, each worker ends, each retry falls due; the *)
(* network, or a device, comes back MaxRecoveries times at most, for each  *)
(* time retries return to the order of the outbox.                         *)
(***************************************************************************)
Fairness ==
  /\ WF_vars(Poll({}))
  /\ \A e \in Entry : WF_vars(Succeed(e) \/ Fail(e)) /\ WF_vars(FallDue(e))

FairSpec == Spec /\ Fairness

\* An entry waits only for its own message or destination, whatever arrives or fails
\* besides: it is started, or other entries take all that these two may have, or its
\* conversation is deleted.  (select)
WaitsForItsOwn ==
  \A e \in Entry :
    e \in outbox ~> \/ e \in inFlight \/ e \notin outbox
                    \/ ~Within(e, inFlight \cap outbox)
=============================================================================
