--------------------------- MODULE ReplicasProofs ---------------------------
(***************************************************************************)
(* Proofs about Replicas, for any devices, accounts and messages.          *)
(***************************************************************************)
EXTENDS Replicas, FiniteSetTheorems, TLAPS

(***************************************************************************)
(* The inductive invariant says of everything that can still be merged or  *)
(* delivered what the properties say of the logs: D stands for the states  *)
(* of the devices, now or after a step.                                    *)
(***************************************************************************)

\* What a tick of p says of m, and the tick an entry gives for p.
Truth(D, m, p, rank) ==
  /\ rank >= Delivered => \E d \in DevicesOf(p) : D[d].log[m] # None
  /\ rank = Read => \E d \in DevicesOf(p) \cap Shares : D[d].log[m] # None /\ D[d].log[m].read

Claim(e, p) == Higher(e.state, e.acks[p])

\* Who has a message has it from its writer, who keeps it.
Known(D, m) == D[Writer[m]].log[m] # None

EntrySound(D, a, m, e) ==
  /\ e \in Entry /\ Known(D, m)
  /\ a = Author => \A p \in Peers : Truth(D, m, p, Claim(e, p))

\* A copy under way; one of a received message was made before any receipt.
EventSound(D, a, e) ==
  /\ e \in Event /\ EntrySound(D, a, e.msg, e.entry)
  /\ a # Author => e.entry.marker = 0

\* A packet under way: a text goes to a recipient, a receipt to the author, and says
\* what its sender knows.
PacketSound(D, p) ==
  /\ p \in Packet
  /\ p.kind = "text" =>
       /\ \E m \in Msg : p.msgs = {m} /\ Known(D, m)
       /\ ~Outgoing(p.to)
  /\ p.kind = "receipt" =>
       /\ ~Outgoing(p.from) /\ Outgoing(p.to) /\ p.state \in {Delivered, Read}
       /\ \A m \in p.msgs :
            /\ D[p.from].log[m] # None
            /\ p.state = Read => p.from \in Shares /\ D[p.from].log[m].read

Own(d, p) == p.kind = "text" /\ \E m \in Msg : p.msgs = {m} /\ Writer[m] = d

StateSound(D, d, s) ==
  /\ s \in State
  /\ \A m \in Msg : s.log[m] # None => EntrySound(D, AccountOf[d], m, s.log[m])
  /\ \A p \in s.outbox : PacketSound(D, p) /\ Own(d, p)
  /\ \A e \in s.queue : EventSound(D, AccountOf[d], e)

DevicesSound(D) == D \in [Device -> State] /\ \A d \in Device : StateSound(D, d, D[d])

NetSound(D, N) == \A p \in N : PacketSound(D, p)

JournalSound(D, J) ==
  /\ J \in [Account -> SUBSET Copy]
  /\ \A a \in Account : /\ IsFiniteSet(J[a]) /\ Cardinality(J[a]) <= Slots
                        /\ \A j \in J[a] : EventSound(D, a, j.event)

\* A receipt of p that says rank is on its way to w.
Coming(N, a, w, m, rank) ==
  \E p \in N : p.kind = "receipt" /\ p.to = w /\ m \in p.msgs /\ p.state >= rank
                 /\ AccountOf[p.from] = a

Kept(D, N) ==
  \A d \in Device, m \in Msg :
    (~Outgoing(d) /\ D[d].log[m] # None /\ D[d].log[m].marker > 0) =>
      \/ Coming(N, AccountOf[d], Writer[m], m, D[d].log[m].marker)
      \/ D[Writer[m]].log[m].acks[AccountOf[d]] >= D[d].log[m].marker

Counted == cuts \in Nat /\ repeats \in Nat /\ cuts + repeats <= MaxFaults

IInv ==
  /\ DevicesSound(dev) /\ NetSound(dev, net) /\ JournalSound(dev, journal)
  /\ Kept(dev, net) /\ Counted

(***************************************************************************)
(* Entries.                                                                *)
(***************************************************************************)
USE DEF Queued, Sent, Delivered, Read

\* What a merge may do to an entry of the log.
Above(old, new) ==
  /\ new.state >= old.state /\ new.marker >= old.marker
  /\ old.read => new.read
  /\ \A p \in Peers : new.acks[p] >= old.acks[p]

\* An entry and the parts of it.
LEMMA EntryParts ==
  ASSUME NEW e \in Entry
  PROVE  /\ e.state \in Nat /\ e.state \in Queued .. Read
         /\ e.acks \in [Peers -> {0, Delivered, Read}] /\ \A p \in Peers : e.acks[p] \in Nat
         /\ e.read \in BOOLEAN /\ e.marker \in {0, Delivered, Read} /\ e.marker \in Nat
         /\ e # None
BY NoneAssumption DEF Entry

LEMMA ClaimType ==
  ASSUME NEW e \in Entry, NEW p \in Peers
  PROVE  Claim(e, p) \in Nat /\ Claim(e, p) \in 0 .. Read
BY EntryParts DEF Claim, Higher

\* refresh_state raises the tick to what every recipient has, or to sent.
LEMMA RefreshedFields ==
  ASSUME NEW e \in Entry
  PROVE  /\ Refreshed(e) \in Entry
         /\ Refreshed(e).acks = e.acks /\ Refreshed(e).read = e.read
         /\ Refreshed(e).marker = e.marker
         /\ Refreshed(e).state >= e.state
         /\ \A p \in Peers : Claim(Refreshed(e), p) <= Claim(e, p) \/ Claim(Refreshed(e), p) < Delivered
<1> DEFINE all(rank) == \A p \in Peers : e.acks[p] >= rank
           next == IF e.acks = Unacknowledged THEN 0
                   ELSE IF all(Read) THEN Read ELSE IF all(Delivered) THEN Delivered ELSE Sent
           f == [e EXCEPT !.state = Higher(@, next)]
<1>1. Refreshed(e) = f
  BY DEF Refreshed
<1>2. next \in {0, Sent, Delivered, Read}
  OBVIOUS
<1>3. \A p \in Peers : next <= e.acks[p] \/ next <= Sent
  BY EntryParts
<1> HIDE DEF next
<1>4. Higher(e.state, next) \in Queued .. Read /\ Higher(e.state, next) >= e.state
  BY <1>2, EntryParts DEF Higher
<1>5. /\ f \in Entry /\ f.state = Higher(e.state, next) /\ f.acks = e.acks /\ f.read = e.read
      /\ f.marker = e.marker
  BY <1>4 DEF Entry
<1> HIDE DEF f
<1>6. \A p \in Peers : Claim(f, p) <= Claim(e, p) \/ Claim(f, p) < Delivered
  BY <1>2, <1>3, <1>5, EntryParts DEF Claim, Higher
<1> QED BY <1>1, <1>4, <1>5, <1>6

\* merge_synced_message keeps the higher tick, and what is the device's own.
LEMMA MergedFields ==
  ASSUME NEW e \in Entry, NEW f \in Entry
  PROVE  /\ Merged(e, f) \in Entry /\ Above(e, Merged(e, f))
         /\ Merged(e, f).marker = e.marker
         /\ \A p \in Peers : \/ Claim(Merged(e, f), p) <= Claim(e, p)
                             \/ Claim(Merged(e, f), p) <= Claim(f, p)
                             \/ Claim(Merged(e, f), p) < Delivered
<1> DEFINE acks == [p \in Peers |-> Higher(e.acks[p], f.acks[p])]
           g == [e EXCEPT !.acks = acks, !.state = Higher(@, f.state)]
<1>1. Merged(e, f) = Refreshed(g)
  BY DEF Merged
<1>2. acks \in [Peers -> {0, Delivered, Read}]
  BY EntryParts DEF Higher
<1>3. \A p \in Peers : acks[p] = Higher(e.acks[p], f.acks[p]) /\ acks[p] >= e.acks[p]
  BY EntryParts DEF Higher
<1> HIDE DEF acks
<1>4. Higher(e.state, f.state) \in Queued .. Read /\ Higher(e.state, f.state) >= e.state
  BY EntryParts DEF Higher
<1>5. /\ g \in Entry /\ g.state = Higher(e.state, f.state) /\ g.acks = acks /\ g.read = e.read
      /\ g.marker = e.marker
  BY <1>2, <1>4 DEF Entry
<1> HIDE DEF g
<1>6. PICK h \in Entry : h = Refreshed(g)
  BY <1>5, RefreshedFields
<1>7. /\ h.acks = acks /\ h.read = e.read /\ h.marker = e.marker
      /\ h.state >= g.state
      /\ \A p \in Peers : Claim(h, p) <= Claim(g, p) \/ Claim(h, p) < Delivered
  BY <1>5, <1>6, RefreshedFields
<1>8. \A p \in Peers : Claim(g, p) = Claim(e, p) \/ Claim(g, p) = Claim(f, p)
  BY <1>3, <1>5, EntryParts DEF Claim, Higher
<1>9. h.state >= e.state
  BY <1>4, <1>5, <1>6, <1>7, EntryParts
<1>10. h.marker >= e.marker
  BY <1>7, EntryParts
<1>11. Above(e, h)
  BY <1>3, <1>7, <1>9, <1>10 DEF Above
<1>12. \A p \in Peers : \/ Claim(h, p) <= Claim(e, p)
                        \/ Claim(h, p) <= Claim(f, p)
                        \/ Claim(h, p) < Delivered
  BY <1>7, <1>8
<1> QED BY <1>1, <1>6, <1>7, <1>11, <1>12

\* A receipt raises what is known of one recipient.
LEMMA AcknowledgedEntry ==
  ASSUME NEW e \in Entry, NEW a \in Peers, NEW rank \in {Delivered, Read}, e.acks[a] < rank
  PROVE  LET f == Refreshed([e EXCEPT !.acks[a] = rank]) IN
         /\ f \in Entry /\ Above(e, f) /\ f.marker = e.marker /\ f.acks[a] = rank
         /\ \A p \in Peers : \/ Claim(f, p) <= Claim(e, p)
                             \/ p = a /\ Claim(f, p) <= rank
                             \/ Claim(f, p) < Delivered
<1> DEFINE acks == [e.acks EXCEPT ![a] = rank]
           g == [e EXCEPT !.acks[a] = rank]
<1>1. acks \in [Peers -> {0, Delivered, Read}]
  BY EntryParts
<1>2. /\ acks[a] = rank /\ \A p \in Peers \ {a} : acks[p] = e.acks[p]
  BY EntryParts
<1> HIDE DEF acks
<1>3. g = [e EXCEPT !.acks = acks]
  BY DEF acks
<1>4. g \in Entry /\ g.state = e.state /\ g.acks = acks /\ g.read = e.read /\ g.marker = e.marker
  BY <1>1, <1>3 DEF Entry
<1> HIDE DEF g
<1>5. PICK h \in Entry : h = Refreshed(g)
  BY <1>4, RefreshedFields
<1>6. /\ h.acks = acks /\ h.read = e.read /\ h.marker = e.marker /\ h.state >= e.state
      /\ \A p \in Peers : Claim(h, p) <= Claim(g, p) \/ Claim(h, p) < Delivered
  BY <1>4, <1>5, RefreshedFields
<1>7. \A p \in Peers : Claim(g, p) = Claim(e, p) \/ (p = a /\ Claim(g, p) \in {rank, e.state})
  BY <1>2, <1>4, EntryParts DEF Claim, Higher
<1>8. e.state <= Claim(e, a)
  BY EntryParts DEF Claim, Higher
<1>9. Above(e, h)
  <2>1. acks[a] >= e.acks[a] /\ \A p \in Peers \ {a} : acks[p] >= e.acks[p]
    BY <1>2, EntryParts
  <2>2. h.marker >= e.marker
    BY <1>6, EntryParts
  <2>3. \A p \in Peers : h.acks[p] >= e.acks[p]
    BY <1>6, <2>1
  <2>4. h.read = e.read /\ h.state >= e.state
    BY <1>6
  <2> QED BY <2>2, <2>3, <2>4 DEF Above
<1>10. \A p \in Peers : \/ Claim(h, p) <= Claim(e, p)
                        \/ p = a /\ Claim(h, p) <= rank
                        \/ Claim(h, p) < Delivered
  BY <1>4, <1>6, <1>7, <1>8, ClaimType, EntryParts
<1>11. h = Refreshed([e EXCEPT !.acks[a] = rank])
  BY <1>5 DEF g
<1>12. h.acks[a] = rank
  BY <1>2, <1>6
<1> QED BY <1>6, <1>9, <1>10, <1>11, <1>12

(***************************************************************************)
(* What a step that loses nothing leaves true.                             *)
(***************************************************************************)

Advances(s, t) == \A m \in Msg : s.log[m] # None => t.log[m] # None /\ Above(s.log[m], t.log[m])

Step(D, E) == \A d \in Device : Advances(D[d], E[d])

LEMMA DevicesType == \A a : DevicesOf(a) \subseteq Device
BY DEF DevicesOf

LEMMA WriterType ==
  \A m \in Msg : Writer[m] \in Device /\ Outgoing(Writer[m])
BY ReplicasAssumption DEF Outgoing

LEMMA StateParts ==
  ASSUME NEW s \in State
  PROVE  /\ s.log \in [Msg -> Entry \cup {None}]
         /\ \A m \in Msg : s.log[m] # None => s.log[m] \in Entry
         /\ s.outbox \subseteq Packet /\ s.queue \subseteq Event
BY DEF State

LEMMA AdvancesSelf ==
  ASSUME NEW s \in State, NEW t, \A m \in Msg : t.log[m] = s.log[m]
  PROVE  Advances(s, t)
BY StateParts, EntryParts DEF Advances, Above

LEMMA TruthStable ==
  ASSUME NEW D, NEW E, Step(D, E), NEW m \in Msg, NEW p, NEW rank, Truth(D, m, p, rank)
  PROVE  Truth(E, m, p, rank)
BY DevicesType DEF Truth, Step, Advances, Above

LEMMA KnownStable ==
  ASSUME NEW D, NEW E, Step(D, E), NEW m \in Msg, Known(D, m)
  PROVE  Known(E, m)
BY WriterType DEF Known, Step, Advances

LEMMA EntryStable ==
  ASSUME NEW D, NEW E, Step(D, E), NEW m \in Msg, NEW a, NEW e, EntrySound(D, a, m, e)
  PROVE  EntrySound(E, a, m, e)
<1>1. Known(E, m)
  BY KnownStable DEF EntrySound
<1>2. ASSUME a = Author, NEW p \in Peers PROVE Truth(E, m, p, Claim(e, p))
  <2>1. Truth(D, m, p, Claim(e, p))
    BY <1>2 DEF EntrySound
  <2> QED BY <2>1, TruthStable
<1> QED BY <1>1, <1>2 DEF EntrySound

LEMMA EventStable ==
  ASSUME NEW D, NEW E, Step(D, E), NEW a, NEW e, EventSound(D, a, e)
  PROVE  EventSound(E, a, e)
<1>1. e.msg \in Msg
  BY DEF EventSound, Event
<1> QED BY <1>1, EntryStable DEF EventSound

LEMMA PacketStable ==
  ASSUME NEW D, NEW E, Step(D, E), NEW p, PacketSound(D, p)
  PROVE  PacketSound(E, p)
<1>1. p \in Packet /\ p.from \in Device /\ p.msgs \subseteq Msg
  BY DEF PacketSound, Packet
<1>2. ASSUME p.kind = "text"
      PROVE  (\E m \in Msg : p.msgs = {m} /\ Known(E, m)) /\ ~Outgoing(p.to)
  BY <1>2, KnownStable DEF PacketSound
<1>3. ASSUME NEW m \in Msg, D[p.from].log[m] # None
      PROVE  E[p.from].log[m] # None /\ (D[p.from].log[m].read => E[p.from].log[m].read)
  BY <1>1, <1>3 DEF Step, Advances, Above
<1> QED BY <1>1, <1>2, <1>3 DEF PacketSound

LEMMA StateStable ==
  ASSUME NEW D, NEW E, Step(D, E), NEW d, NEW s, StateSound(D, d, s)
  PROVE  StateSound(E, d, s)
<1>1. \A m \in Msg : s.log[m] # None => EntrySound(E, AccountOf[d], m, s.log[m])
  BY EntryStable DEF StateSound
<1>2. \A p \in s.outbox : PacketSound(E, p) /\ Own(d, p)
  BY PacketStable DEF StateSound
<1>3. \A e \in s.queue : EventSound(E, AccountOf[d], e)
  BY EventStable DEF StateSound
<1> QED BY <1>1, <1>2, <1>3 DEF StateSound

\* Devices whose new states are sound in the old one.
LEMMA DevicesStep ==
  ASSUME NEW D, NEW E, E \in [Device -> State], Step(D, E),
         \A d \in Device : StateSound(D, d, E[d]) \/ StateSound(E, d, E[d])
  PROVE  DevicesSound(E)
BY StateStable DEF DevicesSound

\* One device takes a step, and the others do not.
LEMMA OneStep ==
  ASSUME NEW D, DevicesSound(D), NEW d \in Device, NEW t \in State, Advances(D[d], t),
         NEW E, E = [D EXCEPT ![d] = t]
  PROVE  /\ E \in [Device -> State] /\ Step(D, E) /\ E[d] = t
         /\ \A x \in Device \ {d} : E[x] = D[x] /\ StateSound(D, x, E[x])
<1>1. D \in [Device -> State] /\ \A x \in Device : StateSound(D, x, D[x])
  BY DEF DevicesSound
<1>2. E \in [Device -> State] /\ E[d] = t /\ \A x \in Device \ {d} : E[x] = D[x]
  BY <1>1
<1>3. \A x \in Device \ {d} : Advances(D[x], E[x])
  BY <1>1, <1>2, AdvancesSelf
<1> QED BY <1>1, <1>2, <1>3 DEF Step

(***************************************************************************)
(* The changes of one device.  D are the devices, s is the state of d.     *)
(***************************************************************************)

\* A lower tick than a true one is true.
LEMMA TruthLower ==
  ASSUME NEW D, NEW m, NEW p, NEW x \in 0 .. Read, NEW y \in 0 .. Read,
         Truth(D, m, p, x), y <= x \/ y < Delivered
  PROVE  Truth(D, m, p, y)
BY DEF Truth

\* An entry that claims no more than another.
LEMMA EntryLower ==
  ASSUME NEW D, NEW a, NEW m, NEW e \in Entry, EntrySound(D, a, m, e), NEW f \in Entry,
         \A p \in Peers : \/ Claim(f, p) <= Claim(e, p)
                          \/ Claim(f, p) < Delivered
                          \/ \E x \in 0 .. Read : Claim(f, p) <= x /\ Truth(D, m, p, x)
  PROVE  EntrySound(D, a, m, f)
<1>1. ASSUME a = Author, NEW p \in Peers PROVE Truth(D, m, p, Claim(f, p))
  <2>1. Truth(D, m, p, Claim(e, p))
    BY <1>1 DEF EntrySound
  <2>2. PICK c \in 0 .. Read, g \in 0 .. Read : c = Claim(e, p) /\ g = Claim(f, p)
    BY ClaimType
  <2>3. CASE g <= c \/ g < Delivered
    BY <2>1, <2>2, <2>3, TruthLower
  <2>4. CASE \E x \in 0 .. Read : g <= x /\ Truth(D, m, p, x)
    <3>1. Truth(D, m, p, g)
      BY <2>4, TruthLower
    <3> QED BY <2>2, <3>1
  <2> QED BY <2>2, <2>3, <2>4
<1> QED BY <1>1 DEF EntrySound

\* A new log of entries that are sound.
LEMMA LogStep ==
  ASSUME NEW D, NEW d, NEW s, StateSound(D, d, s),
         NEW log \in [Msg -> Entry \cup {None}],
         \A m \in Msg : log[m] # None => \/ log[m] = s.log[m]
                                         \/ EntrySound(D, AccountOf[d], m, log[m]),
         NEW t, t = [s EXCEPT !.log = log]
  PROVE  /\ StateSound(D, d, t) /\ t \in State
         /\ t.log = log /\ t.outbox = s.outbox /\ t.queue = s.queue
<1>1. s \in State
  BY DEF StateSound
<1>2. t \in State /\ t.log = log /\ t.outbox = s.outbox /\ t.queue = s.queue
  BY <1>1 DEF State
<1> QED BY <1>2 DEF StateSound

\* queue_device_sync of messages the device has.
LEMMA AnnouncedFields ==
  ASSUME NEW D, NEW d, NEW s, StateSound(D, d, s), NEW ms \in SUBSET Msg,
         \A m \in ms : /\ s.log[m] # None
                       /\ ~Outgoing(d) => s.log[m].marker = 0
  PROVE  /\ StateSound(D, d, Announced(d, s, ms)) /\ Announced(d, s, ms) \in State
         /\ Announced(d, s, ms).log = s.log
<1>1. s \in State
  BY DEF StateSound
<1>2. CASE Linked(d) = {}
  BY <1>1, <1>2 DEF Announced
<1>3. CASE Linked(d) # {}
  <2> DEFINE new == {[msg |-> m, entry |-> s.log[m]] : m \in ms}
             t == [s EXCEPT !.queue = s.queue \cup new]
  <2>1. t = Announced(d, s, ms)
    BY <1>3 DEF Announced
  <2>2. ASSUME NEW e \in new PROVE EventSound(D, AccountOf[d], e)
    <3>1. PICK m \in ms : e = [msg |-> m, entry |-> s.log[m]]
      OBVIOUS
    <3>2. EntrySound(D, AccountOf[d], m, s.log[m]) /\ s.log[m] \in Entry
      BY <1>1, StateParts DEF StateSound
    <3>3. e \in Event /\ e.msg = m /\ e.entry = s.log[m]
      BY <3>1, <3>2 DEF Event
    <3> QED BY <3>1, <3>2, <3>3 DEF EventSound, Outgoing
  <2>3. new \subseteq Event
    BY <2>2 DEF EventSound
  <2> HIDE DEF new
  <2>4. t \in State /\ t.log = s.log /\ t.outbox = s.outbox /\ t.queue = s.queue \cup new
    BY <1>1, <2>3 DEF State
  <2> HIDE DEF t
  <2> QED BY <2>1, <2>2, <2>4 DEF StateSound
<1> QED BY <1>2, <1>3

SentState(s, m) == [s EXCEPT !.log[m].state = Sent]

\* A message that was queued is sent.
LEMMA SentFields ==
  ASSUME NEW D, NEW d, NEW s, StateSound(D, d, s), NEW m \in Msg,
         s.log[m] # None, s.log[m].state = Queued, NEW t, t = SentState(s, m)
  PROVE  /\ StateSound(D, d, t) /\ t \in State /\ Advances(s, t) /\ t.log[m] # None
         /\ t.outbox = s.outbox
<1>1. PICK e \in Entry : e = s.log[m] /\ EntrySound(D, AccountOf[d], m, e)
  BY StateParts DEF StateSound
<1> DEFINE f == [e EXCEPT !.state = Sent]
           log == [s.log EXCEPT ![m] = f]
<1>2. /\ f \in Entry /\ f.state = Sent /\ f.acks = e.acks /\ f.read = e.read
      /\ f.marker = e.marker /\ f # None
  BY NoneAssumption DEF Entry
<1> HIDE DEF f
<1>3. \A p \in Peers : Claim(f, p) <= Claim(e, p) \/ Claim(f, p) < Delivered
  BY <1>1, <1>2, EntryParts DEF Claim, Higher
<1>4. EntrySound(D, AccountOf[d], m, f)
  BY <1>1, <1>2, <1>3, EntryLower
<1>5. s \in State /\ s.log \in [Msg -> Entry \cup {None}]
  BY StateParts DEF StateSound
<1>6. /\ log \in [Msg -> Entry \cup {None}] /\ log[m] = f
      /\ \A n \in Msg \ {m} : log[n] = s.log[n]
  BY <1>2, <1>5
<1>7. t = [s EXCEPT !.log = log]
  <2>1. [s.log EXCEPT ![m].state = Sent] = [s.log EXCEPT ![m] = [e EXCEPT !.state = Sent]]
    BY <1>1, <1>5
  <2> QED BY <2>1 DEF f, SentState
<1> HIDE DEF log
<1>8. StateSound(D, d, t) /\ t \in State /\ t.log = log /\ t.outbox = s.outbox
  <2>1. PICK u : u = [s EXCEPT !.log = log]
    OBVIOUS
  <2>2. StateSound(D, d, u) /\ u \in State /\ u.log = log /\ u.outbox = s.outbox
    BY <1>4, <1>6, <2>1, LogStep
  <2> QED BY <1>7, <2>1, <2>2
<1>9. Above(e, f)
  BY <1>1, <1>2, EntryParts DEF Above
<1>10. Advances(s, t)
  <2>1. \A n \in Msg \ {m} : s.log[n] # None => Above(s.log[n], s.log[n])
    BY StateParts, EntryParts DEF Above, StateSound
  <2> QED BY <1>1, <1>2, <1>6, <1>8, <1>9, <2>1 DEF Advances
<1> QED BY <1>2, <1>6, <1>8, <1>10

ReceivedState(s, m) == [s EXCEPT !.log[m] = Received]

\* A text arrives.
LEMMA ReceivedFields ==
  ASSUME NEW D, NEW d, NEW s, StateSound(D, d, s), NEW m \in Msg, s.log[m] = None,
         Known(D, m), ~Outgoing(d), NEW t, t = ReceivedState(s, m)
  PROVE  /\ StateSound(D, d, t) /\ t \in State /\ Advances(s, t)
         /\ t.log[m] = Received /\ Received.marker = 0 /\ Received # None
         /\ \A n \in Msg \ {m} : t.log[n] = s.log[n]
<1> DEFINE log == [s.log EXCEPT ![m] = Received]
<1>1. Received \in Entry /\ Received.marker = 0 /\ Received # None
  <2>1. Unacknowledged \in [Peers -> {0, Delivered, Read}]
    BY DEF Unacknowledged
  <2>2. Received \in Entry /\ Received.marker = 0
    BY <2>1 DEF Received, Entry
  <2> QED BY <2>2, NoneAssumption
<1>2. EntrySound(D, AccountOf[d], m, Received)
  BY <1>1 DEF EntrySound, Outgoing
<1>3. s \in State /\ s.log \in [Msg -> Entry \cup {None}]
  BY StateParts DEF StateSound
<1>4. /\ log \in [Msg -> Entry \cup {None}] /\ log[m] = Received
      /\ \A n \in Msg \ {m} : log[n] = s.log[n]
  BY <1>1, <1>3
<1>5. t = [s EXCEPT !.log = log]
  BY DEF ReceivedState
<1> HIDE DEF log
<1>6. StateSound(D, d, t) /\ t \in State /\ t.log = log
  <2>1. PICK u : u = [s EXCEPT !.log = log]
    OBVIOUS
  <2>2. StateSound(D, d, u) /\ u \in State /\ u.log = log
    BY <1>2, <1>4, <2>1, LogStep
  <2> QED BY <1>5, <2>1, <2>2
<1>7. Advances(s, t)
  <2>1. \A n \in Msg \ {m} : s.log[n] # None => Above(s.log[n], s.log[n])
    BY StateParts, EntryParts DEF Above, StateSound
  <2> QED BY <1>4, <1>6, <2>1 DEF Advances
<1> QED BY <1>1, <1>4, <1>6, <1>7

\* A receipt that is news of each message, and true.
AllNews(D, s, ms, a, rank) ==
  /\ ms \subseteq Msg /\ a \in Peers /\ rank \in {Delivered, Read}
  /\ \A m \in ms : s.log[m] # None /\ s.log[m].acks[a] < rank /\ Truth(D, m, a, rank)

\* A receipt of a is applied to some of its messages.
LEMMA AcknowledgedFields ==
  ASSUME NEW D, NEW d, NEW s, StateSound(D, d, s), NEW ms, NEW a, NEW rank,
         AllNews(D, s, ms, a, rank),
         NEW t, t = Acknowledged(s, ms, a, rank)
  PROVE  /\ StateSound(D, d, t) /\ t \in State /\ Advances(s, t)
         /\ \A m \in ms : t.log[m] # None /\ t.log[m].acks[a] = rank
         /\ \A m \in Msg \ ms : t.log[m] = s.log[m]
<1>0. ms \subseteq Msg /\ a \in Peers /\ rank \in {Delivered, Read}
  BY DEF AllNews
<1> DEFINE new(m) == Refreshed([s.log[m] EXCEPT !.acks[a] = rank])
           log == [m \in Msg |-> IF m \in ms THEN new(m) ELSE s.log[m]]
<1>1. \A m \in Msg : s.log[m] # None => /\ s.log[m] \in Entry /\ Above(s.log[m], s.log[m])
                                        /\ EntrySound(D, AccountOf[d], m, s.log[m])
  BY StateParts, EntryParts DEF StateSound, Above
<1>2. ASSUME NEW m \in ms
      PROVE  /\ new(m) \in Entry /\ new(m) # None /\ EntrySound(D, AccountOf[d], m, new(m))
             /\ Above(s.log[m], new(m)) /\ new(m).acks[a] = rank
  <2>1. PICK e \in Entry : e = s.log[m] /\ e.acks[a] < rank /\ EntrySound(D, AccountOf[d], m, e)
    BY <1>0, <1>1 DEF AllNews
  <2>2. PICK f : f = Refreshed([e EXCEPT !.acks[a] = rank])
    OBVIOUS
  <2>3. /\ f \in Entry /\ Above(e, f) /\ f.acks[a] = rank
        /\ \A p \in Peers : \/ Claim(f, p) <= Claim(e, p)
                            \/ p = a /\ Claim(f, p) <= rank
                            \/ Claim(f, p) < Delivered
    BY <1>0, <2>1, <2>2, AcknowledgedEntry
  <2>4. Truth(D, m, a, rank) /\ rank \in 0 .. Read
    BY <1>0 DEF AllNews
  <2>5. EntrySound(D, AccountOf[d], m, f)
    BY <2>1, <2>3, <2>4, EntryLower
  <2> QED BY <2>1, <2>2, <2>3, <2>5, EntryParts
<1> HIDE DEF new
<1>3. /\ log \in [Msg -> Entry \cup {None}]
      /\ \A m \in Msg : log[m] = IF m \in ms THEN new(m) ELSE s.log[m]
  BY <1>0, <1>1, <1>2
<1>4. t = [s EXCEPT !.log = log]
  BY DEF Acknowledged, new
<1> HIDE DEF log
<1>5. StateSound(D, d, t) /\ t \in State /\ t.log = log
  BY <1>2, <1>3, <1>4, LogStep
<1> QED BY <1>0, <1>1, <1>2, <1>3, <1>5 DEF Advances

\* The flag of a message read, or the marker of its receipt, is raised.
LEMMA RaisedFields ==
  ASSUME NEW D, NEW d, NEW s, StateSound(D, d, s), NEW log \in [Msg -> Entry \cup {None}],
         \A m \in Msg :
           \/ log[m] = s.log[m]
           \/ /\ s.log[m] # None /\ log[m] # None
              /\ log[m].state = s.log[m].state /\ log[m].acks = s.log[m].acks
              /\ s.log[m].read => log[m].read
              /\ log[m].marker >= s.log[m].marker,
         NEW t, t = [s EXCEPT !.log = log]
  PROVE  StateSound(D, d, t) /\ t \in State /\ Advances(s, t) /\ t.log = log
<1>1. \A m \in Msg : s.log[m] # None => /\ s.log[m] \in Entry /\ Above(s.log[m], s.log[m])
                                        /\ EntrySound(D, AccountOf[d], m, s.log[m])
  BY StateParts, EntryParts DEF StateSound, Above
<1>2. ASSUME NEW m \in Msg, log[m] # s.log[m]
      PROVE  EntrySound(D, AccountOf[d], m, log[m]) /\ Above(s.log[m], log[m])
  <2>1. PICK e \in Entry, f \in Entry :
          /\ e = s.log[m] /\ f = log[m] /\ EntrySound(D, AccountOf[d], m, e)
          /\ f.state = e.state /\ f.acks = e.acks /\ (e.read => f.read) /\ f.marker >= e.marker
    BY <1>1, <1>2
  <2>2. \A p \in Peers : Claim(f, p) = Claim(e, p)
    BY <2>1 DEF Claim
  <2>3. EntrySound(D, AccountOf[d], m, f)
    BY <2>1, <2>2 DEF EntrySound
  <2>4. Above(e, f)
    BY <2>1, EntryParts DEF Above
  <2> QED BY <2>1, <2>3, <2>4
<1>3. StateSound(D, d, t) /\ t \in State /\ t.log = log
  BY <1>2, LogStep
<1> QED BY <1>1, <1>2, <1>3 DEF Advances

\* A receipt is marked as sent only by flush.
SameMarks(d, s, t) ==
  ~Outgoing(d) => \A m \in Msg : t.log[m] # None /\ t.log[m].marker > 0 =>
                                   s.log[m] # None /\ t.log[m].marker = s.log[m].marker

\* A copy is merged.
LEMMA UpsertedFields ==
  ASSUME NEW D, NEW d, NEW s, StateSound(D, d, s), NEW e, EventSound(D, AccountOf[d], e),
         NEW t, t = Upserted(s, e)
  PROVE  StateSound(D, d, t) /\ t \in State /\ Advances(s, t) /\ SameMarks(d, s, t)
<1>1. PICK m \in Msg, g \in Entry : /\ m = e.msg /\ g = e.entry
                                    /\ EntrySound(D, AccountOf[d], m, g)
                                    /\ ~Outgoing(d) => g.marker = 0
  BY DEF EventSound, Event, Outgoing
<1>2. /\ s.log \in [Msg -> Entry \cup {None}]
      /\ \A n \in Msg : s.log[n] # None => /\ s.log[n] \in Entry /\ Above(s.log[n], s.log[n])
                                           /\ EntrySound(D, AccountOf[d], n, s.log[n])
  BY StateParts, EntryParts DEF StateSound, Above
<1> DEFINE f == IF s.log[m] = None THEN g ELSE Merged(s.log[m], g)
           log == [s.log EXCEPT ![m] = f]
<1>3. /\ f \in Entry /\ EntrySound(D, AccountOf[d], m, f)
      /\ s.log[m] # None => Above(s.log[m], f) /\ f.marker = s.log[m].marker
      /\ s.log[m] = None => f = g
  <2>1. CASE s.log[m] = None
    BY <1>1, <2>1
  <2>2. CASE s.log[m] # None
    <3>1. PICK old \in Entry : old = s.log[m] /\ EntrySound(D, AccountOf[d], m, old)
      BY <1>2, <2>2
    <3>2. PICK h \in Entry : h = Merged(old, g)
      BY <3>1, MergedFields
    <3>3. /\ Above(old, h) /\ h.marker = old.marker
          /\ \A p \in Peers : \/ Claim(h, p) <= Claim(old, p)
                              \/ Claim(h, p) <= Claim(g, p)
                              \/ Claim(h, p) < Delivered
      BY <3>1, <3>2, MergedFields
    <3>4. EntrySound(D, AccountOf[d], m, h)
      <4>1. CASE AccountOf[d] = Author
        <5>1. \A p \in Peers : Truth(D, m, p, Claim(g, p)) /\ Claim(g, p) \in 0 .. Read
          BY <1>1, <4>1, ClaimType DEF EntrySound
        <5> QED BY <3>1, <3>3, <5>1, EntryLower
      <4>2. CASE AccountOf[d] # Author
        BY <1>1, <4>2 DEF EntrySound
      <4> QED BY <4>1, <4>2
    <3> QED BY <2>2, <3>1, <3>2, <3>3, <3>4
  <2> QED BY <2>1, <2>2
<1> HIDE DEF f
<1>4. /\ log \in [Msg -> Entry \cup {None}] /\ log[m] = f
      /\ \A n \in Msg \ {m} : log[n] = s.log[n]
  BY <1>2, <1>3
<1>5. t = [s EXCEPT !.log = log]
  BY <1>1 DEF Upserted, f
<1> HIDE DEF log
<1>6. StateSound(D, d, t) /\ t \in State /\ t.log = log
  BY <1>3, <1>4, <1>5, LogStep
<1>7. f # None
  BY <1>3, NoneAssumption
<1>8. Advances(s, t)
  BY <1>2, <1>3, <1>4, <1>6, <1>7 DEF Advances
<1>9. ASSUME ~Outgoing(d), NEW n \in Msg, t.log[n] # None, t.log[n].marker > 0
      PROVE  s.log[n] # None /\ t.log[n].marker = s.log[n].marker
  BY <1>1, <1>3, <1>4, <1>6, <1>9
<1> QED BY <1>6, <1>8, <1>9 DEF SameMarks

(***************************************************************************)
(* The invariant over a step, for any change of the devices, the network   *)
(* and the journals.                                                       *)
(***************************************************************************)

Sound(D, N, J) == DevicesSound(D) /\ NetSound(D, N) /\ JournalSound(D, J) /\ Kept(D, N)

NewState(D, d, t) == StateSound(D, d, t) /\ Advances(D[d], t) /\ SameMarks(d, D[d], t)

\* A receipt leaves the network when the device it was for has applied it.
Applied(E, p) ==
  p.kind = "receipt" =>
    \A m \in p.msgs : E[p.to].log[m] # None =>
      E[p.to].log[m].acks[AccountOf[p.from]] >= p.state

LEMMA PeersType ==
  ASSUME NEW d \in Device, ~Outgoing(d)
  PROVE  AccountOf[d] \in Peers /\ d \in DevicesOf(AccountOf[d])
BY DEF Outgoing, Peers, DevicesOf

LEMMA SameState ==
  ASSUME NEW D, DevicesSound(D), NEW d \in Device
  PROVE  NewState(D, d, D[d])
BY AdvancesSelf DEF NewState, DevicesSound, StateSound, SameMarks

LEMMA NetStable ==
  ASSUME NEW D, NEW E, Step(D, E), NEW N, NetSound(D, N)
  PROVE  NetSound(E, N)
BY PacketStable DEF NetSound

LEMMA JournalStable ==
  ASSUME NEW D, NEW E, Step(D, E), NEW J, JournalSound(D, J)
  PROVE  JournalSound(E, J)
BY EventStable DEF JournalSound

\* A receipt known to its author stays known.
LEMMA AcksStay ==
  ASSUME NEW D, NEW E, DevicesSound(D), E \in [Device -> State], Step(D, E),
         NEW d \in Device, NEW m \in Msg, ~Outgoing(d), D[d].log[m] # None
  PROVE  LET w == Writer[m]  a == AccountOf[d] IN
         /\ D[w].log[m] # None /\ E[w].log[m] # None
         /\ D[w].log[m].acks[a] \in Nat /\ E[w].log[m].acks[a] \in Nat
         /\ E[w].log[m].acks[a] >= D[w].log[m].acks[a]
<1>1. AccountOf[d] \in Peers /\ Writer[m] \in Device
  BY PeersType, WriterType
<1>2. D[Writer[m]].log[m] # None
  BY DEF DevicesSound, StateSound, EntrySound, Known
<1>3. D[Writer[m]] \in State /\ E[Writer[m]] \in State
  BY <1>1 DEF DevicesSound
<1>4. E[Writer[m]].log[m] # None /\ Above(D[Writer[m]].log[m], E[Writer[m]].log[m])
  BY <1>1, <1>2 DEF Step, Advances
<1> QED BY <1>1, <1>2, <1>3, <1>4, StateParts, EntryParts DEF Above

\* A marker that has changed is that of a receipt under way.
MarksSent(M, d, s, t) ==
  \A m \in Msg :
    (~Outgoing(d) /\ t.log[m] # None /\ t.log[m].marker > 0) =>
      \/ s.log[m] # None /\ t.log[m].marker = s.log[m].marker
      \/ Coming(M, AccountOf[d], Writer[m], m, t.log[m].marker)

LEMMA KeptStep ==
  ASSUME NEW D, NEW E, DevicesSound(D), E \in [Device -> State], Step(D, E),
         NEW N, NEW M, NetSound(D, N), Kept(D, N),
         \A d \in Device : MarksSent(M, d, D[d], E[d]),
         \A p \in N \ M : Applied(E, p)
  PROVE  Kept(E, M)
<1> SUFFICES ASSUME NEW d \in Device, NEW m \in Msg, ~Outgoing(d), E[d].log[m] # None,
                    E[d].log[m].marker > 0
             PROVE  \/ Coming(M, AccountOf[d], Writer[m], m, E[d].log[m].marker)
                    \/ E[Writer[m]].log[m].acks[AccountOf[d]] >= E[d].log[m].marker
  BY DEF Kept
<1>1. CASE Coming(M, AccountOf[d], Writer[m], m, E[d].log[m].marker)
  BY <1>1
<1>2. CASE D[d].log[m] # None /\ D[d].log[m].marker = E[d].log[m].marker
  <2>1. PICK a, w, k : a = AccountOf[d] /\ w = Writer[m] /\ k = E[d].log[m].marker
    OBVIOUS
  <2>2. k \in Nat
    BY <2>1, StateParts, EntryParts
  <2>3. /\ D[w].log[m] # None /\ E[w].log[m] # None
        /\ D[w].log[m].acks[a] \in Nat /\ E[w].log[m].acks[a] \in Nat
        /\ E[w].log[m].acks[a] >= D[w].log[m].acks[a]
    BY <1>2, <2>1, AcksStay
  <2>4. CASE Coming(N, a, w, m, k)
    <3>1. PICK p \in N : p.kind = "receipt" /\ p.to = w /\ m \in p.msgs /\ p.state >= k
                           /\ AccountOf[p.from] = a
      BY <2>4 DEF Coming
    <3>2. CASE p \in M
      BY <2>1, <3>1, <3>2 DEF Coming
    <3>3. CASE p \notin M
      <4>1. p.state \in Nat
        BY <3>1 DEF NetSound, PacketSound
      <4>2. E[w].log[m].acks[a] >= p.state
        BY <2>3, <3>1, <3>3 DEF Applied
      <4> QED BY <2>1, <2>2, <2>3, <3>1, <4>1, <4>2
    <3> QED BY <3>2, <3>3
  <2>5. CASE D[w].log[m].acks[a] >= k
    BY <2>1, <2>2, <2>3, <2>5
  <2> QED BY <1>2, <2>1, <2>4, <2>5 DEF Kept
<1> QED BY <1>1, <1>2 DEF MarksSent

\* Every device takes a sound step, and nothing wrong is sent.
LEMMA SoundStep ==
  ASSUME NEW D, NEW N, NEW J, Sound(D, N, J),
         NEW E, E \in [Device -> State], \A d \in Device : NewState(D, d, E[d]),
         NEW M, NetSound(D, M), \A p \in N \ M : Applied(E, p),
         NEW K, JournalSound(D, K)
  PROVE  Sound(E, M, K) /\ Step(D, E)
<1>1. Step(D, E)
  BY DEF Step, NewState
<1>2. DevicesSound(E)
  BY <1>1, DevicesStep DEF NewState
<1>3. Kept(E, M)
  <2>1. \A d \in Device : MarksSent(M, d, D[d], E[d])
    BY DEF NewState, SameMarks, MarksSent
  <2> QED BY <1>1, <2>1, KeptStep DEF Sound
<1> QED BY <1>1, <1>2, <1>3, NetStable, JournalStable DEF Sound

\* One device takes it.
LEMMA SoundOneStep ==
  ASSUME NEW D, NEW N, NEW J, Sound(D, N, J), NEW d \in Device, NEW t, NewState(D, d, t),
         NEW E, E = [D EXCEPT ![d] = t],
         NEW M, NetSound(D, M), \A p \in N \ M : Applied(E, p),
         NEW K, JournalSound(D, K)
  PROVE  Sound(E, M, K) /\ Step(D, E)
<1>1. D \in [Device -> State] /\ t \in State /\ DevicesSound(D)
  BY DEF Sound, DevicesSound, NewState, StateSound
<1>2. E \in [Device -> State] /\ E[d] = t /\ \A x \in Device \ {d} : E[x] = D[x]
  BY <1>1
<1>3. \A x \in Device : NewState(D, x, E[x])
  <2>1. \A x \in Device \ {d} : NewState(D, x, E[x])
    BY <1>1, <1>2, SameState
  <2> QED BY <1>2, <2>1
<1> QED BY <1>2, <1>3, SoundStep

(***************************************************************************)
(* The actions.                                                            *)
(***************************************************************************)

\* A command that runs on device d leaves it in a sound state, wherever it dies.
LEMMA CommandKept ==
  ASSUME Sound(dev, net, journal), UNCHANGED journal, NEW d \in Device,
         NEW stops, NEW done, NEW during, NEW after,
         Command(d, [stops |-> stops, done |-> done], during, after),
         \A t \in stops \cup {done} : NewState(dev, d, t),
         NetSound(dev, during \cup after), net \subseteq during,
         \A p \in net \ after : \A E : E = [dev EXCEPT ![d] = done] => Applied(E, p)
  PROVE  Sound(dev', net', journal') /\ Step(dev, dev')
<1>1. PICK D, N, J, E, M : D = dev /\ N = net /\ J = journal /\ E = dev' /\ M = net'
  OBVIOUS
<1>2. Sound(D, N, J) /\ JournalSound(D, J)
  BY <1>1 DEF Sound
<1>3. PICK t : /\ NewState(D, d, t) /\ E = [D EXCEPT ![d] = t] /\ NetSound(D, M)
               /\ \A p \in N \ M : Applied(E, p)
  <2>1. CASE dev' = [dev EXCEPT ![d] = done] /\ net' = after
    BY <1>1, <2>1 DEF NetSound
  <2>2. CASE (\E t \in stops : dev' = [dev EXCEPT ![d] = t]) /\ net' = during
    BY <1>1, <2>2 DEF NetSound
  <2> QED BY <2>1, <2>2 DEF Command
<1>4. Sound(E, M, J) /\ Step(D, E)
  BY <1>2, <1>3, SoundOneStep
<1> QED BY <1>1, <1>4

LEMMA SendKept ==
  ASSUME Sound(dev, net, journal), NEW m \in Msg, Send(m)
  PROVE  Sound(dev', net', journal') /\ Step(dev, dev')
<1>1. PICK D, N, J, E : D = dev /\ N = net /\ J = journal /\ E = dev'
  OBVIOUS
<1>2. PICK d \in Device, s \in State : d = Writer[m] /\ s = D[d]
  BY <1>1, WriterType DEF Sound, DevicesSound
<1>3. /\ s.log[m] = None /\ StateSound(D, d, s) /\ D[d] = s
      /\ Sound(D, N, J) /\ DevicesSound(D)
  BY <1>1, <1>2 DEF Send, Sound, DevicesSound
<1> DEFINE new == Addressed(d, Device \ DevicesOf(Author), "text", {m}, 0)
           t == [s EXCEPT !.log = [s.log EXCEPT ![m] = Written], !.outbox = s.outbox \cup new]
<1>4. D \in [Device -> State] /\ E = [D EXCEPT ![d] = t]
  BY <1>1, <1>2 DEF Send, Sound, DevicesSound
<1>5. \A p \in new : /\ p \in Packet /\ p.kind = "text" /\ p.msgs = {m} /\ ~Outgoing(p.to)
  BY <1>2 DEF Addressed, Packet, Outgoing, DevicesOf
<1>6. Written \in Entry /\ Written # None /\ Written.acks = Unacknowledged /\ Written.state = Queued
  <2>1. Unacknowledged \in [Peers -> {0, Delivered, Read}]
    BY DEF Unacknowledged
  <2>2. Written \in Entry
    BY <2>1 DEF Written, Entry
  <2> QED BY <2>2, NoneAssumption DEF Written
<1> HIDE DEF new
<1>7. /\ t \in State /\ t.queue = s.queue /\ t.outbox = s.outbox \cup new
      /\ t.log[m] = Written /\ \A n \in Msg \ {m} : t.log[n] = s.log[n]
  <2>1. PICK log \in [Msg -> Entry \cup {None}], outbox \in SUBSET Packet :
          log = [s.log EXCEPT ![m] = Written] /\ outbox = s.outbox \cup new
    BY <1>5, <1>6, StateParts
  <2>2. log[m] = Written /\ \A n \in Msg \ {m} : log[n] = s.log[n]
    BY <2>1, StateParts
  <2>3. t = [s EXCEPT !.log = log, !.outbox = outbox]
    BY <2>1
  <2>4. t \in State /\ t.log = log /\ t.outbox = outbox /\ t.queue = s.queue
    BY <2>3 DEF State
  <2> QED BY <2>1, <2>2, <2>4
<1> HIDE DEF t
<1>8. Advances(s, t)
  <2>1. \A n \in Msg \ {m} : s.log[n] # None => Above(s.log[n], s.log[n])
    BY StateParts, EntryParts DEF Above
  <2> QED BY <1>3, <1>7, <2>1 DEF Advances
<1>9. /\ E \in [Device -> State] /\ Step(D, E) /\ E[d] = t
      /\ \A x \in Device \ {d} : E[x] = D[x] /\ StateSound(D, x, E[x])
  BY <1>3, <1>4, <1>7, <1>8, OneStep
<1>10. StateSound(E, d, t)
  <2>1. StateSound(E, d, s)
    BY <1>3, <1>9, StateStable
  <2>2. Known(E, m)
    BY <1>2, <1>6, <1>7, <1>9 DEF Known
  <2>3. \A q \in Peers : Claim(Written, q) = Queued
    BY <1>6 DEF Claim, Higher, Unacknowledged
  <2>4. EntrySound(E, AccountOf[d], m, Written)
    BY <1>6, <2>2, <2>3 DEF EntrySound, Truth
  <2>5. \A p \in new : PacketSound(E, p) /\ Own(d, p)
    BY <1>2, <1>5, <2>2 DEF PacketSound, Own
  <2> QED BY <1>7, <2>1, <2>4, <2>5 DEF StateSound
<1>11. DevicesSound(E)
  BY <1>9, <1>10, DevicesStep
<1>12. \A x \in Device : MarksSent(N, x, D[x], E[x])
  <2>1. Outgoing(d)
    BY <1>2, WriterType
  <2> QED BY <1>9, <2>1 DEF MarksSent
<1>13. Kept(E, N)
  BY <1>1, <1>9, <1>12, KeptStep DEF Sound
<1>14. NetSound(E, N) /\ JournalSound(E, J)
  BY <1>1, <1>9, NetStable, JournalStable DEF Sound
<1>15. net' = N /\ journal' = J
  BY <1>1 DEF Send
<1> QED BY <1>1, <1>9, <1>11, <1>13, <1>14, <1>15 DEF Sound

LEMMA HandOverKept ==
  ASSUME Sound(dev, net, journal), NEW d \in Device, NEW p, HandOver(d, p)
  PROVE  Sound(dev', net', journal') /\ Step(dev, dev')
<1>1. PICK D, N, J, E, M : D = dev /\ N = net /\ J = journal /\ E = dev' /\ M = net'
  OBVIOUS
<1>2. PICK s \in State : s = D[d]
  BY <1>1 DEF Sound, DevicesSound
<1>3. StateSound(D, d, s) /\ p \in s.outbox /\ D[d] = s
  BY <1>1, <1>2 DEF HandOver, Sound, DevicesSound
<1>4. PICK m \in Msg : p.msgs = {m} /\ Writer[m] = d /\ p.kind = "text" /\ PacketSound(D, p)
  BY <1>3 DEF StateSound, Own
<1>5. (CHOOSE x \in p.msgs : TRUE) = m /\ s.log[m] # None /\ Outgoing(d)
  <2>1. Known(D, m)
    BY <1>4 DEF PacketSound
  <2> QED BY <1>3, <1>4, <2>1, WriterType DEF Known
<1> DEFINE last == Texts(s, m) = {p} /\ s.log[m].state = Queued
           s1 == IF last THEN [s EXCEPT !.log[m].state = Sent] ELSE s
           s2 == [s1 EXCEPT !.outbox = @ \ {p}]
           s3 == IF last THEN Announced(d, s2, {m}) ELSE s2
<1>6. Command(d, [stops |-> {s, s1, s2}, done |-> s3], net \cup {p}, net \cup {p})
  <2>1. Completed(d, s, p, m) = [stops |-> {s, s1, s2}, done |-> s3]
    BY DEF Completed
  <2>2. Command(d, Completed(d, s, p, m), net \cup {p}, net \cup {p})
    BY <1>1, <1>2, <1>5 DEF HandOver
  <2> QED BY <2>1, <2>2
<1>7. StateSound(D, d, s1) /\ s1 \in State /\ Advances(s, s1) /\ s1.log[m] # None
  <2>1. CASE last
    <3>1. PICK u : u = SentState(s, m)
      OBVIOUS
    <3>2. s.log[m].state = Queued
      BY <2>1
    <3>3. StateSound(D, d, s) /\ s.log[m] # None
      BY <1>3, <1>5
    <3>4. StateSound(D, d, u) /\ u \in State /\ Advances(s, u) /\ u.log[m] # None
      BY <3>1, <3>2, <3>3, SentFields
    <3> QED BY <2>1, <3>1, <3>4 DEF SentState
  <2>2. CASE ~last
    BY <1>3, <1>5, <2>2, AdvancesSelf DEF StateSound
  <2> QED BY <2>1, <2>2
<1> HIDE DEF s1
<1>8. /\ StateSound(D, d, s2) /\ s2 \in State /\ s2.log = s1.log
      /\ Advances(s, s2) /\ s2.log[m] # None
  <2>1. /\ s2 \in State /\ s2.log = s1.log /\ s2.queue = s1.queue
        /\ s2.outbox = s1.outbox \ {p}
    BY <1>7 DEF State
  <2> QED BY <1>7, <2>1 DEF StateSound, Advances
<1> HIDE DEF s2
<1>9. StateSound(D, d, s3) /\ Advances(s, s3)
  <2>1. CASE last
    <3>1. PICK u : u = Announced(d, s2, {m})
      OBVIOUS
    <3>2. StateSound(D, d, u) /\ u.log = s2.log
      BY <1>5, <1>8, <3>1, AnnouncedFields
    <3>3. Advances(s, u)
      BY <1>8, <3>2 DEF Advances
    <3> QED BY <2>1, <3>1, <3>3, <3>2
  <2>2. CASE ~last
    BY <1>8, <2>2
  <2> QED BY <2>1, <2>2
<1> HIDE DEF s3
<1>10. \A t \in {s, s1, s2} \cup {s3} : NewState(D, d, t)
  <2>1. Advances(s, s)
    BY AdvancesSelf
  <2> QED BY <1>3, <1>5, <1>7, <1>8, <1>9, <2>1 DEF NewState, SameMarks
<1>11. NetSound(dev, net \cup {p})
  BY <1>1, <1>4 DEF Sound, NetSound
<1> QED BY <1>1, <1>6, <1>10, <1>11, CommandKept DEF HandOver

\* The queue of a state does not matter to what it keeps.
LEMMA SameLogKept ==
  ASSUME NEW D, NEW d, NEW t, NewState(D, d, t), NEW u, StateSound(D, d, u), u.log = t.log
  PROVE  NewState(D, d, u)
BY DEF NewState, Advances, SameMarks

\* A text is stored, once.
LEMMA TextKept ==
  ASSUME NEW D, NEW N, NEW J, Sound(D, N, J), NEW d \in Device, NEW m \in Msg,
         Known(D, m), ~Outgoing(d), NEW s, s = D[d]
  PROVE  \E stops, done :
           /\ OnText(d, s, m) = [stops |-> stops, done |-> done]
           /\ \A t \in stops \cup {done} : NewState(D, d, t)
<1>1. s \in State /\ StateSound(D, d, s) /\ NewState(D, d, s)
  BY SameState DEF Sound, DevicesSound
<1>2. CASE s.log[m] # None
  <2>1. OnText(d, s, m) = [stops |-> {}, done |-> s]
    BY <1>2 DEF OnText
  <2>2. \A t \in {} \cup {s} : NewState(D, d, t)
    BY <1>1
  <2> QED BY <2>1, <2>2
<1>3. CASE s.log[m] = None
  <2>1. PICK t : t = ReceivedState(s, m)
    OBVIOUS
  <2>2. PICK u : u = Announced(d, t, {m})
    OBVIOUS
  <2>3. OnText(d, s, m) = [stops |-> {t}, done |-> u]
    BY <1>3, <2>1, <2>2 DEF OnText, ReceivedState
  <2>4. /\ StateSound(D, d, t) /\ t \in State /\ Advances(s, t)
        /\ t.log[m] = Received /\ Received.marker = 0 /\ Received # None
        /\ \A n \in Msg \ {m} : t.log[n] = s.log[n]
    BY <1>1, <1>3, <2>1, ReceivedFields
  <2>5. SameMarks(d, s, t)
    BY <2>4 DEF SameMarks
  <2>6. NewState(D, d, t)
    BY <2>4, <2>5 DEF NewState
  <2>7. StateSound(D, d, u) /\ u.log = t.log
    BY <2>2, <2>4, AnnouncedFields
  <2>8. NewState(D, d, u)
    BY <2>6, <2>7, SameLogKept
  <2>9. PICK stops, done : stops = {t} /\ done = u
    OBVIOUS
  <2>10. \A x \in stops \cup {done} : NewState(D, d, x)
    BY <2>6, <2>8, <2>9
  <2> QED BY <2>3, <2>9, <2>10
<1> QED BY <1>2, <1>3

\* A receipt is applied to the messages it is news of, and then it is known.
LEMMA ReceiptKept ==
  ASSUME NEW D, NEW N, NEW J, Sound(D, N, J), NEW d \in Device, NEW p, PacketSound(D, p),
         p.kind = "receipt", p.to = d, NEW s, s = D[d]
  PROVE  \E stops, done :
           /\ OnReceipt(d, s, p) = [stops |-> stops, done |-> done]
           /\ \A t \in stops \cup {done} : NewState(D, d, t)
           /\ \A m \in p.msgs : done.log[m] # None =>
                done.log[m].acks[AccountOf[p.from]] >= p.state
<1>1. s \in State /\ StateSound(D, d, s) /\ NewState(D, d, s)
  BY SameState DEF Sound, DevicesSound
<1>2. /\ ~Outgoing(p.from) /\ Outgoing(d) /\ p.from \in Device /\ p.msgs \subseteq Msg
      /\ p.state \in {Delivered, Read}
  BY DEF PacketSound, Packet
<1>3. PICK a \in Peers, rank \in {Delivered, Read} :
        a = AccountOf[p.from] /\ rank = p.state /\ p.from \in DevicesOf(a)
  BY <1>2, PeersType
<1> DEFINE new == {m \in p.msgs : s.log[m] # None /\ s.log[m].acks[a] < rank}
           all == Acknowledged(s, new, a, rank)
           stops == {Acknowledged(s, ms, a, rank) : ms \in SUBSET new}
                    \cup {Announced(d, all, ms) : ms \in SUBSET new}
           done == Announced(d, all, new)
<1>4. OnReceipt(d, s, p) = [stops |-> stops, done |-> done]
  BY <1>3 DEF OnReceipt
<1>5. \A m \in p.msgs : Truth(D, m, a, rank)
  BY <1>2, <1>3 DEF PacketSound, Truth
<1>6. new \subseteq p.msgs /\ \A m \in new : s.log[m] # None /\ s.log[m].acks[a] < rank
  OBVIOUS
<1>7. \A m \in p.msgs \ new : s.log[m] # None => s.log[m].acks[a] >= rank
  BY <1>1, <1>2, <1>3, StateParts, EntryParts
<1> HIDE DEF new
<1>8. ASSUME NEW ms \in SUBSET new
      PROVE  /\ NewState(D, d, Acknowledged(s, ms, a, rank))
             /\ \A m \in ms : /\ Acknowledged(s, ms, a, rank).log[m] # None
                              /\ Acknowledged(s, ms, a, rank).log[m].acks[a] = rank
             /\ \A m \in Msg \ ms : Acknowledged(s, ms, a, rank).log[m] = s.log[m]
  <2>1. PICK t : t = Acknowledged(s, ms, a, rank)
    OBVIOUS
  <2>2. ms \in SUBSET Msg
    BY <1>2, <1>6
  <2>3. /\ StateSound(D, d, t) /\ t \in State /\ Advances(s, t)
        /\ \A m \in ms : t.log[m] # None /\ t.log[m].acks[a] = rank
        /\ \A m \in Msg \ ms : t.log[m] = s.log[m]
    <3>1. AllNews(D, s, ms, a, rank)
      BY <1>5, <1>6, <2>2 DEF AllNews
    <3> QED BY <1>1, <2>1, <3>1, AcknowledgedFields
  <2>4. SameMarks(d, s, t)
    BY <1>2 DEF SameMarks
  <2>5. NewState(D, d, t)
    BY <2>3, <2>4 DEF NewState
  <2> QED BY <2>1, <2>3, <2>5
<1>9. NewState(D, d, all) /\ \A m \in new : all.log[m] # None
  BY <1>8
<1>10. \A m \in p.msgs : all.log[m] # None => all.log[m].acks[a] >= rank
  <2>1. \A m \in new : all.log[m].acks[a] = rank
    BY <1>8
  <2>2. \A m \in p.msgs \ new : all.log[m] = s.log[m]
    BY <1>2, <1>8
  <2> QED BY <1>3, <1>7, <2>1, <2>2
<1> HIDE DEF all
<1>11. ASSUME NEW ms \in SUBSET new
       PROVE  NewState(D, d, Announced(d, all, ms)) /\ Announced(d, all, ms).log = all.log
  <2>1. StateSound(D, d, all) /\ ms \in SUBSET Msg
    BY <1>2, <1>6, <1>9 DEF NewState
  <2>2. /\ StateSound(D, d, Announced(d, all, ms)) /\ Announced(d, all, ms).log = all.log
    BY <1>2, <1>9, <2>1, AnnouncedFields
  <2> QED BY <1>9, <2>2, SameLogKept
<1>12. \A t \in stops \cup {done} : NewState(D, d, t)
  BY <1>8, <1>11
<1>13. done.log = all.log
  BY <1>11
<1>14. \A m \in p.msgs : done.log[m] # None => done.log[m].acks[AccountOf[p.from]] >= p.state
  BY <1>3, <1>10, <1>13
<1> HIDE DEF stops, done
<1> QED BY <1>4, <1>12, <1>14

LEMMA ReceiveKept ==
  ASSUME Sound(dev, net, journal), NEW d \in Device, NEW p, Receive(d, p)
  PROVE  Sound(dev', net', journal') /\ Step(dev, dev')
<1>1. PICK D, N, J : D = dev /\ N = net /\ J = journal
  OBVIOUS
<1>2. PICK s : s = D[d]
  OBVIOUS
<1>3. PacketSound(D, p) /\ p.to = d /\ Sound(D, N, J) /\ D \in [Device -> State]
  BY <1>1 DEF Receive, Sound, NetSound, DevicesSound
<1>4. p.kind \in {"text", "receipt"}
  BY <1>3 DEF PacketSound, Packet
<1>5. PICK stops, done :
        /\ Command(d, [stops |-> stops, done |-> done], net, net \ {p})
        /\ \A t \in stops \cup {done} : NewState(D, d, t)
        /\ p.kind = "receipt" => \A m \in p.msgs : done.log[m] # None =>
                                   done.log[m].acks[AccountOf[p.from]] >= p.state
  <2>1. Command(d, Handled(d, s, p), net, net \ {p})
    BY <1>1, <1>2 DEF Receive
  <2>2. CASE p.kind = "text"
    <3>1. PICK m \in Msg : p.msgs = {m} /\ Known(D, m) /\ ~Outgoing(d)
      BY <1>3, <2>2 DEF PacketSound
    <3>2. Handled(d, s, p) = OnText(d, s, m)
      BY <2>2, <3>1 DEF Handled
    <3>3. PICK stops, done : /\ OnText(d, s, m) = [stops |-> stops, done |-> done]
                             /\ \A t \in stops \cup {done} : NewState(D, d, t)
      BY <1>2, <1>3, <3>1, TextKept
    <3>4. p.kind # "receipt"
      BY <2>2
    <3>5. Command(d, [stops |-> stops, done |-> done], net, net \ {p})
      BY <2>1, <3>2, <3>3
    <3> QED BY <3>3, <3>4, <3>5
  <2>3. CASE p.kind = "receipt"
    <3>1. Handled(d, s, p) = OnReceipt(d, s, p)
      BY <2>3 DEF Handled
    <3>2. PICK stops, done : /\ OnReceipt(d, s, p) = [stops |-> stops, done |-> done]
                             /\ \A t \in stops \cup {done} : NewState(D, d, t)
                             /\ \A m \in p.msgs : done.log[m] # None =>
                                  done.log[m].acks[AccountOf[p.from]] >= p.state
      BY <1>2, <1>3, <2>3, ReceiptKept
    <3>3. Command(d, [stops |-> stops, done |-> done], net, net \ {p})
      BY <2>1, <3>1, <3>2
    <3> QED BY <3>2, <3>3
  <2> QED BY <1>4, <2>2, <2>3
<1>6. ASSUME NEW E, E = [dev EXCEPT ![d] = done] PROVE Applied(E, p)
  BY <1>1, <1>3, <1>5, <1>6 DEF Applied
<1>7. NetSound(dev, net)
  BY DEF Sound
<1>8. \A t \in stops \cup {done} : NewState(dev, d, t)
  BY <1>1, <1>5
<1> QED BY <1>5, <1>6, <1>7, <1>8, CommandKept DEF Receive, NetSound

LEMMA MarkReadKept ==
  ASSUME Sound(dev, net, journal), NEW d \in Device, MarkRead(d)
  PROVE  Sound(dev', net', journal') /\ Step(dev, dev')
<1>1. PICK D, N, J, E, s : D = dev /\ N = net /\ J = journal /\ E = dev' /\ s = D[d]
  OBVIOUS
<1> DEFINE unread == {m \in Msg : s.log[m] # None /\ ~s.log[m].read}
           log == [m \in Msg |-> IF m \in unread THEN [s.log[m] EXCEPT !.read = TRUE]
                                 ELSE s.log[m]]
           t == [s EXCEPT !.log = log]
<1>2. Sound(D, N, J) /\ D \in [Device -> State] /\ StateSound(D, d, s) /\ s \in State
  BY <1>1 DEF Sound, DevicesSound, StateSound
<1>3. E = [D EXCEPT ![d] = t] /\ net' = N /\ journal' = J
  BY <1>1, <1>2 DEF MarkRead
<1>4. ASSUME NEW m \in unread
      PROVE  /\ log[m] \in Entry /\ s.log[m] # None /\ log[m] # None
             /\ log[m].state = s.log[m].state /\ log[m].acks = s.log[m].acks
             /\ s.log[m].read => log[m].read
             /\ log[m].marker = s.log[m].marker /\ log[m].marker \in Nat
  <2>1. PICK e \in Entry : e = s.log[m]
    BY <1>2, StateParts
  <2>2. PICK f \in Entry : f = [e EXCEPT !.read = TRUE]
    BY DEF Entry
  <2>3. f.state = e.state /\ f.acks = e.acks /\ f.read /\ f.marker = e.marker
    BY <2>2 DEF Entry
  <2>4. log[m] = f
    BY <2>1, <2>2
  <2> QED BY <2>1, <2>3, <2>4, EntryParts
<1>5. \A m \in Msg \ unread : log[m] = s.log[m]
  OBVIOUS
<1>6. unread \subseteq Msg
  OBVIOUS
<1>7. log \in [Msg -> Entry \cup {None}]
  <2>1. \A m \in Msg : log[m] \in Entry \cup {None}
    BY <1>2, <1>4, <1>5, StateParts
  <2> QED BY <2>1
<1> HIDE DEF log, unread
<1>8. \A m \in Msg :
        \/ log[m] = s.log[m]
        \/ /\ s.log[m] # None /\ log[m] # None
           /\ log[m].state = s.log[m].state /\ log[m].acks = s.log[m].acks
           /\ s.log[m].read => log[m].read
           /\ log[m].marker >= s.log[m].marker
  BY <1>4, <1>5
<1>9. StateSound(D, d, t) /\ t \in State /\ Advances(s, t) /\ t.log = log
  BY <1>2, <1>7, <1>8, RaisedFields
<1>10. SameMarks(d, s, t)
  BY <1>4, <1>5, <1>9 DEF SameMarks
<1>11. NewState(D, d, t)
  BY <1>1, <1>9, <1>10 DEF NewState
<1>12. NetSound(D, N) /\ JournalSound(D, J)
  BY <1>2 DEF Sound
<1>13. Sound(E, N, J) /\ Step(D, E)
  <2>1. \A p \in N \ N : Applied(E, p)
    OBVIOUS
  <2> HIDE DEF t
  <2> QED BY <1>2, <1>3, <1>11, <1>12, <2>1, SoundOneStep
<1> QED BY <1>1, <1>3, <1>13

\* The markers of some of the messages that are due.
LEMMA MarkedFields ==
  ASSUME NEW D, NEW d, NEW s, StateSound(D, d, s), NEW rank \in {Delivered, Read},
         NEW ms, ms \subseteq Msg, \A m \in ms : s.log[m] # None /\ s.log[m].marker < rank,
         NEW t, t = Marked(s, ms, rank)
  PROVE  /\ StateSound(D, d, t) /\ t \in State /\ Advances(s, t)
         /\ \A m \in ms : t.log[m].marker = rank
         /\ \A m \in Msg \ ms : t.log[m] = s.log[m]
<1> DEFINE log == [m \in Msg |-> IF m \in ms THEN [s.log[m] EXCEPT !.marker = rank]
                                 ELSE s.log[m]]
<1>1. t = [s EXCEPT !.log = log]
  BY DEF Marked
<1>2. s \in State
  BY DEF StateSound
<1>3. ASSUME NEW m \in ms
      PROVE  /\ log[m] \in Entry /\ s.log[m] # None /\ log[m] # None
             /\ log[m].state = s.log[m].state /\ log[m].acks = s.log[m].acks
             /\ log[m].read = s.log[m].read
             /\ log[m].marker >= s.log[m].marker /\ log[m].marker = rank
  <2>1. PICK e \in Entry : e = s.log[m] /\ e.marker < rank
    BY <1>2, StateParts
  <2>2. PICK f \in Entry : f = [e EXCEPT !.marker = rank]
    BY DEF Entry
  <2>3. f.state = e.state /\ f.acks = e.acks /\ f.read = e.read /\ f.marker = rank
    BY <2>2 DEF Entry
  <2>4. log[m] = f
    BY <2>1, <2>2
  <2> QED BY <2>1, <2>3, <2>4, EntryParts
<1>4. \A m \in Msg \ ms : log[m] = s.log[m]
  OBVIOUS
<1>5. log \in [Msg -> Entry \cup {None}]
  <2>1. \A m \in Msg : log[m] \in Entry \cup {None}
    BY <1>2, <1>3, <1>4, StateParts
  <2> QED BY <2>1
<1> HIDE DEF log
<1>6. \A m \in Msg :
        \/ log[m] = s.log[m]
        \/ /\ s.log[m] # None /\ log[m] # None
           /\ log[m].state = s.log[m].state /\ log[m].acks = s.log[m].acks
           /\ s.log[m].read => log[m].read
           /\ log[m].marker >= s.log[m].marker
  BY <1>3, <1>4
<1>7. StateSound(D, d, t) /\ t \in State /\ Advances(s, t) /\ t.log = log
  BY <1>1, <1>5, <1>6, RaisedFields
<1> QED BY <1>3, <1>4, <1>7

\* What flush sends says what the device knows, and covers every message it marks.
LEMMA ReceiptsSound ==
  ASSUME NEW D, NEW d \in Device, ~Outgoing(d), NEW ms, ms \subseteq Msg,
         NEW rank \in {Delivered, Read},
         \A m \in ms : /\ D[d].log[m] # None
                       /\ rank = Read => D[d].log[m].read /\ d \in Shares
  PROVE  /\ NetSound(D, Receipts(d, ms, rank))
         /\ \A m \in ms : Coming(Receipts(d, ms, rank), AccountOf[d], Writer[m], m, rank)
<1> DEFINE R == Receipts(d, ms, rank)
<1>1. ASSUME NEW w \in DevicesOf(Author)
      PROVE  \E p \in R : /\ p.kind = "receipt" /\ p.from = d /\ p.to = w /\ p.msgs = ms
                          /\ p.state = rank
  <2>1. PICK p : p = [kind |-> "receipt", from |-> d, to |-> w, msgs |-> ms, state |-> rank]
    OBVIOUS
  <2>2. p \in R
    BY <2>1 DEF Receipts, Addressed
  <2> QED BY <2>1, <2>2
<1>2. ASSUME NEW p \in R
      PROVE  /\ p \in Packet /\ p.kind = "receipt" /\ p.from = d /\ Outgoing(p.to)
             /\ p.msgs = ms /\ p.state = rank
  <2>1. PICK w \in DevicesOf(Author) :
          p = [kind |-> "receipt", from |-> d, to |-> w, msgs |-> ms, state |-> rank]
    BY DEF Receipts, Addressed
  <2> QED BY <2>1 DEF Packet, DevicesOf, Outgoing
<1> HIDE DEF R
<1>3. NetSound(D, R)
  BY <1>2 DEF NetSound, PacketSound
<1>4. \A m \in ms : Coming(R, AccountOf[d], Writer[m], m, rank)
  <2>1. \A m \in ms : Writer[m] \in DevicesOf(Author)
    BY ReplicasAssumption DEF DevicesOf
  <2> QED BY <1>1, <2>1 DEF Coming
<1> QED BY <1>3, <1>4 DEF R

LEMMA FlushKept ==
  ASSUME Sound(dev, net, journal), NEW d \in Device, NEW rank \in {Delivered, Read},
         Flush(d, rank)
  PROVE  Sound(dev', net', journal') /\ Step(dev, dev')
<1>1. PICK D, N, J, E, s : D = dev /\ N = net /\ J = journal /\ E = dev' /\ s = D[d]
  OBVIOUS
<1>2. Sound(D, N, J) /\ D \in [Device -> State] /\ StateSound(D, d, s) /\ s \in State
  BY <1>1 DEF Sound, DevicesSound, StateSound
<1>3. PICK due : /\ due = Due(d, rank) /\ due # {} /\ due \subseteq Msg /\ ~Outgoing(d)
                 /\ \A m \in due : /\ s.log[m] # None /\ s.log[m].marker < rank
                                   /\ rank = Read => s.log[m].read /\ d \in Shares
  BY <1>1 DEF Flush, Due, Wanted
<1>4. PICK M : M = N \cup Receipts(d, due, rank)
  OBVIOUS
<1>5. PICK ms, t : ms \subseteq due /\ t = Marked(s, ms, rank) /\ E = [D EXCEPT ![d] = t]
                   /\ net' = M /\ journal' = J
  <2>1. Command(d, MarkedOneByOne(s, due, rank), M, M) /\ journal' = J
    BY <1>1, <1>3, <1>4 DEF Flush
  <2>2. /\ MarkedOneByOne(s, due, rank).done = Marked(s, due, rank)
        /\ MarkedOneByOne(s, due, rank).stops = {Marked(s, x, rank) : x \in SUBSET due}
    BY DEF MarkedOneByOne
  <2>3. net' = M
    BY <2>1 DEF Command
  <2>4. \/ dev' = [dev EXCEPT ![d] = Marked(s, due, rank)]
        \/ \E t \in {Marked(s, x, rank) : x \in SUBSET due} : dev' = [dev EXCEPT ![d] = t]
    BY <2>1, <2>2 DEF Command
  <2> QED BY <1>1, <2>1, <2>3, <2>4
<1>6. /\ StateSound(D, d, t) /\ t \in State /\ Advances(s, t)
      /\ \A m \in ms : t.log[m].marker = rank
      /\ \A m \in Msg \ ms : t.log[m] = s.log[m]
  BY <1>2, <1>3, <1>5, MarkedFields
<1>7. /\ E \in [Device -> State] /\ Step(D, E) /\ E[d] = t
      /\ \A x \in Device \ {d} : E[x] = D[x] /\ StateSound(D, x, E[x])
  <2>1. DevicesSound(D) /\ Advances(D[d], t)
    BY <1>1, <1>2, <1>6 DEF Sound
  <2>2. t \in State
    BY <1>6
  <2>3. E = [D EXCEPT ![d] = t]
    BY <1>5
  <2> QED BY <1>2, <2>1, <2>2, <2>3, OneStep
<1>8. DevicesSound(E)
  BY <1>6, <1>7, DevicesStep
<1>9. /\ NetSound(D, Receipts(d, due, rank))
      /\ \A m \in due : Coming(Receipts(d, due, rank), AccountOf[d], Writer[m], m, rank)
  BY <1>1, <1>3, ReceiptsSound
<1>10. NetSound(D, M) /\ N \subseteq M
  BY <1>2, <1>4, <1>9 DEF Sound, NetSound
<1>11. \A m \in due : Coming(M, AccountOf[d], Writer[m], m, rank)
  BY <1>4, <1>9 DEF Coming
<1>12. \A x \in Device : MarksSent(M, x, D[x], E[x])
  <2>1. MarksSent(M, d, s, t)
    BY <1>5, <1>6, <1>11 DEF MarksSent
  <2> QED BY <1>1, <1>7, <2>1 DEF MarksSent
<1>13. Kept(E, M)
  <2>1. \A p \in N \ M : Applied(E, p)
    BY <1>10
  <2> QED BY <1>2, <1>7, <1>12, <2>1, KeptStep DEF Sound
<1>14. NetSound(E, M) /\ JournalSound(E, J)
  BY <1>2, <1>7, <1>10, NetStable, JournalStable DEF Sound
<1> QED BY <1>1, <1>5, <1>7, <1>8, <1>13, <1>14 DEF Sound

\* A copy of the queue, or of the journal, in the journal of its account.
LEMMA StoredSound ==
  ASSUME NEW D, NEW J, JournalSound(D, J), NEW a \in Account, NEW S, S \subseteq J[a],
         NEW c \in Copy, EventSound(D, a, c.event),
         Cardinality(J[a]) < Slots \/ S # J[a], NEW K, K = [J EXCEPT ![a] = S \cup {c}]
  PROVE  JournalSound(D, K)
<1>1. /\ J \in [Account -> SUBSET Copy] /\ IsFiniteSet(J[a]) /\ Cardinality(J[a]) <= Slots
      /\ Cardinality(J[a]) \in Nat /\ Slots \in Nat
  BY FS_CardinalityType, ReplicasAssumption DEF JournalSound
<1>2. IsFiniteSet(S) /\ Cardinality(S) \in Nat /\ Cardinality(S) <= Cardinality(J[a])
  BY <1>1, FS_Subset, FS_CardinalityType
<1>3. S # J[a] => Cardinality(S) < Cardinality(J[a])
  BY <1>1, <1>2, FS_Subset
<1>4. Cardinality(S) < Slots
  BY <1>1, <1>2, <1>3
<1>5. IsFiniteSet(S \cup {c}) /\ Cardinality(S \cup {c}) <= Slots
  <2>1. /\ IsFiniteSet(S \cup {c})
        /\ Cardinality(S \cup {c}) \in {Cardinality(S), Cardinality(S) + 1}
    BY <1>2, FS_AddElement
  <2> QED BY <1>1, <1>2, <1>4, <2>1
<1>6. /\ K \in [Account -> SUBSET Copy] /\ K[a] = S \cup {c}
      /\ \A b \in Account \ {a} : K[b] = J[b]
  BY <1>1
<1>7. \A j \in S : EventSound(D, a, j.event)
  BY DEF JournalSound
<1> QED BY <1>5, <1>6, <1>7 DEF JournalSound

LEMMA TransmitKept ==
  ASSUME Sound(dev, net, journal), NEW d \in Device, NEW e, Transmit(d, e)
  PROVE  Sound(dev', net', journal') /\ Step(dev, dev')
<1> AccountOf[d] \in Account
  BY ReplicasAssumption
<1>1. PICK D, N, J, E, K, s, a :
        /\ D = dev /\ N = net /\ J = journal /\ E = dev' /\ K = journal'
        /\ s = D[d] /\ a = AccountOf[d] /\ a \in Account
  OBVIOUS
<1>2. Sound(D, N, J) /\ D \in [Device -> State] /\ StateSound(D, d, s) /\ s \in State
  BY <1>1 DEF Sound, DevicesSound, StateSound
<1>3. e \in s.queue /\ EventSound(D, a, e) /\ net' = N
  BY <1>1, <1>2 DEF Transmit, StateSound
<1>4. PICK heard \in SUBSET Linked(d), stored \in BOOLEAN, known \in BOOLEAN :
        /\ stored => Cardinality(J[a]) < Slots
        /\ K = IF stored THEN [J EXCEPT ![a] = @ \cup {[event |-> e, seen |-> {d}]}] ELSE J
        /\ E = [x \in Device |->
              IF x = d THEN [s EXCEPT !.queue = IF known THEN @ \ {e} ELSE @]
              ELSE IF x \in heard THEN Upserted(D[x], e) ELSE D[x]]
  BY <1>1 DEF Transmit, FreeSlot
<1>5. NewState(D, d, E[d])
  <2>1. PICK queue : queue = IF known THEN s.queue \ {e} ELSE s.queue
    OBVIOUS
  <2>2. E[d] = [s EXCEPT !.queue = queue] /\ queue \subseteq s.queue
    BY <1>4, <2>1
  <2>3. /\ E[d] \in State /\ E[d].log = s.log /\ E[d].outbox = s.outbox
        /\ E[d].queue = queue
    BY <1>2, <2>2 DEF State
  <2>4. StateSound(D, d, E[d])
    BY <1>2, <2>2, <2>3 DEF StateSound
  <2>5. NewState(D, d, s)
    BY <1>1, <1>2, SameState DEF Sound
  <2> QED BY <2>3, <2>4, <2>5, SameLogKept
<1>6. ASSUME NEW x \in Device \ {d} PROVE NewState(D, x, E[x])
  <2>1. CASE x \in heard
    <3>1. AccountOf[x] = a
      BY <1>1, <2>1 DEF Linked, DevicesOf
    <3>2. PICK u, t : u = D[x] /\ t = Upserted(u, e) /\ t = E[x]
      BY <1>4, <2>1
    <3>3. StateSound(D, x, u) /\ EventSound(D, AccountOf[x], e)
      BY <1>2, <1>3, <3>1, <3>2 DEF Sound, DevicesSound
    <3>4. StateSound(D, x, t) /\ t \in State /\ Advances(u, t) /\ SameMarks(x, u, t)
      BY <3>2, <3>3, UpsertedFields
    <3> QED BY <3>2, <3>4 DEF NewState
  <2>2. CASE x \notin heard
    <3>1. E[x] = D[x]
      BY <1>4, <2>2
    <3> QED BY <1>2, <3>1, SameState DEF Sound
  <2> QED BY <2>1, <2>2
<1>7. JournalSound(D, K)
  <2>1. JournalSound(D, J)
    BY <1>2 DEF Sound
  <2>2. CASE stored
    <3>1. PICK c : c = [event |-> e, seen |-> {d}]
      OBVIOUS
    <3>2. c \in Copy /\ c.event = e
      BY <1>3, <3>1 DEF Copy, EventSound
    <3>3. PICK S : S = J[a]
      OBVIOUS
    <3>4. K = [J EXCEPT ![a] = S \cup {c}]
      BY <1>4, <2>2, <3>1, <3>3
    <3>5. EventSound(D, a, c.event) /\ a \in Account
      BY <1>1, <1>3, <3>2
    <3>6. S \subseteq J[a] /\ Cardinality(J[a]) < Slots
      BY <1>4, <2>2, <3>3
    <3> QED BY <2>1, <3>2, <3>4, <3>5, <3>6, StoredSound
  <2> QED BY <1>4, <2>1, <2>2
<1>8. E \in [Device -> State]
  <2>1. \A x \in Device : E[x] \in State
    BY <1>5, <1>6 DEF NewState, StateSound
  <2> QED BY <1>4, <2>1
<1>9. NetSound(D, N) /\ \A p \in N \ N : Applied(E, p)
  BY <1>2 DEF Sound
<1>10. Sound(E, N, K) /\ Step(D, E)
  BY <1>2, <1>5, <1>6, <1>7, <1>8, <1>9, SoundStep
<1> QED BY <1>1, <1>3, <1>10

LEMMA ReadJournalKept ==
  ASSUME Sound(dev, net, journal), NEW d \in Device, NEW j, ReadJournal(d, j)
  PROVE  Sound(dev', net', journal') /\ Step(dev, dev')
<1> AccountOf[d] \in Account
  BY ReplicasAssumption
<1>1. PICK D, N, J, E, K, s, a :
        /\ D = dev /\ N = net /\ J = journal /\ E = dev' /\ K = journal'
        /\ s = D[d] /\ a = AccountOf[d] /\ a \in Account
  OBVIOUS
<1>2. Sound(D, N, J) /\ D \in [Device -> State] /\ StateSound(D, d, s) /\ JournalSound(D, J)
  BY <1>1 DEF Sound, DevicesSound
<1>3. j \in J[a] /\ net' = N /\ j \in Copy /\ EventSound(D, a, j.event)
  BY <1>1, <1>2 DEF ReadJournal, JournalSound
<1>4. PICK t : t = Upserted(s, j.event) /\ E = [D EXCEPT ![d] = t]
  BY <1>1, <1>2 DEF ReadJournal
<1>5. NewState(D, d, t)
  <2>1. StateSound(D, d, t) /\ t \in State /\ Advances(s, t) /\ SameMarks(d, s, t)
    BY <1>1, <1>2, <1>3, <1>4, UpsertedFields
  <2> QED BY <1>1, <2>1 DEF NewState
<1>6. JournalSound(D, K)
  <2>1. PICK c : c = [j EXCEPT !.seen = @ \cup {d}]
    OBVIOUS
  <2>2. c \in Copy /\ c.event = j.event
    BY <1>3, <2>1 DEF Copy
  <2>3. PICK S : S = J[a] \ {j}
    OBVIOUS
  <2>4. K = [J EXCEPT ![a] = S \cup {c}]
    BY <1>1, <2>1, <2>3 DEF ReadJournal
  <2>5. S \subseteq J[a] /\ S # J[a]
    BY <1>3, <2>3
  <2>6. a \in Account
    BY <1>1
  <2> QED BY <1>2, <1>3, <2>2, <2>4, <2>5, <2>6, StoredSound
<1>7. NetSound(D, N) /\ \A p \in N \ N : Applied(E, p)
  BY <1>2 DEF Sound
<1>8. Sound(E, N, K) /\ Step(D, E)
  BY <1>2, <1>4, <1>5, <1>6, <1>7, SoundOneStep
<1> QED BY <1>1, <1>3, <1>8

LEMMA ExpireKept ==
  ASSUME Sound(dev, net, journal), NEW a \in Account, NEW j, Expire(a, j)
  PROVE  Sound(dev', net', journal') /\ Step(dev, dev')
<1>1. PICK D, N, J, K : D = dev /\ N = net /\ J = journal /\ K = journal'
  OBVIOUS
<1>2. Sound(D, N, J) /\ D \in [Device -> State] /\ JournalSound(D, J)
  BY <1>1 DEF Sound, DevicesSound
<1>3. K = [J EXCEPT ![a] = @ \ {j}] /\ dev' = D /\ net' = N
  BY <1>1 DEF Expire
<1>4. JournalSound(D, K)
  <2>1. /\ J \in [Account -> SUBSET Copy] /\ IsFiniteSet(J[a]) /\ Cardinality(J[a]) <= Slots
        /\ Cardinality(J[a]) \in Nat /\ Slots \in Nat
    BY <1>2, FS_CardinalityType, ReplicasAssumption DEF JournalSound
  <2>2. /\ K \in [Account -> SUBSET Copy] /\ K[a] = J[a] \ {j}
        /\ \A b \in Account \ {a} : K[b] = J[b]
    BY <1>3, <2>1
  <2>3. /\ IsFiniteSet(K[a]) /\ Cardinality(K[a]) <= Cardinality(J[a])
        /\ Cardinality(K[a]) \in Nat
    BY <2>1, <2>2, FS_Subset, FS_CardinalityType
  <2>4. Cardinality(K[a]) <= Slots
    BY <2>1, <2>3
  <2> QED BY <1>2, <2>2, <2>3, <2>4 DEF JournalSound
<1>5. Step(D, D)
  BY <1>2, AdvancesSelf DEF Step
<1> QED BY <1>1, <1>2, <1>3, <1>4, <1>5 DEF Sound

(***************************************************************************)
(* The theorems.                                                           *)
(***************************************************************************)

LEMMA InitIInv == Init => IInv
<1> SUFFICES ASSUME Init PROVE IInv
  OBVIOUS
<1>1. PICK D, N, J : D = dev /\ N = net /\ J = journal
  OBVIOUS
<1>2. /\ D = [d \in Device |-> [log |-> [m \in Msg |-> None], outbox |-> {}, queue |-> {}]]
      /\ N = {} /\ J = [a \in Account |-> {}]
  BY <1>1 DEF Init
<1>3. \A d \in Device : /\ D[d] \in State /\ D[d].outbox = {} /\ D[d].queue = {}
                        /\ \A m \in Msg : D[d].log[m] = None
  BY <1>2 DEF State
<1>4. DevicesSound(D)
  BY <1>2, <1>3 DEF DevicesSound, StateSound
<1>5. NetSound(D, N) /\ Kept(D, N)
  BY <1>2, <1>3 DEF NetSound, Kept
<1>6. JournalSound(D, J)
  BY <1>2, FS_EmptySet, ReplicasAssumption DEF JournalSound
<1>7. Counted
  BY ReplicasAssumption DEF Init, Counted
<1> QED BY <1>1, <1>4, <1>5, <1>6, <1>7 DEF IInv

\* Every action leaves the logs, the packets and the journals sound.
LEMMA NextSound ==
  ASSUME Sound(dev, net, journal), [Next]_vars
  PROVE  Sound(dev', net', journal') /\ Step(dev, dev')
<1>1. ASSUME NEW m \in Msg, Send(m) PROVE Sound(dev', net', journal') /\ Step(dev, dev')
  BY <1>1, SendKept
<1>2. ASSUME NEW d \in Device, NEW p, HandOver(d, p)
      PROVE  Sound(dev', net', journal') /\ Step(dev, dev')
  BY <1>2, HandOverKept
<1>3. ASSUME NEW d \in Device, NEW p, Receive(d, p)
      PROVE  Sound(dev', net', journal') /\ Step(dev, dev')
  BY <1>3, ReceiveKept
<1>4. ASSUME NEW d \in Device, NEW rank \in {Delivered, Read}, Flush(d, rank)
      PROVE  Sound(dev', net', journal') /\ Step(dev, dev')
  BY <1>4, FlushKept
<1>5. ASSUME NEW d \in Device, NEW j, ReadJournal(d, j)
      PROVE  Sound(dev', net', journal') /\ Step(dev, dev')
  BY <1>5, ReadJournalKept
<1>6. ASSUME NEW d \in Device, MarkRead(d)
      PROVE  Sound(dev', net', journal') /\ Step(dev, dev')
  BY <1>6, MarkReadKept
<1>7. ASSUME NEW d \in Device, NEW e, Transmit(d, e)
      PROVE  Sound(dev', net', journal') /\ Step(dev, dev')
  BY <1>7, TransmitKept
<1>8. ASSUME NEW a \in Account, NEW j, Expire(a, j)
      PROVE  Sound(dev', net', journal') /\ Step(dev, dev')
  BY <1>8, ExpireKept
<1>9. CASE UNCHANGED vars
  <2>1. PICK D : D = dev
    OBVIOUS
  <2>2. Step(D, D)
    BY <2>1, AdvancesSelf DEF Step, Sound, DevicesSound
  <2> QED BY <1>9, <2>1, <2>2 DEF vars
<1> QED BY <1>1, <1>2, <1>3, <1>4, <1>5, <1>6, <1>7, <1>8, <1>9 DEF Next, Pass

\* The bound on the commands that die and the results that are lost.
LEMMA NextCounted ==
  ASSUME Counted, [Next]_vars
  PROVE  Counted'
<1>1. MaxFaults \in Nat
  BY ReplicasAssumption
<1>2. ASSUME UNCHANGED <<cuts, repeats>> PROVE Counted'
  BY <1>2 DEF Counted
<1>3. ASSUME MoreFaults, cuts' = cuts + 1, repeats' = repeats PROVE Counted'
  BY <1>1, <1>3 DEF Counted, MoreFaults
<1>4. ASSUME MoreFaults, cuts' = cuts, repeats' = repeats + 1 PROVE Counted'
  BY <1>1, <1>4 DEF Counted, MoreFaults
<1>5. ASSUME NEW d, NEW writes, NEW during, NEW after, Command(d, writes, during, after),
             repeats' = repeats
      PROVE  Counted'
  BY <1>2, <1>3, <1>5 DEF Command
<1>6. ASSUME NEW d, NEW p, HandOver(d, p) \/ Receive(d, p) \/ Flush(d, p) PROVE Counted'
  BY <1>5, <1>6 DEF HandOver, Receive, Flush
<1>7. ASSUME NEW d, NEW e, Transmit(d, e) PROVE Counted'
  BY <1>2, <1>4, <1>7 DEF Transmit
<1>8. ASSUME NEW d, NEW j, ReadJournal(d, j) \/ Expire(d, j) \/ Send(d) \/ MarkRead(d)
      PROVE  Counted'
  BY <1>2, <1>8 DEF ReadJournal, Expire, Send, MarkRead
<1>9. CASE UNCHANGED vars
  BY <1>2, <1>9 DEF vars
<1> QED BY <1>6, <1>7, <1>8, <1>9 DEF Next, Pass

LEMMA NextIInv == IInv /\ [Next]_vars => IInv'
<1> SUFFICES ASSUME IInv, [Next]_vars PROVE IInv'
  OBVIOUS
<1>1. Sound(dev', net', journal')
  BY NextSound DEF IInv, Sound
<1>2. Counted'
  BY NextCounted DEF IInv
<1> QED BY <1>1, <1>2 DEF IInv, Sound

\* The inductive invariant: what a log, a copy, a packet or a journal says is true
\* of the devices it speaks of, and each marker stands for a receipt.
THEOREM InvariantHolds == Spec => []IInv
<1> QED BY InitIInv, NextIInv, PTL DEF Spec

\* Every state the devices, packets and journals take is one the code can store, and
\* no journal exceeds its slots.
THEOREM TypeCorrect == Spec => []TypeOK
<1>1. IInv => TypeOK
  <2> SUFFICES ASSUME IInv PROVE TypeOK
    OBVIOUS
  <2>1. dev \in [Device -> State]
    BY DEF IInv, DevicesSound
  <2>2. net \subseteq Packet
    BY DEF IInv, NetSound, PacketSound
  <2>3. /\ journal \in [Account -> SUBSET Copy]
        /\ \A a \in Account : Cardinality(journal[a]) <= Slots
    BY DEF IInv, JournalSound
  <2>4. cuts + repeats \in 0 .. MaxFaults
    BY ReplicasAssumption DEF IInv, Counted
  <2> QED BY <2>1, <2>2, <2>3, <2>4 DEF TypeOK
<1> QED BY InvariantHolds, <1>1, PTL

\* A tick shown by any device of the author is one the recipients have earned: each
\* of them has the message, or has read it and says so.
THEOREM TicksTrue == Spec => []TicksAreTrue
<1>1. IInv => TicksAreTrue
  <2> SUFFICES ASSUME IInv, NEW a \in DevicesOf(Author), NEW m \in Msg, dev[a].log[m] # None,
                      NEW p \in Peers
               PROVE  LET e == dev[a].log[m] IN
                      /\ Higher(e.state, e.acks[p]) >= Delivered =>
                           \E d \in DevicesOf(p) : dev[d].log[m] # None
                      /\ Higher(e.state, e.acks[p]) = Read =>
                           \E d \in DevicesOf(p) \cap Shares :
                             dev[d].log[m] # None /\ dev[d].log[m].read
    BY DEF TicksAreTrue
  <2>1. a \in Device /\ AccountOf[a] = Author
    BY DEF DevicesOf
  <2>2. EntrySound(dev, Author, m, dev[a].log[m])
    BY <2>1 DEF IInv, DevicesSound, StateSound
  <2>3. Truth(dev, m, p, Claim(dev[a].log[m], p))
    BY <2>2 DEF EntrySound
  <2> QED BY <2>3 DEF Truth, Claim
<1> QED BY InvariantHolds, <1>1, PTL

\* A receipt that a recipient has marked as sent is under way to the device that wrote
\* the message, or known there, wherever commands have died.
THEOREM ReceiptsKept == Spec => []ReceiptsAreKept
<1>1. IInv => ReceiptsAreKept
  BY DEF IInv, Kept, Coming, ReceiptsAreKept
<1> QED BY InvariantHolds, <1>1, PTL

\* No step takes back a tick, a flag or a marker on any device, or loses a message.
THEOREM TicksStay == Spec => TicksNeverFallBack
<1>1. IInv /\ [Next]_vars =>
        [\A d \in Device, m \in Msg :
           LET old == dev[d].log[m]
               new == dev'[d].log[m]
           IN  old # None =>
                 /\ new # None /\ new.state >= old.state /\ new.marker >= old.marker
                 /\ old.read => new.read
                 /\ \A p \in Peers : new.acks[p] >= old.acks[p]]_vars
  <2> SUFFICES ASSUME IInv, [Next]_vars
               PROVE  \A d \in Device, m \in Msg :
                        LET old == dev[d].log[m]
                            new == dev'[d].log[m]
                        IN  old # None =>
                              /\ new # None /\ new.state >= old.state /\ new.marker >= old.marker
                              /\ old.read => new.read
                              /\ \A p \in Peers : new.acks[p] >= old.acks[p]
    OBVIOUS
  <2>1. Step(dev, dev')
    BY NextSound DEF IInv, Sound
  <2> QED BY <2>1 DEF Step, Advances, Above
<1> QED BY InvariantHolds, <1>1, PTL DEF Spec, TicksNeverFallBack

-----------------------------------------------------------------------------
(***************************************************************************)
(* Agreement: what one device of the author knows of a message, all of     *)
(* them know or can still hear, as long as no command dies.  D are the     *)
(* devices, J the journals.                                                *)
(***************************************************************************)

\* The tick that the receipts on an entry give, if there are any.
Tick(acks) ==
  IF \A p \in Peers : acks[p] >= Read THEN Read
  ELSE IF \A p \in Peers : acks[p] >= Delivered THEN Delivered ELSE Sent

Exact(e) ==
  IF e.acks = Unacknowledged THEN e.state \in {Queued, Sent} ELSE e.state = Tick(e.acks)

Fine(e) == Exact(e) /\ e.state >= Sent

\* Device a knows all that event e says.
Heard(D, a, e) ==
  /\ D[a].log[e.msg] # None
  /\ \A p \in Peers : D[a].log[e.msg].acks[p] >= e.entry.acks[p]

\* Device a has a copy of m on which p has at least rank, or will hear of one.
Source(D, J, a, m, p, rank) ==
  \/ D[a].log[m] # None /\ D[a].log[m].acks[p] >= rank
  \/ \E c \in DevicesOf(Author) \ {a} : \E e \in D[c].queue :
       e.msg = m /\ e.entry.acks[p] >= rank
  \/ \E j \in J[Author] : a \notin j.seen /\ j.event.msg = m /\ j.event.entry.acks[p] >= rank

Everywhere(D, J, m, acks) ==
  \A a \in DevicesOf(Author), p \in Peers : Source(D, J, a, m, p, acks[p])

\* What is not sent has texts left to hand over.
Waits(s, d, m) == d = Writer[m] /\ Texts(s, m) # {}

RowAgrees(D, J, d, m) ==
  D[d].log[m] # None =>
    /\ Exact(D[d].log[m])
    /\ D[d].log[m].state >= Sent \/ Waits(D[d], d, m)
    /\ D[d].log[m].state >= Sent => Everywhere(D, J, m, D[d].log[m].acks)

Agreeing(D, J) ==
  /\ \A d \in DevicesOf(Author), m \in Msg : RowAgrees(D, J, d, m)
  /\ \A d \in DevicesOf(Author) : \A e \in D[d].queue : Fine(e.entry) /\ Heard(D, d, e)
  /\ \A j \in J[Author] : /\ Fine(j.event.entry)
                          /\ \A a \in DevicesOf(Author) \cap j.seen : Heard(D, a, j.event)

\* An event that leaves a queue, or is no longer to be read, has been heard or is journaled.
QueuesKept(D, E, K) ==
  \A c \in DevicesOf(Author) : \A e \in D[c].queue \ E[c].queue : \A a \in DevicesOf(Author) \ {c} :
    Heard(E, a, e) \/ \E k \in K[Author] : a \notin k.seen /\ k.event = e

JournalKept(J, E, K) ==
  \A j \in J[Author] : \A a \in DevicesOf(Author) \ j.seen :
    Heard(E, a, j.event) \/ \E k \in K[Author] : a \notin k.seen /\ k.event = j.event

LEMMA PeersExist == Peers # {}
BY ReplicasAssumption DEF Peers

LEMMA AuthorDevices ==
  /\ \A d \in DevicesOf(Author) : d \in Device /\ Outgoing(d) /\ AccountOf[d] = Author
  /\ \A d \in Device : Outgoing(d) => d \in DevicesOf(Author)
  /\ \A m \in Msg : Writer[m] \in DevicesOf(Author)
  /\ Author \in Account
BY ReplicasAssumption DEF DevicesOf, Outgoing

LEMMA TickMonotone ==
  ASSUME NEW a \in [Peers -> {0, Delivered, Read}], NEW b \in [Peers -> {0, Delivered, Read}],
         \A p \in Peers : a[p] <= b[p]
  PROVE  /\ Tick(a) <= Tick(b) /\ Tick(a) \in {Sent, Delivered, Read}
         /\ Tick(b) \in {Sent, Delivered, Read}
         /\ b = Unacknowledged => a = Unacknowledged
<1>1. Tick(a) \in {Sent, Delivered, Read} /\ Tick(b) \in {Sent, Delivered, Read}
  BY DEF Tick
<1>2. Tick(a) <= Tick(b)
  BY DEF Tick
<1>3. b = Unacknowledged => a = Unacknowledged
  <2>1. SUFFICES ASSUME b = Unacknowledged PROVE \A p \in Peers : a[p] = 0
    BY DEF Unacknowledged
  <2>2. \A p \in Peers : b[p] = 0
    BY <2>1 DEF Unacknowledged
  <2> QED BY <2>2
<1> QED BY <1>1, <1>2, <1>3

\* refresh_state leaves an entry with the tick of its receipts, if it had no higher one.
LEMMA RefreshedExact ==
  ASSUME NEW g \in Entry,
         IF g.acks = Unacknowledged THEN g.state \in {Queued, Sent} ELSE g.state <= Tick(g.acks)
  PROVE  /\ Exact(Refreshed(g)) /\ Refreshed(g).acks = g.acks
         /\ g.acks # Unacknowledged => Refreshed(g).state >= Sent
<1>1. PICK h \in Entry : h = Refreshed(g) /\ h.acks = g.acks
  BY RefreshedFields
<1>2. PICK next : next = IF g.acks = Unacknowledged THEN 0 ELSE Tick(g.acks)
  OBVIOUS
<1>3. h = [g EXCEPT !.state = Higher(@, next)]
  BY <1>1, <1>2 DEF Refreshed, Tick
<1>4. h.state = Higher(g.state, next)
  BY <1>3 DEF Entry
<1>5. Tick(g.acks) \in {Sent, Delivered, Read} /\ g.state \in Nat
  BY EntryParts DEF Tick
<1>6. CASE g.acks = Unacknowledged
  BY <1>1, <1>2, <1>4, <1>6 DEF Exact, Higher
<1>7. CASE g.acks # Unacknowledged
  BY <1>1, <1>2, <1>4, <1>5, <1>7 DEF Exact, Higher
<1> QED BY <1>1, <1>6, <1>7

LEMMA MergedExact ==
  ASSUME NEW e \in Entry, NEW f \in Entry, Exact(e), Fine(f)
  PROVE  /\ Merged(e, f) \in Entry /\ Fine(Merged(e, f))
         /\ \A p \in Peers : Merged(e, f).acks[p] = Higher(e.acks[p], f.acks[p])
<1> DEFINE acks == [p \in Peers |-> Higher(e.acks[p], f.acks[p])]
           g == [e EXCEPT !.acks = acks, !.state = Higher(@, f.state)]
<1>1. Merged(e, f) = Refreshed(g)
  BY DEF Merged
<1>2. acks \in [Peers -> {0, Delivered, Read}]
  BY EntryParts DEF Higher
<1>3. \A p \in Peers : acks[p] = Higher(e.acks[p], f.acks[p])
  OBVIOUS
<1> HIDE DEF acks
<1>4. Higher(e.state, f.state) \in Queued .. Read
  BY EntryParts DEF Higher
<1>5. g \in Entry /\ g.state = Higher(e.state, f.state) /\ g.acks = acks
  BY <1>2, <1>4 DEF Entry
<1> HIDE DEF g
<1>6. \A p \in Peers : e.acks[p] <= acks[p] /\ f.acks[p] <= acks[p]
  BY <1>3, EntryParts DEF Higher
<1>7. /\ e.acks \in [Peers -> {0, Delivered, Read}] /\ f.acks \in [Peers -> {0, Delivered, Read}]
      /\ e.state \in Nat /\ f.state \in Nat
  BY EntryParts
<1>8. /\ Tick(e.acks) <= Tick(acks) /\ Tick(f.acks) <= Tick(acks)
      /\ Tick(acks) \in {Sent, Delivered, Read}
      /\ acks = Unacknowledged => e.acks = Unacknowledged /\ f.acks = Unacknowledged
  BY <1>2, <1>6, <1>7, TickMonotone
<1>9. IF g.acks = Unacknowledged THEN g.state \in {Queued, Sent} ELSE g.state <= Tick(g.acks)
  <2>1. CASE acks = Unacknowledged
    BY <1>5, <1>8, <2>1 DEF Exact, Fine, Higher
  <2>2. CASE acks # Unacknowledged
    <3>1. e.state <= Tick(acks)
      BY <1>7, <1>8 DEF Exact
    <3>2. f.state <= Tick(acks)
      BY <1>7, <1>8 DEF Exact, Fine
    <3> QED BY <1>5, <2>2, <3>1, <3>2 DEF Higher
  <2> QED BY <2>1, <2>2
<1>10. PICK h \in Entry : h = Refreshed(g) /\ h.acks = acks /\ h.state >= g.state /\ Exact(h)
  BY <1>5, <1>9, RefreshedFields, RefreshedExact
<1>11. h.state >= Sent
  BY <1>5, <1>7, <1>10, EntryParts DEF Fine, Higher
<1> QED BY <1>1, <1>3, <1>10, <1>11 DEF Fine

LEMMA AcknowledgedExact ==
  ASSUME NEW e \in Entry, NEW a \in Peers, NEW rank \in {Delivered, Read},
         e.acks[a] < rank, Exact(e)
  PROVE  Fine(Refreshed([e EXCEPT !.acks[a] = rank]))
<1> DEFINE acks == [e.acks EXCEPT ![a] = rank]
           g == [e EXCEPT !.acks[a] = rank]
<1>1. acks \in [Peers -> {0, Delivered, Read}] /\ acks[a] = rank
  BY EntryParts
<1>2. \A p \in Peers : e.acks[p] <= acks[p]
  BY EntryParts
<1> HIDE DEF acks
<1>3. g = [e EXCEPT !.acks = acks]
  BY DEF acks
<1>4. g \in Entry /\ g.state = e.state /\ g.acks = acks
  BY <1>1, <1>3 DEF Entry
<1> HIDE DEF g
<1>5. acks # Unacknowledged
  BY <1>1 DEF Unacknowledged
<1>6. e.acks \in [Peers -> {0, Delivered, Read}] /\ e.state \in Nat
  BY EntryParts
<1>7. Tick(e.acks) <= Tick(acks) /\ Tick(acks) \in {Sent, Delivered, Read}
  BY <1>1, <1>2, <1>6, TickMonotone
<1>8. g.state <= Tick(g.acks)
  BY <1>4, <1>6, <1>7 DEF Exact
<1>9. Exact(Refreshed(g)) /\ Refreshed(g).state >= Sent
  BY <1>4, <1>5, <1>8, RefreshedExact
<1> QED BY <1>9 DEF g, Fine

\* What a device has heard it does not forget.
LEMMA HeardStays ==
  ASSUME NEW D, NEW E, D \in [Device -> State], E \in [Device -> State], Step(D, E),
         NEW a \in Device, NEW e \in Event, Heard(D, a, e)
  PROVE  Heard(E, a, e)
<1>1. PICK m \in Msg, x \in Entry : m = e.msg /\ x = e.entry
  BY DEF Event
<1>2. PICK old \in Entry, new \in Entry : old = D[a].log[m] /\ new = E[a].log[m] /\ Above(old, new)
  BY <1>1, StateParts DEF Heard, Step, Advances
<1>3. \A p \in Peers : new.acks[p] >= old.acks[p] /\ old.acks[p] >= x.acks[p]
  BY <1>1, <1>2 DEF Above, Heard
<1>4. \A p \in Peers : new.acks[p] >= x.acks[p]
  BY <1>3, EntryParts
<1> QED BY <1>1, <1>2, <1>4, EntryParts DEF Heard

LEMMA HeardIsSource ==
  ASSUME NEW E, E \in [Device -> State], NEW K, NEW a \in DevicesOf(Author),
         NEW e \in Event, Heard(E, a, e),
         NEW p \in Peers, NEW rank \in Nat, e.entry.acks[p] >= rank
  PROVE  Source(E, K, a, e.msg, p, rank)
<1>1. PICK m \in Msg, x \in Entry : m = e.msg /\ x = e.entry
  BY DEF Event
<1>2. PICK new \in Entry : new = E[a].log[m]
  BY <1>1, AuthorDevices, StateParts DEF Heard
<1>3. new.acks[p] >= x.acks[p] /\ x.acks[p] >= rank
  BY <1>1, <1>2 DEF Heard
<1>4. new.acks[p] >= rank
  BY <1>3, EntryParts
<1> QED BY <1>1, <1>2, <1>4, EntryParts DEF Source

\* A source may change its form, and stays one.
LEMMA SourcesStay ==
  ASSUME NEW D, NEW J, DevicesSound(D), JournalSound(D, J),
         NEW E, NEW K, E \in [Device -> State], Step(D, E),
         QueuesKept(D, E, K), JournalKept(J, E, K),
         NEW a \in DevicesOf(Author), NEW m \in Msg, NEW p \in Peers, NEW rank \in Nat,
         Source(D, J, a, m, p, rank)
  PROVE  Source(E, K, a, m, p, rank)
<1>1. a \in Device /\ D \in [Device -> State]
  BY AuthorDevices DEF DevicesSound
<1>2. CASE D[a].log[m] # None /\ D[a].log[m].acks[p] >= rank
  <2>1. PICK old \in Entry, new \in Entry :
          old = D[a].log[m] /\ new = E[a].log[m] /\ Above(old, new)
    BY <1>1, <1>2, StateParts DEF Step, Advances
  <2>2. new.acks[p] >= old.acks[p] /\ old.acks[p] >= rank
    BY <1>2, <2>1 DEF Above
  <2>3. new.acks[p] >= rank
    BY <2>2, EntryParts
  <2> QED BY <2>1, <2>3, EntryParts DEF Source
<1>3. ASSUME NEW e \in Event, e.msg = m, e.entry.acks[p] >= rank,
             Heard(E, a, e) \/ \E k \in K[Author] : a \notin k.seen /\ k.event = e
      PROVE  Source(E, K, a, m, p, rank)
  <2>1. CASE Heard(E, a, e)
    BY <1>3, <2>1, HeardIsSource
  <2>2. CASE \E k \in K[Author] : a \notin k.seen /\ k.event = e
    BY <1>3, <2>2 DEF Source
  <2> QED BY <1>3, <2>1, <2>2
<1>4. CASE \E c \in DevicesOf(Author) \ {a} : \E e \in D[c].queue :
             e.msg = m /\ e.entry.acks[p] >= rank
  <2>1. PICK c \in DevicesOf(Author) \ {a} : \E e \in D[c].queue :
               e.msg = m /\ e.entry.acks[p] >= rank
    BY <1>4
  <2>2. PICK e \in D[c].queue : e.msg = m /\ e.entry.acks[p] >= rank
    BY <2>1
  <2>3. CASE e \in E[c].queue
    BY <2>2, <2>3 DEF Source
  <2>4. CASE e \notin E[c].queue
    <3>1. e \in Event
      BY <1>1, <2>2, AuthorDevices, StateParts
    <3>2. Heard(E, a, e) \/ \E k \in K[Author] : a \notin k.seen /\ k.event = e
      BY <2>2, <2>4 DEF QueuesKept
    <3> QED BY <1>3, <2>2, <3>1, <3>2
  <2> QED BY <2>3, <2>4
<1>5. CASE \E j \in J[Author] : a \notin j.seen /\ j.event.msg = m /\ j.event.entry.acks[p] >= rank
  <2>1. PICK j \in J[Author] : a \notin j.seen /\ j.event.msg = m /\ j.event.entry.acks[p] >= rank
    BY <1>5
  <2>2. j.event \in Event
    BY AuthorDevices DEF JournalSound, EventSound
  <2>3. Heard(E, a, j.event) \/ \E k \in K[Author] : a \notin k.seen /\ k.event = j.event
    BY <2>1 DEF JournalKept
  <2> QED BY <1>3, <2>1, <2>2, <2>3
<1> QED BY <1>2, <1>4, <1>5 DEF Source

LEMMA EverywhereStays ==
  ASSUME NEW D, NEW J, DevicesSound(D), JournalSound(D, J),
         NEW E, NEW K, E \in [Device -> State], Step(D, E),
         QueuesKept(D, E, K), JournalKept(J, E, K),
         NEW m \in Msg, NEW acks, \A p \in Peers : acks[p] \in Nat, Everywhere(D, J, m, acks)
  PROVE  Everywhere(E, K, m, acks)
BY SourcesStay DEF Everywhere

\* What is queued or journaled can be heard everywhere.
LEMMA QueuedEverywhere ==
  ASSUME NEW D, NEW J, DevicesSound(D), Agreeing(D, J),
         NEW c \in DevicesOf(Author), NEW e, e \in D[c].queue
  PROVE  Everywhere(D, J, e.msg, e.entry.acks)
<1>1. D \in [Device -> State] /\ e \in Event /\ c \in Device /\ Heard(D, c, e)
  BY AuthorDevices, StateParts DEF DevicesSound, Agreeing
<1>2. \A p \in Peers : e.entry.acks[p] \in Nat /\ e.entry.acks[p] >= e.entry.acks[p]
  BY <1>1, EntryParts DEF Event
<1>3. \A p \in Peers : Source(D, J, c, e.msg, p, e.entry.acks[p])
  BY <1>1, <1>2, HeardIsSource
<1>4. \A a \in DevicesOf(Author) \ {c}, p \in Peers : Source(D, J, a, e.msg, p, e.entry.acks[p])
  BY <1>2 DEF Source
<1> QED BY <1>3, <1>4 DEF Everywhere

LEMMA JournaledEverywhere ==
  ASSUME NEW D, NEW J, DevicesSound(D), JournalSound(D, J), Agreeing(D, J), NEW j \in J[Author]
  PROVE  Everywhere(D, J, j.event.msg, j.event.entry.acks)
<1>1. D \in [Device -> State] /\ j.event \in Event
  BY AuthorDevices DEF DevicesSound, JournalSound, EventSound
<1>2. PICK e \in Event : e = j.event
  BY <1>1
<1>3. \A p \in Peers : e.entry.acks[p] \in Nat /\ e.entry.acks[p] >= e.entry.acks[p]
  BY EntryParts DEF Event
<1>4. ASSUME NEW a \in DevicesOf(Author), NEW p \in Peers
      PROVE  Source(D, J, a, e.msg, p, e.entry.acks[p])
  <2>1. CASE a \in j.seen
    <3>1. Heard(D, a, e)
      BY <1>2, <2>1 DEF Agreeing
    <3> QED BY <1>1, <1>3, <3>1, HeardIsSource
  <2>2. CASE a \notin j.seen
    BY <1>2, <1>3, <2>2 DEF Source
  <2> QED BY <2>1, <2>2
<1> QED BY <1>2, <1>4 DEF Everywhere

\* What a device has announced can be heard everywhere.
LEMMA AnnouncedEverywhere ==
  ASSUME NEW E, NEW K, NEW d \in DevicesOf(Author), NEW m \in Msg, E[d].log[m] \in Entry,
         Linked(d) # {} => [msg |-> m, entry |-> E[d].log[m]] \in E[d].queue
  PROVE  Everywhere(E, K, m, E[d].log[m].acks)
<1>1. PICK e \in Entry : e = E[d].log[m]
  OBVIOUS
<1>2. \A p \in Peers : e.acks[p] >= e.acks[p]
  BY EntryParts
<1>3. ASSUME NEW a \in DevicesOf(Author), NEW p \in Peers PROVE Source(E, K, a, m, p, e.acks[p])
  <2>1. CASE a = d
    BY <1>1, <1>2, <2>1, EntryParts DEF Source
  <2>2. CASE a # d
    <3>1. a \in Linked(d)
      BY <2>2, AuthorDevices DEF Linked
    <3>2. PICK v : v = [msg |-> m, entry |-> e]
      OBVIOUS
    <3>3. v \in E[d].queue /\ v.msg = m /\ v.entry = e
      BY <1>1, <3>1, <3>2
    <3> QED BY <1>2, <2>2, <3>3 DEF Source
  <2> QED BY <2>1, <2>2
<1> QED BY <1>1, <1>3 DEF Everywhere

\* A row that changes: it says what is known everywhere, or has not been sent.
NewRow(E, K, d, m) ==
  /\ Exact(E[d].log[m])
  /\ \/ E[d].log[m].state >= Sent /\ Everywhere(E, K, m, E[d].log[m].acks)
     \/ E[d].log[m].state = Queued /\ Waits(E[d], d, m)

SameRow(D, E, d, m) ==
  /\ D[d].log[m] # None
  /\ E[d].log[m].acks = D[d].log[m].acks /\ E[d].log[m].state = D[d].log[m].state
  /\ E[d].log[m].state >= Sent \/ Waits(E[d], d, m)

\* The devices of the author after a step, row by row and event by event.
LEMMA AgreeStep ==
  ASSUME NEW D, NEW J, DevicesSound(D), JournalSound(D, J), Agreeing(D, J),
         NEW E, NEW K, E \in [Device -> State], Step(D, E),
         QueuesKept(D, E, K), JournalKept(J, E, K),
         \A d \in DevicesOf(Author), m \in Msg :
           E[d].log[m] # None => SameRow(D, E, d, m) \/ NewRow(E, K, d, m),
         \A d \in DevicesOf(Author) : \A e \in E[d].queue :
           e \in D[d].queue \/ (Fine(e.entry) /\ Heard(E, d, e)),
         \A k \in K[Author] : /\ Fine(k.event.entry)
                              /\ \A a \in DevicesOf(Author) \cap k.seen : Heard(E, a, k.event)
  PROVE  Agreeing(E, K)
<1>1. D \in [Device -> State]
  BY DEF DevicesSound
<1>2. ASSUME NEW d \in DevicesOf(Author), NEW m \in Msg
      PROVE  RowAgrees(E, K, d, m)
  <2>1. SUFFICES ASSUME E[d].log[m] # None PROVE RowAgrees(E, K, d, m)
    BY DEF RowAgrees
  <2>2. CASE SameRow(D, E, d, m)
    <3>1. PICK acks, n : /\ acks = D[d].log[m].acks /\ acks = E[d].log[m].acks
                         /\ n = D[d].log[m].state /\ n = E[d].log[m].state
      BY <2>2 DEF SameRow
    <3>2. D[d].log[m] # None /\ RowAgrees(D, J, d, m)
      BY <2>2 DEF SameRow, Agreeing
    <3>3. Exact(E[d].log[m])
      BY <3>1, <3>2 DEF RowAgrees, Exact
    <3>4. ASSUME n >= Sent PROVE Everywhere(E, K, m, acks)
      <4>1. Everywhere(D, J, m, acks)
        BY <3>1, <3>2, <3>4 DEF RowAgrees
      <4>2. \A p \in Peers : acks[p] \in Nat
        BY <1>1, <3>1, <3>2, AuthorDevices, StateParts, EntryParts
      <4> QED BY <4>1, <4>2, EverywhereStays
    <3>5. E[d].log[m].state >= Sent \/ Waits(E[d], d, m)
      BY <2>2 DEF SameRow
    <3> QED BY <3>1, <3>3, <3>4, <3>5 DEF RowAgrees
  <2>3. CASE NewRow(E, K, d, m)
    BY <2>3 DEF NewRow, RowAgrees
  <2> QED BY <2>1, <2>2, <2>3
<1>3. ASSUME NEW d \in DevicesOf(Author), NEW e, e \in E[d].queue
      PROVE  Fine(e.entry) /\ Heard(E, d, e)
  <2>1. CASE e \in D[d].queue
    <3>1. e \in Event /\ d \in Device
      BY <1>1, <1>3, <2>1, AuthorDevices, StateParts
    <3>2. Fine(e.entry) /\ Heard(D, d, e)
      BY <1>3, <2>1 DEF Agreeing
    <3> QED BY <1>1, <3>1, <3>2, HeardStays
  <2>2. CASE e \notin D[d].queue
    BY <1>3, <2>2
  <2> QED BY <2>1, <2>2
<1> QED BY <1>2, <1>3 DEF Agreeing

\* A row nobody touches.
LEMMA UntouchedRow ==
  ASSUME NEW D, NEW J, Agreeing(D, J), NEW E, NEW d \in DevicesOf(Author), NEW m \in Msg,
         E[d].log[m] = D[d].log[m], Texts(D[d], m) \subseteq Texts(E[d], m), E[d].log[m] # None
  PROVE  SameRow(D, E, d, m)
BY DEF SameRow, Agreeing, RowAgrees, Waits

\* One device of the author takes a step, and nothing leaves its queue.
LEMMA AuthorStep ==
  ASSUME NEW D, NEW J, DevicesSound(D), JournalSound(D, J), Agreeing(D, J),
         NEW d \in DevicesOf(Author), NEW t,
         NEW E, E = [D EXCEPT ![d] = t], E \in [Device -> State], Step(D, E),
         D[d].queue \subseteq t.queue,
         \A m \in Msg : t.log[m] # None => SameRow(D, E, d, m) \/ NewRow(E, J, d, m),
         \A e \in t.queue \ D[d].queue : Fine(e.entry) /\ Heard(E, d, e)
  PROVE  Agreeing(E, J)
<1>1. D \in [Device -> State] /\ d \in Device
  BY AuthorDevices DEF DevicesSound
<1>2. E[d] = t /\ \A x \in Device \ {d} : E[x] = D[x]
  BY <1>1
<1>3. QueuesKept(D, E, J) /\ JournalKept(J, E, J)
  BY <1>2, AuthorDevices DEF QueuesKept, JournalKept
<1>4. ASSUME NEW x \in DevicesOf(Author), NEW m \in Msg, E[x].log[m] # None
      PROVE  SameRow(D, E, x, m) \/ NewRow(E, J, x, m)
  <2>1. CASE x = d
    BY <1>2, <1>4, <2>1
  <2>2. CASE x # d
    <3>1. E[x] = D[x]
      BY <1>2, <2>2, AuthorDevices
    <3> QED BY <1>4, <3>1, UntouchedRow
  <2> QED BY <2>1, <2>2
<1>5. ASSUME NEW x \in DevicesOf(Author), NEW e, e \in E[x].queue
      PROVE  e \in D[x].queue \/ (Fine(e.entry) /\ Heard(E, x, e))
  <2>1. CASE x = d
    BY <1>2, <1>5, <2>1
  <2>2. CASE x # d
    BY <1>2, <1>5, <2>2, AuthorDevices
  <2> QED BY <2>1, <2>2
<1>6. ASSUME NEW k \in J[Author]
      PROVE  /\ Fine(k.event.entry)
             /\ \A a \in DevicesOf(Author) \cap k.seen : Heard(E, a, k.event)
  <2>1. k.event \in Event
    BY AuthorDevices DEF JournalSound, EventSound
  <2>2. \A a \in DevicesOf(Author) \cap k.seen : Heard(E, a, k.event)
    BY <1>1, <2>1, HeardStays, AuthorDevices DEF Agreeing
  <2> QED BY <2>2 DEF Agreeing
<1> QED BY <1>3, <1>4, <1>5, <1>6, AgreeStep

\* The devices of the author and their journal stay as they are.
LEMMA OthersStep ==
  ASSUME NEW D, NEW J, DevicesSound(D), JournalSound(D, J), Agreeing(D, J),
         NEW E, NEW K, E \in [Device -> State], Step(D, E),
         \A d \in DevicesOf(Author) : E[d] = D[d], K[Author] = J[Author]
  PROVE  Agreeing(E, K)
<1>1. QueuesKept(D, E, K) /\ JournalKept(J, E, K)
  BY DEF QueuesKept, JournalKept
<1>2. \A d \in DevicesOf(Author), m \in Msg : E[d].log[m] # None => SameRow(D, E, d, m)
  BY UntouchedRow
<1>3. \A d \in DevicesOf(Author) : \A e \in E[d].queue : e \in D[d].queue
  OBVIOUS
<1>4. \A k \in K[Author] : /\ Fine(k.event.entry)
                           /\ \A a \in DevicesOf(Author) \cap k.seen : Heard(E, a, k.event)
  BY DEF Agreeing, Heard
<1> QED BY <1>1, <1>2, <1>3, <1>4, AgreeStep

\* A device of the author announces what changed.
LEMMA NewsAgrees ==
  ASSUME NEW D, NEW J, DevicesSound(D), JournalSound(D, J), Agreeing(D, J),
         NEW d \in DevicesOf(Author), NEW u \in State, u.queue = D[d].queue,
         NEW ms \in SUBSET Msg, NEW t, t = Announced(d, u, ms),
         NEW E, E = [D EXCEPT ![d] = t], E \in [Device -> State], Step(D, E),
         \A m \in ms : u.log[m] \in Entry /\ Fine(u.log[m]),
         \A m \in Msg \ ms : u.log[m] # None => SameRow(D, E, d, m)
  PROVE  Agreeing(E, J)
<1> DEFINE News(m) == [msg |-> m, entry |-> u.log[m]]
<1>1. /\ t.log = u.log /\ u.queue \subseteq t.queue
      /\ Linked(d) # {} => \A m \in ms : News(m) \in t.queue
      /\ \A e \in t.queue \ u.queue : \E m \in ms : e = News(m)
  <2>1. CASE Linked(d) = {}
    BY <2>1 DEF Announced
  <2>2. CASE Linked(d) # {}
    <3>1. PICK new : new = {News(m) : m \in ms}
      OBVIOUS
    <3>2. t = [u EXCEPT !.queue = u.queue \cup new]
      BY <2>2, <3>1 DEF Announced
    <3>3. t.log = u.log /\ t.queue = u.queue \cup new
      BY <3>2 DEF State
    <3> QED BY <3>1, <3>3
  <2> QED BY <2>1, <2>2
<1>2. D \in [Device -> State] /\ d \in Device /\ E[d] = t
  BY AuthorDevices DEF DevicesSound
<1>3. ASSUME NEW m \in ms PROVE NewRow(E, J, d, m)
  <2>1. E[d].log[m] \in Entry /\ Fine(E[d].log[m])
    BY <1>1, <1>2
  <2>2. Linked(d) # {} => [msg |-> m, entry |-> E[d].log[m]] \in E[d].queue
    BY <1>1, <1>2
  <2>3. Everywhere(E, J, m, E[d].log[m].acks)
    BY <2>1, <2>2, AnnouncedEverywhere
  <2> QED BY <2>1, <2>3 DEF NewRow, Fine
<1>4. ASSUME NEW e, e \in t.queue \ u.queue PROVE Fine(e.entry) /\ Heard(E, d, e)
  <2>1. PICK m \in ms : e = News(m)
    BY <1>1, <1>4
  <2>2. e.msg = m /\ e.entry = u.log[m] /\ E[d].log[m] = u.log[m] /\ u.log[m] \in Entry
    BY <1>1, <1>2, <2>1
  <2> QED BY <2>2, EntryParts DEF Heard
<1>5. \A m \in Msg : t.log[m] # None => SameRow(D, E, d, m) \/ NewRow(E, J, d, m)
  BY <1>1, <1>3
<1>6. /\ D[d].queue \subseteq t.queue
      /\ \A e \in t.queue \ D[d].queue : Fine(e.entry) /\ Heard(E, d, e)
  BY <1>1, <1>4
<1> HIDE DEF News
<1> QED BY <1>5, <1>6, AuthorStep

\* Whatever a step does, the invariant holds before and after it.
Stays == /\ Sound(dev, net, journal) /\ Sound(dev', net', journal') /\ Step(dev, dev')
         /\ Counted /\ cuts' = cuts

LEMMA StaysParts ==
  ASSUME Stays
  PROVE  /\ DevicesSound(dev) /\ JournalSound(dev, journal) /\ dev \in [Device -> State]
         /\ dev' \in [Device -> State] /\ JournalSound(dev', journal') /\ Step(dev, dev')
         /\ \A d \in Device : StateSound(dev, d, dev[d])
BY DEF Stays, Sound, DevicesSound

LEMMA CommandDone ==
  ASSUME Stays, NEW d, NEW writes, NEW x, NEW y, Command(d, writes, x, y)
  PROVE  dev' = [dev EXCEPT ![d] = writes.done]
BY DEF Command, Stays, Counted

LEMMA SendAgrees ==
  ASSUME Stays, Agreeing(dev, journal), NEW m \in Msg, Send(m)
  PROVE  Agreeing(dev', journal')
<1>1. PICK D, J, E : D = dev /\ J = journal /\ E = dev' /\ journal' = J
  BY DEF Send
<1>2. /\ DevicesSound(D) /\ JournalSound(D, J) /\ Agreeing(D, J) /\ D \in [Device -> State]
      /\ E \in [Device -> State] /\ Step(D, E)
  BY <1>1, StaysParts
<1>3. PICK d \in DevicesOf(Author), s \in State : d = Writer[m] /\ s = D[d] /\ d \in Device
  BY <1>2, AuthorDevices
<1> DEFINE new == Addressed(d, Device \ DevicesOf(Author), "text", {m}, 0)
           t == [s EXCEPT !.log = [s.log EXCEPT ![m] = Written], !.outbox = s.outbox \cup new]
<1>4. E = [D EXCEPT ![d] = t]
  BY <1>1, <1>2, <1>3 DEF Send
<1>5. \E p \in new : p.msgs = {m}
  <2>1. PICK e : e \in Device \ DevicesOf(Author)
    BY ReplicasAssumption DEF DevicesOf
  <2>2. PICK p : p = [kind |-> "text", from |-> d, to |-> e, msgs |-> {m}, state |-> 0]
    OBVIOUS
  <2>3. p \in new /\ p.msgs = {m}
    BY <2>1, <2>2 DEF Addressed
  <2> QED BY <2>3
<1> HIDE DEF new
<1>6. /\ t.queue = s.queue /\ t.outbox = s.outbox \cup new
      /\ t.log[m] = Written /\ \A n \in Msg \ {m} : t.log[n] = s.log[n]
  BY StateParts DEF State
<1> HIDE DEF t
<1>7. E[d] = t /\ D[d] = s
  BY <1>2, <1>3, <1>4
<1>8. NewRow(E, J, d, m)
  <2>1. Exact(Written) /\ Written.state = Queued
    BY DEF Exact, Written
  <2>2. Waits(E[d], d, m)
    BY <1>3, <1>5, <1>6, <1>7 DEF Waits, Texts
  <2> QED BY <1>6, <1>7, <2>1, <2>2 DEF NewRow
<1>9. ASSUME NEW n \in Msg \ {m}, t.log[n] # None PROVE SameRow(D, E, d, n)
  <2>1. E[d].log[n] = D[d].log[n] /\ Texts(D[d], n) \subseteq Texts(E[d], n)
    BY <1>6, <1>7 DEF Texts
  <2> QED BY <1>2, <1>7, <1>9, <2>1, UntouchedRow
<1>10. \A n \in Msg : t.log[n] # None => SameRow(D, E, d, n) \/ NewRow(E, J, d, n)
  BY <1>8, <1>9
<1>11. D[d].queue \subseteq t.queue /\ t.queue \ D[d].queue = {}
  BY <1>6, <1>7
<1>12. Agreeing(E, J)
  BY <1>2, <1>4, <1>10, <1>11, AuthorStep
<1> QED BY <1>1, <1>12

LEMMA HandOverAgrees ==
  ASSUME Stays, Agreeing(dev, journal), NEW d \in Device, NEW p, HandOver(d, p)
  PROVE  Agreeing(dev', journal')
<1>1. PICK D, J, E : D = dev /\ J = journal /\ E = dev' /\ journal' = J
  BY DEF HandOver
<1>2. /\ DevicesSound(D) /\ JournalSound(D, J) /\ Agreeing(D, J) /\ D \in [Device -> State]
      /\ E \in [Device -> State] /\ Step(D, E)
  BY <1>1, StaysParts
<1>3. PICK s \in State : s = D[d] /\ StateSound(D, d, s) /\ p \in s.outbox
  BY <1>1, <1>2, StaysParts DEF HandOver
<1>4. PICK m \in Msg : p.msgs = {m} /\ Writer[m] = d /\ PacketSound(D, p) /\ p.kind = "text"
  BY <1>3 DEF StateSound, Own
<1>5. (CHOOSE x \in p.msgs : TRUE) = m /\ d \in DevicesOf(Author) /\ s.log[m] \in Entry
  <2>1. s.log[m] # None
    BY <1>3, <1>4 DEF PacketSound, Known
  <2> QED BY <1>4, <2>1, AuthorDevices, StateParts
<1> DEFINE last == Texts(s, m) = {p} /\ s.log[m].state = Queued
           s1 == IF last THEN [s EXCEPT !.log[m].state = Sent] ELSE s
           s2 == [s1 EXCEPT !.outbox = @ \ {p}]
           s3 == IF last THEN Announced(d, s2, {m}) ELSE s2
<1>6. E = [D EXCEPT ![d] = s3]
  <2>1. Completed(d, s, p, m).done = s3
    BY DEF Completed
  <2>2. Command(d, Completed(d, s, p, m), net \cup {p}, net \cup {p})
    BY <1>1, <1>3, <1>5 DEF HandOver
  <2>3. dev' = [dev EXCEPT ![d] = Completed(d, s, p, m).done]
    BY <2>2, CommandDone
  <2> QED BY <1>1, <2>1, <2>3
<1>7. \A n \in Msg \ {m} : Texts(s, n) = {q \in s.outbox \ {p} : q.msgs = {n}}
  BY <1>4 DEF Texts
<1>8. CASE last
  <2>1. PICK e \in Entry : e = s.log[m] /\ e.state = Queued
    BY <1>5, <1>8
  <2>2. PICK f : f = [e EXCEPT !.state = Sent]
    OBVIOUS
  <2>3. f \in Entry /\ f.state = Sent /\ f.acks = e.acks
    <3> HIDE DEF last, s1, s2, s3
    <3> QED BY <2>2 DEF Entry
  <2>4. PICK u : u = s2
    OBVIOUS
  <2>5. /\ u \in State /\ u.outbox = s.outbox \ {p} /\ u.queue = s.queue
        /\ u.log[m] = f /\ \A n \in Msg \ {m} : u.log[n] = s.log[n]
    <3>1. PICK log \in [Msg -> Entry \cup {None}] : log = [s.log EXCEPT ![m] = f]
      BY <2>3, StateParts
    <3>2. log[m] = f /\ \A n \in Msg \ {m} : log[n] = s.log[n]
      BY <3>1, StateParts
    <3>3. s1 = [s EXCEPT !.log = log]
      <4>1. [s.log EXCEPT ![m].state = Sent] = [s.log EXCEPT ![m] = f]
        BY <2>1, <2>2, StateParts
      <4> QED BY <1>8, <3>1, <4>1
    <3> HIDE DEF s1
    <3>4. s1 \in State /\ s1.log = log /\ s1.outbox = s.outbox /\ s1.queue = s.queue
      BY <3>3 DEF State
    <3>5. u = [s1 EXCEPT !.outbox = s1.outbox \ {p}]
      BY <2>4
    <3>6. u \in State /\ u.log = log /\ u.outbox = s.outbox \ {p} /\ u.queue = s.queue
      BY <3>4, <3>5 DEF State
    <3> QED BY <3>2, <3>6
  <2>6. E = [D EXCEPT ![d] = Announced(d, u, {m})]
    BY <1>6, <1>8, <2>4
  <2>7. Fine(f)
    <3>1. Exact(e)
      BY <1>2, <1>3, <1>5, <2>1, EntryParts DEF Agreeing, RowAgrees
    <3>2. e.acks = Unacknowledged
      BY <2>1, <3>1 DEF Exact, Tick
    <3> QED BY <2>3, <3>2 DEF Fine, Exact
  <2>8. PICK t : t = Announced(d, u, {m}) /\ t.log = u.log /\ t.outbox = u.outbox
    <3>1. Announced(d, u, {m}).log = u.log /\ Announced(d, u, {m}).outbox = u.outbox
      BY <2>5 DEF Announced, State
    <3> QED BY <3>1
  <2>9. E[d] = t
    BY <1>2, <2>6, <2>8
  <2>10. ASSUME NEW n \in Msg \ {m}, u.log[n] # None PROVE SameRow(D, E, d, n)
    <3>1. E[d].log[n] = D[d].log[n]
      BY <1>3, <2>5, <2>8, <2>9
    <3>2. Texts(D[d], n) \subseteq Texts(E[d], n)
      BY <1>3, <1>7, <2>5, <2>8, <2>9 DEF Texts
    <3> QED BY <1>2, <1>5, <2>5, <2>10, <3>1, <3>2, <1>3, UntouchedRow
  <2>11. \A n \in {m} : u.log[n] \in Entry /\ Fine(u.log[n])
    <3> HIDE DEF last, s1, s2, s3
    <3> QED BY <2>3, <2>5, <2>7
  <2>12. {m} \in SUBSET Msg /\ u.queue = D[d].queue /\ u \in State
    BY <1>3, <2>5
  <2>13. Agreeing(E, J)
    <3> HIDE DEF last, s1, s2, s3
    <3>1. PICK ms \in SUBSET Msg : ms = {m} /\ t = Announced(d, u, ms) /\ E = [D EXCEPT ![d] = t]
      BY <2>6, <2>8
    <3>2. /\ \A n \in ms : u.log[n] \in Entry /\ Fine(u.log[n])
          /\ \A n \in Msg \ ms : u.log[n] # None => SameRow(D, E, d, n)
      BY <2>10, <2>11, <3>1
    <3>3. u \in State /\ u.queue = D[d].queue /\ d \in DevicesOf(Author)
      BY <1>5, <2>12
    <3> QED BY <1>2, <3>1, <3>2, <3>3, NewsAgrees
  <2> QED BY <1>1, <2>13
<1>9. CASE ~last
  <2>1. PICK t : t = s3
    <3> HIDE DEF s3
    <3> QED OBVIOUS
  <2>2. t = [s EXCEPT !.outbox = s.outbox \ {p}] /\ E = [D EXCEPT ![d] = t]
    BY <1>6, <1>9, <2>1
  <2>3. t.log = s.log /\ t.outbox = s.outbox \ {p} /\ t.queue = s.queue
    BY <2>2 DEF State
  <2>4. E[d] = t /\ D[d] = s
    BY <1>2, <1>3, <2>2
  <2>5. ASSUME NEW n \in Msg \ {m}, t.log[n] # None PROVE SameRow(D, E, d, n)
    <3>1. Texts(D[d], n) \subseteq Texts(E[d], n)
      BY <1>7, <2>3, <2>4 DEF Texts
    <3> QED BY <1>2, <1>5, <2>3, <2>4, <2>5, <3>1, UntouchedRow
  <2>6. SameRow(D, E, d, m)
    <3>1. s.log[m] # None /\ RowAgrees(D, J, d, m)
      BY <1>2, <1>5, EntryParts DEF Agreeing
    <3>2. s.log[m].state >= Sent \/ Waits(s, d, m)
      BY <2>4, <3>1 DEF RowAgrees
    <3>3. s.log[m].state >= Sent \/ Waits(t, d, m)
      <4>1. CASE s.log[m].state >= Sent
        BY <4>1
      <4>2. CASE s.log[m].state = Queued /\ Texts(s, m) # {p}
        <5>1. p \in Texts(s, m)
          BY <1>3, <1>4 DEF Texts
        <5>2. PICK q \in Texts(s, m) : q # p
          BY <4>2, <5>1
        <5>3. q \in Texts(t, m)
          BY <2>3, <5>2 DEF Texts
        <5> QED BY <1>4, <5>3 DEF Waits
      <4> QED BY <1>5, <1>9, <4>1, <4>2, EntryParts
    <3> QED BY <2>3, <2>4, <3>1, <3>3 DEF SameRow
  <2>7. \A n \in Msg : t.log[n] # None => SameRow(D, E, d, n) \/ NewRow(E, J, d, n)
    BY <2>5, <2>6
  <2>8. D[d].queue \subseteq t.queue /\ t.queue \ D[d].queue = {}
    BY <2>3, <2>4
  <2>9. Agreeing(E, J)
    BY <1>2, <1>5, <2>2, <2>7, <2>8, AuthorStep
  <2> QED BY <1>1, <2>9
<1> QED BY <1>8, <1>9

\* A step of a device of somebody else.
LEMMA AwayAgrees ==
  ASSUME Stays, Agreeing(dev, journal), NEW d \in Device, ~Outgoing(d),
         NEW t, dev' = [dev EXCEPT ![d] = t], journal'[Author] = journal[Author]
  PROVE  Agreeing(dev', journal')
<1>1. PICK D, J, E, K : D = dev /\ J = journal /\ E = dev' /\ K = journal'
  OBVIOUS
<1>2. /\ DevicesSound(D) /\ JournalSound(D, J) /\ Agreeing(D, J) /\ D \in [Device -> State]
      /\ E \in [Device -> State] /\ Step(D, E)
  BY <1>1, StaysParts
<1>3. \A x \in DevicesOf(Author) : E[x] = D[x]
  BY <1>1, <1>2, AuthorDevices
<1>4. Agreeing(E, K)
  BY <1>1, <1>2, <1>3, OthersStep
<1> QED BY <1>1, <1>4

\* A receipt is applied to what it is news of, and all of that is announced.
LEMMA ReceiptAgrees ==
  ASSUME NEW D, NEW J, DevicesSound(D), JournalSound(D, J), Agreeing(D, J),
         NEW d \in DevicesOf(Author), NEW s, s = D[d],
         NEW ms, NEW a, NEW rank, AllNews(D, s, ms, a, rank),
         NEW E, E = [D EXCEPT ![d] = Announced(d, Acknowledged(s, ms, a, rank), ms)],
         E \in [Device -> State], Step(D, E)
  PROVE  Agreeing(E, J)
<1>1. /\ D \in [Device -> State] /\ d \in Device /\ s \in State /\ StateSound(D, d, s)
      /\ ms \in SUBSET Msg /\ a \in Peers /\ rank \in {Delivered, Read}
  BY AuthorDevices DEF DevicesSound, AllNews
<1>2. PICK u, t : /\ u = Acknowledged(s, ms, a, rank) /\ t = Announced(d, u, ms)
                  /\ E = [D EXCEPT ![d] = t]
  OBVIOUS
<1>3. /\ u \in State /\ \A m \in ms : u.log[m] # None
      /\ \A m \in Msg \ ms : u.log[m] = s.log[m]
  BY <1>1, <1>2, AcknowledgedFields
<1>4. u.queue = s.queue /\ u.outbox = s.outbox
  <2>1. PICK log : u = [s EXCEPT !.log = log]
    BY <1>2 DEF Acknowledged
  <2> QED BY <1>1, <2>1 DEF State
<1>5. ASSUME NEW m \in ms PROVE u.log[m] \in Entry /\ Fine(u.log[m])
  <2>1. m \in Msg /\ s.log[m] # None /\ s.log[m].acks[a] < rank
    BY <1>1 DEF AllNews
  <2>2. PICK e \in Entry : e = s.log[m]
    BY <1>1, <2>1, StateParts
  <2>3. Exact(e)
    BY <2>1, <2>2 DEF Agreeing, RowAgrees
  <2>4. PICK f : f = Refreshed([e EXCEPT !.acks[a] = rank])
    OBVIOUS
  <2>5. Fine(f)
    BY <1>1, <2>1, <2>2, <2>3, <2>4, AcknowledgedExact
  <2>6. u.log[m] = f
    <3>1. PICK log : /\ log = [n \in Msg |-> IF n \in ms
                                             THEN Refreshed([s.log[n] EXCEPT !.acks[a] = rank])
                                             ELSE s.log[n]]
                     /\ u = [s EXCEPT !.log = log]
      BY <1>2 DEF Acknowledged
    <3>2. u.log = log
      BY <1>1, <3>1 DEF State
    <3> QED BY <2>1, <2>2, <2>4, <3>1, <3>2
  <2> QED BY <1>3, <2>1, <2>5, <2>6, StateParts
<1>6. t.log = u.log /\ t.outbox = u.outbox
  BY <1>2, <1>3 DEF Announced, State
<1>7. ASSUME NEW m \in Msg \ ms, u.log[m] # None PROVE SameRow(D, E, d, m)
  <2>1. E[d] = t
    BY <1>1, <1>2
  <2>2. E[d].log[m] = D[d].log[m]
    BY <1>3, <1>6, <2>1
  <2>3. Texts(D[d], m) \subseteq Texts(E[d], m)
    BY <1>4, <1>6, <2>1 DEF Texts
  <2> QED BY <1>3, <1>7, <2>2, <2>3, UntouchedRow
<1>8. u.queue = D[d].queue
  BY <1>4
<1> QED BY <1>1, <1>2, <1>3, <1>5, <1>7, <1>8, NewsAgrees

LEMMA ReceiveAgrees ==
  ASSUME Stays, Agreeing(dev, journal), NEW d \in Device, NEW p, Receive(d, p)
  PROVE  Agreeing(dev', journal')
<1>1. PICK D, J, E : D = dev /\ J = journal /\ E = dev' /\ journal' = J
  BY DEF Receive
<1>2. /\ DevicesSound(D) /\ JournalSound(D, J) /\ Agreeing(D, J) /\ D \in [Device -> State]
      /\ E \in [Device -> State] /\ Step(D, E)
  BY <1>1, StaysParts
<1>3. PICK s \in State : s = D[d]
  BY <1>2
<1>4. PacketSound(D, p) /\ p.to = d
  BY <1>1 DEF Receive, Stays, Sound, NetSound
<1>5. PICK t : t = Handled(d, s, p).done /\ E = [D EXCEPT ![d] = t]
  <2>1. Command(d, Handled(d, s, p), net, net \ {p})
    BY <1>1, <1>3 DEF Receive
  <2> QED BY <1>1, <2>1, CommandDone
<1>6. CASE ~Outgoing(d)
  BY <1>1, <1>5, <1>6, AwayAgrees
<1>7. CASE Outgoing(d)
  <2>1. p.kind = "receipt"
    BY <1>4, <1>7 DEF PacketSound, Packet
  <2>2. /\ ~Outgoing(p.from) /\ p.from \in Device /\ p.msgs \subseteq Msg
        /\ p.state \in {Delivered, Read}
    BY <1>4, <2>1 DEF PacketSound, Packet
  <2>3. PICK a \in Peers, rank \in {Delivered, Read} :
          a = AccountOf[p.from] /\ rank = p.state /\ p.from \in DevicesOf(a)
    BY <2>2, PeersType
  <2>4. PICK new : new = {m \in p.msgs : s.log[m] # None /\ s.log[m].acks[a] < rank}
    OBVIOUS
  <2>5. t = Announced(d, Acknowledged(s, new, a, rank), new)
    <3>1. t = OnReceipt(d, s, p).done
      BY <1>5, <2>1 DEF Handled
    <3> QED BY <2>3, <2>4, <3>1 DEF OnReceipt
  <2>6. \A m \in p.msgs : Truth(D, m, a, rank)
    BY <1>4, <2>1, <2>3 DEF PacketSound, Truth
  <2>7. AllNews(D, s, new, a, rank)
    BY <2>2, <2>4, <2>6 DEF AllNews
  <2>8. d \in DevicesOf(Author)
    BY <1>7, AuthorDevices
  <2>9. E = [D EXCEPT ![d] = Announced(d, Acknowledged(s, new, a, rank), new)]
    BY <1>5, <2>5
  <2>10. Agreeing(E, J)
    BY <1>2, <1>3, <2>7, <2>8, <2>9, ReceiptAgrees
  <2> QED BY <1>1, <2>10
<1> QED BY <1>6, <1>7

LEMMA FlushAgrees ==
  ASSUME Stays, Agreeing(dev, journal), NEW d \in Device, NEW rank, Flush(d, rank)
  PROVE  Agreeing(dev', journal')
<1>1. ~Outgoing(d)
  BY DEF Flush, Due
<1>2. PICK t : dev' = [dev EXCEPT ![d] = t] /\ journal' = journal
  BY CommandDone DEF Flush
<1> QED BY <1>1, <1>2, AwayAgrees

LEMMA MarkReadAgrees ==
  ASSUME Stays, Agreeing(dev, journal), NEW d \in Device, MarkRead(d)
  PROVE  Agreeing(dev', journal')
<1>1. PICK D, J, E : D = dev /\ J = journal /\ E = dev' /\ journal' = J
  BY DEF MarkRead
<1>2. /\ DevicesSound(D) /\ JournalSound(D, J) /\ Agreeing(D, J) /\ D \in [Device -> State]
      /\ E \in [Device -> State] /\ Step(D, E)
  BY <1>1, StaysParts
<1>3. PICK s \in State : s = D[d]
  BY <1>2
<1> DEFINE unread == {m \in Msg : s.log[m] # None /\ ~s.log[m].read}
           log == [m \in Msg |-> IF m \in unread THEN [s.log[m] EXCEPT !.read = TRUE]
                                 ELSE s.log[m]]
<1>4. PICK t : t = [s EXCEPT !.log = log] /\ E = [D EXCEPT ![d] = t]
  BY <1>1, <1>2, <1>3 DEF MarkRead
<1>5. CASE ~Outgoing(d)
  BY <1>1, <1>4, <1>5, AwayAgrees
<1>6. CASE Outgoing(d)
  <2>1. t.log = log /\ t.outbox = s.outbox /\ t.queue = s.queue
    BY <1>4 DEF State
  <2>2. ASSUME NEW m \in Msg, log[m] # None
        PROVE  s.log[m] # None /\ log[m].state = s.log[m].state /\ log[m].acks = s.log[m].acks
    <3>1. CASE m \in unread
      <4>1. PICK e \in Entry : e = s.log[m]
        BY <3>1, StateParts
      <4>2. PICK f : f = [e EXCEPT !.read = TRUE]
        OBVIOUS
      <4>3. f.state = e.state /\ f.acks = e.acks
        BY <4>2 DEF Entry
      <4>4. log[m] = f
        BY <3>1, <4>1, <4>2
      <4> QED BY <3>1, <4>1, <4>3, <4>4
    <3>2. CASE m \notin unread
      BY <2>2, <3>2
    <3> QED BY <3>1, <3>2
  <2> HIDE DEF log, unread
  <2>3. d \in DevicesOf(Author) /\ E[d] = t
    BY <1>2, <1>4, <1>6, AuthorDevices
  <2>4. ASSUME NEW m \in Msg, t.log[m] # None PROVE SameRow(D, E, d, m)
    <3>1. s.log[m] # None /\ t.log[m].state = s.log[m].state /\ t.log[m].acks = s.log[m].acks
      BY <2>1, <2>2, <2>4
    <3>2. s.log[m].state >= Sent \/ Waits(s, d, m)
      BY <1>2, <1>3, <2>3, <3>1 DEF Agreeing, RowAgrees
    <3>3. Texts(t, m) = Texts(s, m)
      BY <2>1 DEF Texts
    <3> QED BY <1>3, <2>3, <3>1, <3>2, <3>3 DEF SameRow, Waits
  <2>5. D[d].queue \subseteq t.queue /\ t.queue \ D[d].queue = {}
    BY <1>3, <2>1
  <2>6. Agreeing(E, J)
    BY <1>2, <1>4, <2>3, <2>4, <2>5, AuthorStep
  <2> QED BY <1>1, <2>6
<1> QED BY <1>5, <1>6

\* A copy of a message is merged: the device knows then what the copy says.
LEMMA UpsertedLog ==
  ASSUME NEW s \in State, NEW e \in Event, Fine(e.entry),
         s.log[e.msg] # None => Exact(s.log[e.msg]),
         NEW t, t = Upserted(s, e)
  PROVE  /\ t.queue = s.queue /\ t.outbox = s.outbox
         /\ \A n \in Msg \ {e.msg} : t.log[n] = s.log[n]
         /\ t.log[e.msg] \in Entry /\ Fine(t.log[e.msg])
         /\ \A p \in Peers : t.log[e.msg].acks[p] =
              IF s.log[e.msg] = None THEN e.entry.acks[p]
              ELSE Higher(s.log[e.msg].acks[p], e.entry.acks[p])
<1>1. PICK m \in Msg, g \in Entry : m = e.msg /\ g = e.entry
  BY DEF Event
<1>2. PICK f : f = IF s.log[m] = None THEN g ELSE Merged(s.log[m], g)
  OBVIOUS
<1>3. /\ f \in Entry /\ Fine(f)
      /\ \A p \in Peers : f.acks[p] = IF s.log[m] = None THEN g.acks[p]
                                      ELSE Higher(s.log[m].acks[p], g.acks[p])
  <2>1. CASE s.log[m] = None
    BY <1>1, <1>2, <2>1
  <2>2. CASE s.log[m] # None
    <3>1. PICK old \in Entry : old = s.log[m] /\ Exact(old)
      BY <1>1, <2>2, StateParts
    <3> QED BY <1>1, <1>2, <2>2, <3>1, MergedExact
  <2> QED BY <2>1, <2>2
<1>4. PICK log : log = [s.log EXCEPT ![m] = f]
  OBVIOUS
<1>5. t = [s EXCEPT !.log = log]
  BY <1>1, <1>2, <1>4 DEF Upserted
<1>6. t.log = log /\ t.queue = s.queue /\ t.outbox = s.outbox
  BY <1>5 DEF State
<1>7. log[m] = f /\ \A n \in Msg \ {m} : log[n] = s.log[n]
  BY <1>4, StateParts
<1> QED BY <1>1, <1>3, <1>6, <1>7

\* On a device of the author, which knew as much before as it says everywhere.
LEMMA UpsertHeard ==
  ASSUME NEW D, NEW J, DevicesSound(D), Agreeing(D, J), NEW x \in DevicesOf(Author),
         NEW e \in Event, Fine(e.entry), NEW E, E[x] = Upserted(D[x], e)
  PROVE  /\ E[x].queue = D[x].queue /\ E[x].outbox = D[x].outbox
         /\ \A n \in Msg \ {e.msg} : E[x].log[n] = D[x].log[n]
         /\ E[x].log[e.msg] \in Entry /\ Fine(E[x].log[e.msg])
         /\ \A p \in Peers : E[x].log[e.msg].acks[p] =
              IF D[x].log[e.msg] = None THEN e.entry.acks[p]
              ELSE Higher(D[x].log[e.msg].acks[p], e.entry.acks[p])
         /\ Heard(E, x, e)
<1>1. PICK s \in State, t \in {E[x]} : s = D[x] /\ t = E[x]
  BY AuthorDevices DEF DevicesSound
<1>2. PICK m \in Msg, g \in Entry : m = e.msg /\ g = e.entry
  BY DEF Event
<1>3. s.log[m] # None => Exact(s.log[m])
  BY <1>1 DEF Agreeing, RowAgrees
<1>4. /\ t.queue = s.queue /\ t.outbox = s.outbox
      /\ \A n \in Msg \ {m} : t.log[n] = s.log[n]
      /\ t.log[m] \in Entry /\ Fine(t.log[m])
      /\ \A p \in Peers : t.log[m].acks[p] =
           IF s.log[m] = None THEN g.acks[p] ELSE Higher(s.log[m].acks[p], g.acks[p])
  BY <1>1, <1>2, <1>3, UpsertedLog
<1>5. \A p \in Peers : t.log[m].acks[p] >= g.acks[p]
  <2>1. ASSUME NEW p \in Peers PROVE t.log[m].acks[p] >= g.acks[p]
    <3>1. CASE s.log[m] = None
      BY <1>4, <3>1, EntryParts
    <3>2. CASE s.log[m] # None
      <4>1. s.log[m].acks[p] \in Nat /\ g.acks[p] \in Nat
        BY <3>2, StateParts, EntryParts
      <4> QED BY <1>4, <3>2, <4>1 DEF Higher
    <3> QED BY <3>1, <3>2
  <2> QED BY <2>1
<1>6. Heard(E, x, e)
  BY <1>1, <1>2, <1>4, <1>5, EntryParts DEF Heard
<1> QED BY <1>1, <1>2, <1>4, <1>6

\* What both the copy and the device said everywhere can be heard, so can what they say now.
LEMMA UpsertedRow ==
  ASSUME NEW D, NEW J, DevicesSound(D), JournalSound(D, J), Agreeing(D, J),
         NEW E, NEW K, E \in [Device -> State], Step(D, E),
         QueuesKept(D, E, K), JournalKept(J, E, K),
         NEW x \in DevicesOf(Author), NEW e \in Event, Fine(e.entry),
         Everywhere(D, J, e.msg, e.entry.acks), E[x] = Upserted(D[x], e)
  PROVE  \A m \in Msg : E[x].log[m] # None => SameRow(D, E, x, m) \/ NewRow(E, K, x, m)
<1>1. PICK m \in Msg, g \in Entry : m = e.msg /\ g = e.entry
  BY DEF Event
<1>2. /\ E[x].outbox = D[x].outbox
      /\ \A n \in Msg \ {m} : E[x].log[n] = D[x].log[n]
      /\ E[x].log[m] \in Entry /\ Fine(E[x].log[m])
      /\ \A p \in Peers : E[x].log[m].acks[p] =
           IF D[x].log[m] = None THEN g.acks[p] ELSE Higher(D[x].log[m].acks[p], g.acks[p])
  BY <1>1, UpsertHeard
<1>3. ASSUME NEW n \in Msg \ {m}, E[x].log[n] # None PROVE SameRow(D, E, x, n)
  <2>1. E[x].log[n] = D[x].log[n] /\ Texts(D[x], n) \subseteq Texts(E[x], n)
    BY <1>2 DEF Texts
  <2> QED BY <1>3, <2>1, UntouchedRow
<1>4. PICK acks : acks = E[x].log[m].acks
  OBVIOUS
<1>5. \A p \in Peers : g.acks[p] \in Nat
  BY EntryParts
<1>6. Everywhere(E, K, m, g.acks)
  BY <1>1, <1>5, EverywhereStays
<1>7. Everywhere(E, K, m, acks)
  <2>1. CASE D[x].log[m] = None
    BY <1>2, <1>4, <1>6, <2>1 DEF Everywhere
  <2>2. CASE D[x].log[m] # None
    <3>1. PICK old \in Entry : old = D[x].log[m] /\ RowAgrees(D, J, x, m)
      BY <2>2, AuthorDevices, StateParts DEF Agreeing, DevicesSound
    <3>2. \A p \in Peers : old.acks[p] \in Nat
      BY EntryParts
    <3>3. CASE old.state >= Sent
      <4>1. Everywhere(D, J, m, old.acks)
        BY <2>2, <3>1, <3>3 DEF RowAgrees
      <4>2. Everywhere(E, K, m, old.acks)
        BY <3>2, <4>1, EverywhereStays
      <4>3. \A p \in Peers : acks[p] = old.acks[p] \/ acks[p] = g.acks[p]
        BY <1>2, <1>4, <2>2, <3>1 DEF Higher
      <4> QED BY <1>6, <4>2, <4>3 DEF Everywhere
    <3>4. CASE old.state < Sent
      <4>1. old.acks = Unacknowledged
        BY <2>2, <3>1, <3>4 DEF RowAgrees, Exact, Tick
      <4>2. \A p \in Peers : old.acks[p] = 0
        BY <4>1 DEF Unacknowledged
      <4>3. \A p \in Peers : acks[p] = g.acks[p]
        BY <1>2, <1>4, <1>5, <2>2, <3>1, <4>2 DEF Higher
      <4> QED BY <1>6, <4>3 DEF Everywhere
    <3> QED BY <3>3, <3>4, EntryParts
  <2> QED BY <2>1, <2>2
<1>8. NewRow(E, K, x, m)
  BY <1>2, <1>4, <1>7 DEF NewRow, Fine
<1> QED BY <1>3, <1>8

LEMMA TransmitAgrees ==
  ASSUME Stays, Agreeing(dev, journal), NEW d \in Device, NEW e, Transmit(d, e)
  PROVE  Agreeing(dev', journal')
<1> AccountOf[d] \in Account
  BY ReplicasAssumption
<1>1. PICK D, J, E, K, s, a : /\ D = dev /\ J = journal /\ E = dev' /\ K = journal'
                              /\ s = D[d] /\ a = AccountOf[d] /\ a \in Account
  OBVIOUS
<1>2. /\ DevicesSound(D) /\ JournalSound(D, J) /\ Agreeing(D, J) /\ D \in [Device -> State]
      /\ E \in [Device -> State] /\ Step(D, E) /\ s \in State /\ J \in [Account -> SUBSET Copy]
  BY <1>1, StaysParts DEF JournalSound
<1>3. e \in s.queue /\ e \in Event
  BY <1>1, <1>2, StateParts DEF Transmit
<1>4. PICK c : c = [event |-> e, seen |-> {d}]
  OBVIOUS
<1>5. PICK heard \in SUBSET Linked(d), stored \in BOOLEAN, known \in BOOLEAN :
        /\ known => heard = Linked(d) \/ stored
        /\ K = IF stored THEN [J EXCEPT ![a] = @ \cup {c}] ELSE J
        /\ E = [x \in Device |->
              IF x = d THEN [s EXCEPT !.queue = IF known THEN @ \ {e} ELSE @]
              ELSE IF x \in heard THEN Upserted(D[x], e) ELSE D[x]]
  BY <1>1, <1>4 DEF Transmit
<1>6. CASE a # Author
  <2>1. \A x \in DevicesOf(Author) : E[x] = D[x]
    <3>1. \A x \in DevicesOf(Author) : x \in Device /\ x # d /\ x \notin heard
      BY <1>1, <1>6, AuthorDevices DEF Linked, DevicesOf
    <3> QED BY <1>5, <3>1
  <2>2. K[Author] = J[Author]
    BY <1>2, <1>5, <1>6, AuthorDevices
  <2>3. Agreeing(E, K)
    BY <1>2, <2>1, <2>2, OthersStep
  <2> QED BY <1>1, <2>3
<1>7. CASE a = Author
  <2>1. d \in DevicesOf(Author) /\ \A x \in DevicesOf(Author) : x \in Device
    BY <1>1, <1>7, AuthorDevices DEF DevicesOf
  <2>2. Fine(e.entry) /\ Heard(D, d, e) /\ Everywhere(D, J, e.msg, e.entry.acks)
    BY <1>1, <1>2, <1>3, <2>1, QueuedEverywhere DEF Agreeing
  <2>3. /\ E[d].log = s.log /\ E[d].outbox = s.outbox
        /\ E[d].queue = IF known THEN s.queue \ {e} ELSE s.queue
    <3>1. E[d] = [s EXCEPT !.queue = IF known THEN s.queue \ {e} ELSE s.queue]
      BY <1>5
    <3> QED BY <1>2, <3>1 DEF State
  <2>4. ASSUME NEW x \in heard
        PROVE  /\ x \in DevicesOf(Author) /\ E[x] = Upserted(D[x], e)
               /\ E[x].queue = D[x].queue /\ Heard(E, x, e)
    <3>1. x \in DevicesOf(Author) /\ E[x] = Upserted(D[x], e)
      BY <1>1, <1>5, <1>7 DEF Linked, DevicesOf
    <3> QED BY <1>2, <1>3, <2>2, <3>1, UpsertHeard
  <2>5. \A x \in DevicesOf(Author) \ ({d} \cup heard) : E[x] = D[x]
    BY <1>5, <2>1
  <2>6. K[Author] = IF stored THEN J[Author] \cup {c} ELSE J[Author]
    BY <1>2, <1>5, <1>7, AuthorDevices
  <2>7. QueuesKept(D, E, K)
    <3>1. SUFFICES ASSUME NEW x \in DevicesOf(Author), NEW f \in D[x].queue \ E[x].queue,
                          NEW y \in DevicesOf(Author) \ {x}
                   PROVE  Heard(E, y, f) \/ \E k \in K[Author] : y \notin k.seen /\ k.event = f
      BY DEF QueuesKept
    <3>2. x = d
      BY <2>4, <2>5
    <3>3. f = e /\ known
      BY <1>1, <2>3, <3>2
    <3>4. y \in Linked(d)
      BY <1>1, <1>7, <3>2 DEF Linked
    <3>5. CASE stored
      <4>1. c \in K[Author] /\ y \notin c.seen /\ c.event = f
        BY <1>4, <2>6, <3>2, <3>3, <3>5
      <4> QED BY <4>1
    <3>6. CASE heard = Linked(d)
      BY <2>4, <3>3, <3>4, <3>6
    <3> QED BY <1>5, <3>3, <3>5, <3>6
  <2>8. JournalKept(J, E, K)
    BY <2>6 DEF JournalKept
  <2>9. ASSUME NEW x \in DevicesOf(Author), NEW m \in Msg, E[x].log[m] # None
        PROVE  SameRow(D, E, x, m) \/ NewRow(E, K, x, m)
    <3>1. CASE x \in heard
      BY <1>2, <1>3, <2>2, <2>4, <2>7, <2>8, <2>9, <3>1, UpsertedRow
    <3>2. CASE x \notin heard
      <4>1. E[x].log[m] = D[x].log[m] /\ E[x].outbox = D[x].outbox
        BY <1>1, <2>3, <2>5, <3>2
      <4>2. Texts(D[x], m) \subseteq Texts(E[x], m)
        BY <4>1 DEF Texts
      <4> QED BY <1>2, <2>9, <4>1, <4>2, UntouchedRow
    <3> QED BY <3>1, <3>2
  <2>10. \A x \in DevicesOf(Author) : \A f \in E[x].queue : f \in D[x].queue
    BY <1>1, <2>3, <2>4, <2>5
  <2>11. ASSUME NEW k \in K[Author]
         PROVE  /\ Fine(k.event.entry)
                /\ \A x \in DevicesOf(Author) \cap k.seen : Heard(E, x, k.event)
    <3>1. CASE k \in J[Author]
      <4>1. k.event \in Event
        BY <1>2, <3>1, AuthorDevices DEF JournalSound, EventSound
      <4> QED BY <1>2, <2>1, <3>1, <4>1, HeardStays DEF Agreeing
    <3>2. CASE k = c
      <4>1. Heard(E, d, e)
        BY <1>2, <1>3, <2>1, <2>2, HeardStays
      <4> QED BY <1>4, <2>2, <3>2, <4>1
    <3> QED BY <2>6, <3>1, <3>2
  <2>12. Agreeing(E, K)
    BY <1>2, <2>7, <2>8, <2>9, <2>10, <2>11, AgreeStep
  <2> QED BY <1>1, <2>12
<1> QED BY <1>6, <1>7

LEMMA ReadJournalAgrees ==
  ASSUME Stays, Agreeing(dev, journal), NEW d \in Device, NEW j, ReadJournal(d, j)
  PROVE  Agreeing(dev', journal')
<1> AccountOf[d] \in Account
  BY ReplicasAssumption
<1>1. PICK D, J, E, K, s, a : /\ D = dev /\ J = journal /\ E = dev' /\ K = journal'
                              /\ s = D[d] /\ a = AccountOf[d] /\ a \in Account
  OBVIOUS
<1>2. /\ DevicesSound(D) /\ JournalSound(D, J) /\ Agreeing(D, J) /\ D \in [Device -> State]
      /\ E \in [Device -> State] /\ Step(D, E) /\ J \in [Account -> SUBSET Copy]
  BY <1>1, StaysParts DEF JournalSound
<1>3. j \in J[a] /\ j \in Copy
  BY <1>1, <1>2 DEF ReadJournal
<1>4. PICK c : c = [j EXCEPT !.seen = j.seen \cup {d}]
  OBVIOUS
<1>5. E = [D EXCEPT ![d] = Upserted(s, j.event)] /\ K = [J EXCEPT ![a] = (J[a] \ {j}) \cup {c}]
  BY <1>1, <1>2, <1>4 DEF ReadJournal
<1>6. CASE a # Author
  <2>1. ~Outgoing(d)
    BY <1>1, <1>6 DEF Outgoing
  <2>2. K[Author] = J[Author]
    BY <1>2, <1>5, <1>6, AuthorDevices
  <2>3. PICK t : dev' = [dev EXCEPT ![d] = t]
    BY <1>1, <1>5
  <2>4. journal'[Author] = journal[Author]
    BY <1>1, <2>2
  <2> QED BY <2>1, <2>3, <2>4, AwayAgrees
<1>7. CASE a = Author
  <2>1. d \in DevicesOf(Author) /\ \A x \in DevicesOf(Author) : x \in Device
    BY <1>1, <1>7, AuthorDevices DEF DevicesOf
  <2>2. PICK e \in Event : e = j.event /\ c.event = e /\ c.seen = j.seen \cup {d}
    BY <1>3, <1>4 DEF Copy
  <2>3. Fine(e.entry) /\ Everywhere(D, J, e.msg, e.entry.acks)
    BY <1>2, <1>3, <1>7, <2>2, JournaledEverywhere DEF Agreeing
  <2>4. E[d] = Upserted(D[d], e) /\ \A x \in Device \ {d} : E[x] = D[x]
    BY <1>1, <1>2, <1>5, <2>2
  <2>5. E[d].queue = D[d].queue /\ Heard(E, d, e)
    BY <1>2, <2>1, <2>3, <2>4, UpsertHeard
  <2>6. K[Author] = (J[Author] \ {j}) \cup {c}
    BY <1>2, <1>5, <1>7, AuthorDevices
  <2>7. \A x \in DevicesOf(Author) : E[x].queue = D[x].queue
    BY <2>1, <2>4, <2>5
  <2>8. QueuesKept(D, E, K)
    BY <2>7 DEF QueuesKept
  <2>9. JournalKept(J, E, K)
    <3>1. SUFFICES ASSUME NEW i \in J[Author], NEW y \in DevicesOf(Author) \ i.seen
                   PROVE  \/ Heard(E, y, i.event)
                          \/ \E k \in K[Author] : y \notin k.seen /\ k.event = i.event
      BY DEF JournalKept
    <3>2. CASE i # j
      BY <2>6, <3>2
    <3>3. CASE i = j /\ y = d
      BY <2>2, <2>5, <3>3
    <3>4. CASE i = j /\ y # d
      <4>1. c \in K[Author] /\ y \notin c.seen /\ c.event = i.event
        BY <2>2, <2>6, <3>4
      <4> QED BY <4>1
    <3> QED BY <3>2, <3>3, <3>4
  <2>10. ASSUME NEW x \in DevicesOf(Author), NEW m \in Msg, E[x].log[m] # None
         PROVE  SameRow(D, E, x, m) \/ NewRow(E, K, x, m)
    <3>1. CASE x = d
      <4>1. \A n \in Msg : E[d].log[n] # None => SameRow(D, E, d, n) \/ NewRow(E, K, d, n)
        BY <1>2, <2>1, <2>3, <2>4, <2>8, <2>9, UpsertedRow
      <4> QED BY <2>10, <3>1, <4>1
    <3>2. CASE x # d
      <4>1. E[x] = D[x]
        BY <2>1, <2>4, <3>2
      <4> QED BY <1>2, <2>10, <4>1, UntouchedRow
    <3> QED BY <3>1, <3>2
  <2>11. ASSUME NEW k \in K[Author]
         PROVE  /\ Fine(k.event.entry)
                /\ \A x \in DevicesOf(Author) \cap k.seen : Heard(E, x, k.event)
    <3>1. ASSUME NEW i \in J[Author]
          PROVE  /\ Fine(i.event.entry)
                 /\ \A x \in DevicesOf(Author) \cap i.seen : Heard(E, x, i.event)
      <4>1. i.event \in Event
        BY <1>2, AuthorDevices DEF JournalSound, EventSound
      <4> QED BY <1>2, <2>1, <4>1, HeardStays DEF Agreeing
    <3>2. CASE k \in J[Author]
      BY <3>1, <3>2
    <3>3. CASE k = c
      BY <1>3, <1>7, <2>2, <2>5, <3>1, <3>3
    <3> QED BY <2>6, <3>2, <3>3
  <2>12. Agreeing(E, K)
    BY <1>2, <2>7, <2>8, <2>9, <2>10, <2>11, AgreeStep
  <2> QED BY <1>1, <2>12
<1> QED BY <1>6, <1>7

\* A copy expires when all have read it.
LEMMA ExpireAgrees ==
  ASSUME Stays, Agreeing(dev, journal), NEW a \in Account, NEW j, Expire(a, j)
  PROVE  Agreeing(dev', journal')
<1>1. PICK D, J, K : D = dev /\ J = journal /\ dev' = D /\ K = journal'
  BY DEF Expire
<1>2. /\ DevicesSound(D) /\ JournalSound(D, J) /\ Agreeing(D, J) /\ D \in [Device -> State]
      /\ Step(D, D) /\ J \in [Account -> SUBSET Copy]
  BY <1>1, StaysParts DEF JournalSound
<1>3. j \in J[a] /\ j.seen = DevicesOf(a) /\ K = [J EXCEPT ![a] = @ \ {j}]
  BY <1>1 DEF Expire
<1>4. K[Author] = IF a = Author THEN J[Author] \ {j} ELSE J[Author]
  BY <1>2, <1>3, AuthorDevices
<1>5. QueuesKept(D, D, K) /\ JournalKept(J, D, K)
  BY <1>3, <1>4 DEF QueuesKept, JournalKept
<1>6. \A d \in DevicesOf(Author), m \in Msg : D[d].log[m] # None => SameRow(D, D, d, m)
  BY <1>2, UntouchedRow
<1>7. \A k \in K[Author] : /\ Fine(k.event.entry)
                           /\ \A x \in DevicesOf(Author) \cap k.seen : Heard(D, x, k.event)
  BY <1>2, <1>4 DEF Agreeing
<1>8. Agreeing(D, K)
  BY <1>2, <1>5, <1>6, <1>7, AgreeStep
<1> QED BY <1>1, <1>8

Agreement == cuts = 0 => Agreeing(dev, journal)

LEMMA InitAgrees == Init => Agreement
<1> SUFFICES ASSUME Init PROVE Agreeing(dev, journal)
  BY DEF Agreement
<1>1. PICK D, J : D = dev /\ J = journal
  OBVIOUS
<1>2. /\ D = [d \in Device |-> [log |-> [m \in Msg |-> None], outbox |-> {}, queue |-> {}]]
      /\ J = [a \in Account |-> {}]
  BY <1>1 DEF Init
<1>3. \A d \in DevicesOf(Author) : /\ D[d].queue = {}
                                   /\ \A m \in Msg : D[d].log[m] = None
  BY <1>2, AuthorDevices
<1>4. J[Author] = {}
  BY <1>2, AuthorDevices
<1> QED BY <1>1, <1>3, <1>4 DEF Agreeing, RowAgrees

\* As long as no command dies the devices of the author keep in agreement.
LEMMA NextAgrees == IInv /\ Agreement /\ [Next]_vars => Agreement'
<1> SUFFICES ASSUME IInv, Agreement, [Next]_vars, cuts' = 0 PROVE Agreeing(dev', journal')
  BY DEF Agreement
<1>1. cuts' = cuts
  <2>1. cuts \in Nat
    BY DEF IInv, Counted
  <2>2. cuts' = cuts \/ cuts' = cuts + 1
    <3>1. ASSUME NEW d, NEW p, HandOver(d, p) \/ Receive(d, p) \/ Flush(d, p)
          PROVE  cuts' = cuts \/ cuts' = cuts + 1
      BY <3>1 DEF HandOver, Receive, Flush, Command
    <3>2. ASSUME NEW d, NEW e, \/ Transmit(d, e) \/ ReadJournal(d, e) \/ Expire(d, e)
                               \/ Send(d) \/ MarkRead(d)
          PROVE  cuts' = cuts
      BY <3>2 DEF Transmit, ReadJournal, Expire, Send, MarkRead
    <3>3. CASE UNCHANGED vars
      BY <3>3 DEF vars
    <3> QED BY <3>1, <3>2, <3>3 DEF Next, Pass
  <2> QED BY <2>1, <2>2
<1>2. Agreeing(dev, journal)
  BY <1>1 DEF Agreement
<1>3. Stays
  <2>1. Sound(dev, net, journal) /\ Counted
    BY DEF IInv, Sound
  <2> QED BY <1>1, <2>1, NextSound DEF Stays
<1>4. ASSUME NEW m \in Msg, Send(m) PROVE Agreeing(dev', journal')
  BY <1>2, <1>3, <1>4, SendAgrees
<1>5. ASSUME NEW d \in Device, NEW p, HandOver(d, p) PROVE Agreeing(dev', journal')
  BY <1>2, <1>3, <1>5, HandOverAgrees
<1>6. ASSUME NEW d \in Device, NEW p, Receive(d, p) PROVE Agreeing(dev', journal')
  BY <1>2, <1>3, <1>6, ReceiveAgrees
<1>7. ASSUME NEW d \in Device, NEW rank, Flush(d, rank) PROVE Agreeing(dev', journal')
  BY <1>2, <1>3, <1>7, FlushAgrees
<1>8. ASSUME NEW d \in Device, NEW j, ReadJournal(d, j) PROVE Agreeing(dev', journal')
  BY <1>2, <1>3, <1>8, ReadJournalAgrees
<1>9. ASSUME NEW d \in Device, MarkRead(d) PROVE Agreeing(dev', journal')
  BY <1>2, <1>3, <1>9, MarkReadAgrees
<1>10. ASSUME NEW d \in Device, NEW e, Transmit(d, e) PROVE Agreeing(dev', journal')
  BY <1>2, <1>3, <1>10, TransmitAgrees
<1>11. ASSUME NEW a \in Account, NEW j, Expire(a, j) PROVE Agreeing(dev', journal')
  BY <1>2, <1>3, <1>11, ExpireAgrees
<1>12. CASE UNCHANGED vars
  BY <1>2, <1>12 DEF vars
<1> QED BY <1>4, <1>5, <1>6, <1>7, <1>8, <1>9, <1>10, <1>11, <1>12 DEF Next, Pass

LEMMA MaxIs ==
  ASSUME NEW S \in SUBSET Nat, NEW x \in S, \A y \in S : x >= y
  PROVE  Max(S) = x
<1>1. Max(S) \in S /\ \A y \in S : Max(S) >= y
  BY DEF Max
<1>2. PICK z \in S : z = Max(S) /\ z >= x /\ x >= z
  BY <1>1
<1> QED BY <1>2

\* What a device of the author knows of p no device of p can add to, or exceed.
LEMMA InformedBy ==
  ASSUME IInv, Quiet, NEW a \in DevicesOf(Author), NEW m \in Msg, dev[a].log[m] # None,
         dev[a].log[m].acks = dev[Writer[m]].log[m].acks
  PROVE  Informed(a, m)
<1> SUFFICES ASSUME NEW p \in Peers
             PROVE  dev[a].log[m].acks[p] =
               Max({0} \cup {dev[d].log[m].marker :
                              d \in {x \in DevicesOf(p) : dev[x].log[m] # None}})
  BY DEF Informed
<1>1. PICK D, k : D = dev /\ k = D[a].log[m].acks[p] /\ k = D[Writer[m]].log[m].acks[p]
  OBVIOUS
<1>2. PICK e \in Entry : e = D[a].log[m] /\ k = e.acks[p]
  BY <1>1, AuthorDevices, StateParts DEF IInv, DevicesSound
<1>3. k \in {0, Delivered, Read}
  BY <1>2, EntryParts
<1> DEFINE Has == {x \in DevicesOf(p) : D[x].log[m] # None}
           S == {0} \cup {D[d].log[m].marker : d \in Has}
<1>4. ASSUME NEW d \in Has
      PROVE  /\ d \in Device /\ ~Outgoing(d) /\ AccountOf[d] = p
             /\ D[d].log[m] \in Entry /\ D[d].log[m].marker \in Nat
  BY <1>1, StateParts, EntryParts DEF IInv, DevicesSound, DevicesOf, Peers, Outgoing
<1>5. ASSUME NEW d \in Has PROVE D[d].log[m].marker <= k
  <2>1. CASE D[d].log[m].marker = 0
    BY <1>3, <2>1
  <2>2. CASE D[d].log[m].marker > 0
    <3>1. ~Coming(net, AccountOf[d], Writer[m], m, D[d].log[m].marker)
      BY DEF Quiet, Coming
    <3>2. Kept(D, net)
      BY <1>1 DEF IInv
    <3>3. D[d].log[m] # None
      BY <1>4, EntryParts
    <3>4. D[Writer[m]].log[m].acks[p] >= D[d].log[m].marker
      BY <1>4, <2>2, <3>1, <3>2, <3>3 DEF Kept
    <3> QED BY <1>1, <1>3, <1>4, <3>4
  <2> QED BY <1>4, <2>1, <2>2
<1>6. ASSUME k # 0 PROVE \E d \in Has : D[d].log[m].marker = k
  <2>1. Truth(D, m, p, Claim(e, p))
    BY <1>1, <1>2, EntryParts, AuthorDevices DEF IInv, DevicesSound, StateSound, EntrySound
  <2>2. Claim(e, p) \in 0 .. Read /\ k \in 0 .. Read /\ k <= Claim(e, p)
    BY <1>2, <1>3, ClaimType, EntryParts DEF Claim, Higher
  <2>3. Truth(D, m, p, k)
    BY <2>1, <2>2, TruthLower
  <2>4. ASSUME NEW d \in Has PROVE D[d].log[m].marker >= Wanted(d, D[d].log[m])
    <3>1. PICK f \in Entry : f = D[d].log[m] /\ f # None
      BY <1>4, EntryParts
    <3>2. Wanted(d, f) \in {Delivered, Read}
      BY DEF Wanted
    <3>3. m \notin Due(d, Wanted(d, f))
      BY <1>4, <3>2 DEF Quiet
    <3> QED BY <1>1, <1>4, <3>1, <3>2, <3>3, EntryParts DEF Due
  <2>5. CASE k = Delivered
    <3>1. PICK d \in Has : TRUE
      BY <2>3, <2>5 DEF Truth
    <3>2. D[d].log[m].marker >= Delivered
      BY <1>4, <2>4 DEF Wanted
    <3> QED BY <1>4, <1>5, <2>5, <3>2
  <2>6. CASE k = Read
    <3>1. PICK d \in Has : d \in Shares /\ D[d].log[m].read
      BY <2>3, <2>6 DEF Truth
    <3>2. D[d].log[m].marker >= Read
      BY <2>4, <3>1 DEF Wanted
    <3> QED BY <1>4, <1>5, <2>6, <3>2
  <2> QED BY <1>3, <1>6, <2>5, <2>6
<1>7. S \in SUBSET Nat /\ k \in S /\ \A y \in S : k >= y
  BY <1>3, <1>4, <1>5, <1>6
<1> HIDE DEF S
<1>8. Max(S) = k
  BY <1>7, MaxIs
<1> QED BY <1>1, <1>8 DEF S

\* When nothing is under way, what one device of the author knows each of them knows.
LEMMA QuietRow ==
  ASSUME Quiet, Agreeing(dev, journal), NEW b \in DevicesOf(Author), NEW m \in Msg,
         dev[b].log[m] # None
  PROVE  /\ Exact(dev[b].log[m]) /\ dev[b].log[m].state >= Sent
         /\ \A a \in DevicesOf(Author) :
              /\ dev[a].log[m] # None
              /\ \A p \in Peers : dev[a].log[m].acks[p] >= dev[b].log[m].acks[p]
<1>1. ~Waits(dev[b], b, m)
  BY AuthorDevices DEF Quiet, Waits, Texts
<1>2. /\ Exact(dev[b].log[m]) /\ dev[b].log[m].state >= Sent
      /\ Everywhere(dev, journal, m, dev[b].log[m].acks)
  BY <1>1 DEF Agreeing, RowAgrees
<1>3. ASSUME NEW a \in DevicesOf(Author), NEW p \in Peers
      PROVE  dev[a].log[m] # None /\ dev[a].log[m].acks[p] >= dev[b].log[m].acks[p]
  BY <1>2, AuthorDevices DEF Everywhere, Source, Quiet
<1> QED BY <1>2, <1>3, PeersExist

\* Once nothing is under way, the device that wrote a message knows what each recipient
\* has of it, and unless a command died so does every device of the author.
THEOREM QuietAgrees == Spec => []QuietMeansAgreed
<1>1. IInv /\ Agreement => QuietMeansAgreed
  <2> SUFFICES ASSUME IInv, Agreement, Quiet, NEW m \in Msg, dev[Writer[m]].log[m] # None
               PROVE  /\ Informed(Writer[m], m)
                      /\ cuts = 0 => \A a \in DevicesOf(Author) :
                           /\ dev[a].log[m] # None /\ Informed(a, m)
                           /\ dev[a].log[m].state = dev[Writer[m]].log[m].state
    BY DEF QuietMeansAgreed
  <2>1. Informed(Writer[m], m)
    BY InformedBy, AuthorDevices
  <2>2. ASSUME cuts = 0, NEW a \in DevicesOf(Author)
        PROVE  /\ dev[a].log[m] # None /\ Informed(a, m)
               /\ dev[a].log[m].state = dev[Writer[m]].log[m].state
    <3>1. Agreeing(dev, journal) /\ Writer[m] \in DevicesOf(Author)
      BY <2>2, AuthorDevices DEF Agreement
    <3>2. dev[a].log[m] # None
      BY <3>1, QuietRow
    <3>3. PICK e \in Entry, f \in Entry : e = dev[a].log[m] /\ f = dev[Writer[m]].log[m]
      BY <3>1, <3>2, AuthorDevices, StateParts DEF IInv, DevicesSound
    <3>4. /\ Exact(e) /\ e.state >= Sent /\ Exact(f) /\ f.state >= Sent
          /\ \A p \in Peers : e.acks[p] >= f.acks[p] /\ f.acks[p] >= e.acks[p]
      BY <3>1, <3>2, <3>3, QuietRow
    <3>5. e.acks = f.acks
      <4>1. \A p \in Peers : e.acks[p] = f.acks[p]
        BY <3>4, EntryParts
      <4> QED BY <4>1, EntryParts
    <3>6. e.state = f.state
      BY <3>4, <3>5, EntryParts DEF Exact
    <3>7. Informed(a, m)
      BY <3>2, <3>3, <3>5, InformedBy
    <3> QED BY <3>2, <3>3, <3>6, <3>7
  <2> QED BY <2>1, <2>2
<1> QED BY InvariantHolds, InitAgrees, NextAgrees, <1>1, InitIInv, NextIInv, PTL DEF Spec
=============================================================================
