---------------------------- MODULE OutboxProofs ----------------------------
(***************************************************************************)
(* Proofs about Outbox, for any messages, entries and limits.              *)
(***************************************************************************)
EXTENDS Outbox, FiniteSetTheorems, TLAPS

(* What the files must satisfy, as a predicate of a disk d, the accepted   *)
(* messages acc, the cancelled conversations can, the entries han that     *)
(* were handed over, and the entries net that reached a worker.            *)

Gone(m, can) == ConvOf[m] \in can

DiskSound(d, acc, can, han, net) ==
  /\ d \in Disk
  /\ \A m \in Msg \ acc : d.log[m] = "absent" /\ d.torn[m] = "absent"
  /\ d.journal \in acc \cup {None}
  /\ \A e \in d.outbox : MsgOf[e] \in acc \cup LegacyMsg
  /\ \A e \in net : MsgOf[e] \in acc
  /\ d.journal # None =>
       /\ {d.log[d.journal], d.torn[d.journal]} \subseteq {"absent", BirthState(d.journal)}
       /\ EntriesOf(d.journal) \cap net = {}
  /\ \A m \in Msg : \/ Gone(m, can) \/ d.torn[m] = d.log[m] \/ m = d.journal
                    \/ d.log[m] = "queued" /\ d.torn[m] = "sent"
  /\ \A e \in net : Gone(MsgOf[e], can) \/ Recovered(d).log[MsgOf[e]] # "absent"
  /\ \A m \in Msg : Gone(m, can)
                      \/ ("sent" \in {d.log[m], d.torn[m]} => EntriesOf(m) \subseteq han)
  /\ \A m \in Msg : Recovered(d).log[m] = "queued" /\ ~Gone(m, can) =>
       /\ EntriesOf(m) \cap Recovered(d).outbox # {}
       /\ EntriesOf(m) \ han \subseteq Recovered(d).outbox
  /\ \A m \in acc : Gone(m, can) \/ Recovered(d).log[m] # "absent"

(***************************************************************************)
(* The fields of the disks the file operations produce.                    *)
(***************************************************************************)

\* A new row is queued or delivered.
LEMMA BirthStates == \A m \in Msg : BirthState(m) \in {"queued", "delivered"}
BY DEF BirthState

\* An append changes nothing but the log.
LEMMA AppendedFields ==
  ASSUME NEW d \in Disk, NEW log \in [Msg -> State]
  PROVE  /\ Appended(d, log) \in Disk
         /\ Appended(d, log).log = log /\ Appended(d, log).torn = log
         /\ Appended(d, log).journal = d.journal
         /\ Appended(d, log).outbox = d.outbox
         /\ Appended(d, log).contacts = d.contacts
BY DEF Appended, Disk

\* Replaying the intent writes the row of its message and no other.
LEMMA ReplayedType ==
  ASSUME NEW d \in Disk, d.journal # None
  PROVE  /\ Replayed(d) \in [Msg -> State]
         /\ \A m \in Msg : Replayed(d)[m] = IF m = d.journal THEN BirthState(m) ELSE d.log[m]
BY BirthStates DEF Replayed, Disk, State

\* What recover leaves: no intent, its row in the log, its entries in the outbox.
LEMMA RecoveredFields ==
  ASSUME NEW d \in Disk
  PROVE  /\ Recovered(d) \in Disk
         /\ Recovered(d).journal = None
         /\ Recovered(d).contacts = d.contacts
         /\ d.journal = None => Recovered(d) = d
         /\ d.journal # None =>
              /\ Recovered(d).outbox = d.outbox \cup EntriesOf(d.journal)
              /\ Recovered(d).log = Replayed(d) /\ Recovered(d).torn = Replayed(d)
         /\ \A m \in Msg : Recovered(d).log[m] = IF m = d.journal THEN BirthState(m) ELSE d.log[m]
<1>1. CASE d.journal = None
  BY <1>1, OutboxAssumption DEF Recovered, Disk
<1>2. CASE d.journal # None
  <2> DEFINE a == Appended(d, Replayed(d))
  <2>1. /\ a \in Disk /\ a.log = Replayed(d) /\ a.torn = Replayed(d)
        /\ a.outbox = d.outbox /\ a.contacts = d.contacts
    BY <1>2, ReplayedType, AppendedFields
  <2>2. Recovered(d) = [a EXCEPT !.outbox = d.outbox \cup EntriesOf(d.journal),
                                 !.journal = None]
    BY <1>2 DEF Recovered
  <2> HIDE DEF a
  <2>3. d.outbox \cup EntriesOf(d.journal) \in SUBSET Entry
    BY DEF Disk, EntriesOf
  <2>4. /\ Recovered(d) \in Disk
        /\ Recovered(d).journal = None
        /\ Recovered(d).contacts = d.contacts
        /\ Recovered(d).outbox = d.outbox \cup EntriesOf(d.journal)
        /\ Recovered(d).log = Replayed(d) /\ Recovered(d).torn = Replayed(d)
    BY <2>1, <2>2, <2>3 DEF Disk
  <2> QED BY <1>2, <2>4, ReplayedType
<1> QED BY <1>1, <1>2

\* However far recover got, running it again ends in the same files.
LEMMA RecoverStopsFields ==
  ASSUME NEW d \in Disk, NEW x \in RecoverStops(d)
  PROVE  /\ x \in Disk
         /\ x.journal \in {d.journal, None}
         /\ Recovered(x).log = Recovered(d).log
         /\ Recovered(x).outbox = Recovered(d).outbox
         /\ x.contacts = d.contacts
         /\ x.outbox \subseteq Recovered(d).outbox
         /\ \A m \in Msg : m # d.journal =>
              x.log[m] = d.log[m] /\ x.torn[m] \in {d.log[m], d.torn[m]}
         /\ d.journal # None =>
              {x.log[d.journal], x.torn[d.journal]}
                 \subseteq {d.log[d.journal], d.torn[d.journal], BirthState(d.journal)}
         /\ x.journal # d.journal => x.torn = x.log
<1>1. CASE d.journal = None
  BY <1>1, RecoveredFields DEF RecoverStops, Disk
<1>2. CASE d.journal # None
  <2> DEFINE logged == Appended(d, Replayed(d))
             queued == [logged EXCEPT !.outbox = @ \cup EntriesOf(d.journal)]
             unlinked == [queued EXCEPT !.journal = None]
             rolled == Appended(d, d.log)
             half == [d EXCEPT !.torn = Replayed(d)]
  <2>1. x \in {d, rolled, half, logged, queued, unlinked}
    BY <1>2 DEF RecoverStops, AppendStops
  <2>2. /\ rolled \in Disk /\ half \in Disk /\ logged \in Disk
        /\ rolled.log = d.log /\ rolled.torn = d.log /\ rolled.outbox = d.outbox
        /\ half.log = d.log /\ half.torn = Replayed(d) /\ half.outbox = d.outbox
        /\ logged.log = Replayed(d) /\ logged.torn = Replayed(d) /\ logged.outbox = d.outbox
        /\ {rolled.journal, half.journal, logged.journal} = {d.journal}
        /\ {rolled.contacts, half.contacts, logged.contacts} = {d.contacts}
    BY <1>2, ReplayedType, AppendedFields DEF Disk
  <2>3. /\ queued \in Disk /\ unlinked \in Disk
        /\ queued.log = Replayed(d) /\ queued.torn = Replayed(d)
        /\ unlinked.log = Replayed(d) /\ unlinked.torn = Replayed(d)
        /\ queued.outbox = d.outbox \cup EntriesOf(d.journal)
        /\ unlinked.outbox = d.outbox \cup EntriesOf(d.journal)
        /\ queued.journal = d.journal /\ unlinked.journal = None
        /\ queued.contacts = d.contacts /\ unlinked.contacts = d.contacts
    BY <2>2 DEF Disk, EntriesOf
  <2> HIDE DEF logged, queued, unlinked, rolled, half
  <2>4. x \in Disk
    BY <2>1, <2>2, <2>3
  <2>5. /\ \A m \in Msg : m # d.journal =>
              x.log[m] = d.log[m] /\ x.torn[m] \in {d.log[m], d.torn[m]}
        /\ {x.log[d.journal], x.torn[d.journal]}
                 \subseteq {d.log[d.journal], d.torn[d.journal], BirthState(d.journal)}
    BY <1>2, <2>1, <2>2, <2>3, ReplayedType DEF Disk
  <2>6. Recovered(x).log = Recovered(d).log
    <3>1. \A m \in Msg : Recovered(x).log[m] = Recovered(d).log[m]
      BY <1>2, <2>1, <2>2, <2>3, <2>4, ReplayedType, RecoveredFields
    <3>2. Recovered(x).log \in [Msg -> State] /\ Recovered(d).log \in [Msg -> State]
      BY <2>4, RecoveredFields DEF Disk
    <3> QED BY <3>1, <3>2
  <2>7. Recovered(x).outbox = Recovered(d).outbox /\ x.outbox \subseteq Recovered(d).outbox
    <3>1. Recovered(d).outbox = d.outbox \cup EntriesOf(d.journal)
      BY <1>2, RecoveredFields
    <3>2. CASE x = unlinked
      BY <2>3, <2>4, <3>1, <3>2, RecoveredFields
    <3>3. CASE x \in {d, rolled, half, logged, queued}
      <4>1. /\ x.journal = d.journal
            /\ x.outbox = d.outbox \/ x.outbox = d.outbox \cup EntriesOf(d.journal)
        BY <2>2, <2>3, <3>3
      <4>2. Recovered(x).outbox = x.outbox \cup EntriesOf(d.journal)
        BY <1>2, <2>4, <4>1, RecoveredFields
      <4> QED BY <3>1, <4>1, <4>2
    <3> QED BY <2>1, <3>2, <3>3
  <2> QED BY <1>2, <2>1, <2>2, <2>3, <2>4, <2>5, <2>6, <2>7
<1> QED BY <1>1, <1>2

\* An append that stopped changed at most the frame to be rolled back.
LEMMA AppendStopsFields ==
  ASSUME NEW d \in Disk, NEW log \in [Msg -> State], NEW x \in AppendStops(d, log)
  PROVE  /\ x \in Disk /\ x.log = d.log /\ x.torn \in {d.torn, d.log, log}
         /\ x.journal = d.journal /\ x.outbox = d.outbox /\ x.contacts = d.contacts
<1>1. d.log \in [Msg -> State]
  BY DEF Disk
<1>2. CASE x = d
  BY <1>2
<1>3. CASE x = Appended(d, d.log)
  BY <1>1, <1>3, AppendedFields
<1>4. CASE x = [d EXCEPT !.torn = log]
  BY <1>4 DEF Disk
<1> QED BY <1>2, <1>3, <1>4 DEF AppendStops

(***************************************************************************)
(* The file operations keep the files sound.                               *)
(***************************************************************************)

\* recover keeps the files sound, wherever it stops.
LEMMA RecoverSound ==
  ASSUME NEW d, NEW acc \in SUBSET Msg, NEW can, NEW han, NEW net \in SUBSET Entry,
         DiskSound(d, acc, can, han, net)
  PROVE  /\ DiskSound(Recovered(d), acc, can, han, net)
         /\ \A x \in RecoverStops(d) : DiskSound(x, acc, can, han, net)
<1> USE DEF DiskSound
<1>0. d \in Disk /\ d.log \in [Msg -> State] /\ d.torn \in [Msg -> State]
  BY DEF Disk
<1>1. \A m \in Msg : MsgOf \in [Entry -> Msg] /\ BirthState(m) # "sent"
                       /\ BirthState(m) \in State /\ BirthState(m) # "absent"
                       /\ m # None
  BY BirthStates, OutboxAssumption DEF State
<1>2. ASSUME NEW x \in Disk,
             x.journal \in {d.journal, None},
             Recovered(x).log = Recovered(d).log,
             Recovered(x).outbox = Recovered(d).outbox,
             x.outbox \subseteq Recovered(d).outbox,
             \A m \in Msg : m # d.journal =>
               x.log[m] = d.log[m] /\ x.torn[m] \in {d.log[m], d.torn[m]},
             d.journal # None =>
               {x.log[d.journal], x.torn[d.journal]}
                 \subseteq {d.log[d.journal], d.torn[d.journal], BirthState(d.journal)},
             x.journal # d.journal => x.torn = x.log
      PROVE  DiskSound(x, acc, can, han, net)
  <2>1. \A m \in Msg \ acc : x.log[m] = "absent" /\ x.torn[m] = "absent"
    <3>1. \A m \in Msg \ acc : m # d.journal
      BY <1>1
    <3>2. \A m \in Msg \ acc : d.log[m] = "absent" /\ d.torn[m] = "absent"
      OBVIOUS
    <3> QED BY <1>2, <3>1, <3>2
  <2>2. x.journal \in acc \cup {None}
    BY <1>2
  <2>3. \A e \in x.outbox : MsgOf[e] \in acc \cup LegacyMsg
    BY <1>2, RecoveredFields DEF EntriesOf
  <2>4. x.journal # None =>
          /\ {x.log[x.journal], x.torn[x.journal]} \subseteq {"absent", BirthState(x.journal)}
          /\ EntriesOf(x.journal) \cap net = {}
    BY <1>2
  <2>5. \A m \in Msg : \/ Gone(m, can) \/ x.torn[m] = x.log[m] \/ m = x.journal
                       \/ x.log[m] = "queued" /\ x.torn[m] = "sent"
    <3>1. CASE x.journal # d.journal
      BY <1>2, <3>1
    <3>2. CASE x.journal = d.journal
      <4> SUFFICES ASSUME NEW m \in Msg, m # d.journal
                   PROVE  \/ Gone(m, can) \/ x.torn[m] = x.log[m]
                          \/ x.log[m] = "queued" /\ x.torn[m] = "sent"
        BY <3>2
      <4>1. x.log[m] = d.log[m] /\ (x.torn[m] = d.log[m] \/ x.torn[m] = d.torn[m])
        BY <1>2
      <4>2. \/ Gone(m, can) \/ d.torn[m] = d.log[m]
            \/ d.log[m] = "queued" /\ d.torn[m] = "sent"
        OBVIOUS
      <4> QED BY <4>1, <4>2
    <3> QED BY <3>1, <3>2
  <2>6. \A m \in Msg : Gone(m, can)
                          \/ ("sent" \in {x.log[m], x.torn[m]} => EntriesOf(m) \subseteq han)
    BY <1>1, <1>2
  <2> QED BY <1>2, <2>1, <2>2, <2>3, <2>4, <2>5, <2>6
<1>3. DiskSound(Recovered(d), acc, can, han, net)
  <2>1. CASE d.journal = None
    BY <2>1, RecoveredFields
  <2>2. CASE d.journal # None
    <3>1. Recovered(Recovered(d)) = Recovered(d)
      BY <1>0, RecoveredFields
    <3>2. Recovered(d).log = Replayed(d) /\ Recovered(d).torn = Replayed(d)
      BY <1>0, <2>2, RecoveredFields
    <3>3. \A m \in Msg : Recovered(d).log[m] = IF m = d.journal THEN BirthState(m) ELSE d.log[m]
      BY <1>0, RecoveredFields
    <3>4. Recovered(d) \in Disk /\ Recovered(d).journal = None
      BY <1>0, RecoveredFields
    <3> QED BY <1>0, <1>2, <2>2, <3>1, <3>2, <3>3, <3>4
  <2> QED BY <2>1, <2>2
<1>4. ASSUME NEW x \in RecoverStops(d) PROVE DiskSound(x, acc, can, han, net)
  BY <1>0, <1>2, RecoverStopsFields
<1> QED BY <1>3, <1>4

\* More hand-overs, and workers while no intent is pending, keep the files sound.
LEMMA NetGrows ==
  ASSUME NEW d, NEW acc \in SUBSET Msg, NEW can, NEW han, NEW net \in SUBSET Entry,
         NEW net2 \in SUBSET Entry, NEW han2, han \subseteq han2,
         DiskSound(d, acc, can, han, net),
         net2 \subseteq net \/ d.journal = None,
         \A e \in net2 \ net :
           MsgOf[e] \in acc /\ (Gone(MsgOf[e], can) \/ d.log[MsgOf[e]] # "absent")
  PROVE  DiskSound(d, acc, can, han2, net2)
BY RecoveredFields DEF DiskSound

\* Asking for a deletion keeps the files sound.
LEMMA CancelGrows ==
  ASSUME NEW d, NEW acc \in SUBSET Msg, NEW can, NEW han, NEW net \in SUBSET Entry,
         NEW can2, can \subseteq can2, DiskSound(d, acc, can, han, net)
  PROVE  DiskSound(d, acc, can2, han, net)
BY DEF DiskSound, Gone

\* Rewriting the outbox keeps it sound when everything unhanded is kept and no
\* queued message is left without an entry.
LEMMA RewriteSound ==
  ASSUME NEW d, NEW acc \in SUBSET Msg, NEW can, NEW han, NEW net \in SUBSET Entry,
         DiskSound(d, acc, can, han, net), d.journal = None,
         NEW box \in SUBSET Entry,
         \A e \in box : MsgOf[e] \in acc \cup LegacyMsg,
         \A m \in Msg : d.log[m] = "queued" /\ ~Gone(m, can) =>
           /\ EntriesOf(m) \cap box # {}
           /\ EntriesOf(m) \ han \subseteq box
  PROVE  DiskSound([d EXCEPT !.outbox = box], acc, can, han, net)
<1> DEFINE x == [d EXCEPT !.outbox = box]
<1>1. /\ x \in Disk /\ x.log = d.log /\ x.torn = d.torn /\ x.journal = None /\ x.outbox = box
  BY DEF DiskSound, Disk
<1>2. Recovered(x) = x /\ Recovered(d) = d
  BY <1>1, RecoveredFields DEF DiskSound
<1> HIDE DEF x
<1>3. DiskSound(x, acc, can, han, net)
  BY <1>1, <1>2 DEF DiskSound
<1> QED BY <1>3 DEF x

\* The rows may change, in the log or in a frame to roll back, only for messages
\* that are handed over or being deleted.
Moves(m, from, to, can, han) ==
  \/ to = from
  \/ Gone(m, can)
  \/ from = "queued" /\ to = "sent" /\ EntriesOf(m) \subseteq han

\* Rows may change as RowMay allows.
LEMMA RowsSound ==
  ASSUME NEW d, NEW acc \in SUBSET Msg, NEW can, NEW han, NEW net \in SUBSET Entry,
         DiskSound(d, acc, can, han, net), d.journal = None,
         NEW x \in Disk, x.journal = None, x.outbox = d.outbox,
         \A m \in Msg \ acc : x.log[m] = "absent" /\ x.torn[m] = "absent",
         \A m \in Msg : Moves(m, d.log[m], x.log[m], can, han),
         \A m \in Msg : Moves(m, x.log[m], x.torn[m], can, han)
  PROVE  DiskSound(x, acc, can, han, net)
<1>1. Recovered(x) = x /\ Recovered(d) = d
  BY RecoveredFields DEF DiskSound
<1>2. \A e \in net : MsgOf[e] \in Msg
  BY OutboxAssumption
<1>3. \A e \in net : Gone(MsgOf[e], can) \/ x.log[MsgOf[e]] # "absent"
  BY <1>1, <1>2 DEF DiskSound, Moves
<1>4. \A m \in Msg : Gone(m, can)
                      \/ ("sent" \in {x.log[m], x.torn[m]} => EntriesOf(m) \subseteq han)
  BY DEF DiskSound, Moves
<1>5. \A m \in Msg : x.log[m] = "queued" /\ ~Gone(m, can) =>
       /\ EntriesOf(m) \cap x.outbox # {}
       /\ EntriesOf(m) \ han \subseteq x.outbox
  BY <1>1 DEF DiskSound, Moves
<1>6. \A m \in acc : Gone(m, can) \/ x.log[m] # "absent"
  BY <1>1 DEF DiskSound, Moves
<1>7. \A m \in Msg : \/ Gone(m, can) \/ x.torn[m] = x.log[m]
                     \/ x.log[m] = "queued" /\ x.torn[m] = "sent"
  BY DEF Moves
<1> QED BY <1>1, <1>3, <1>4, <1>5, <1>6, <1>7 DEF DiskSound

\* The same for an append, completed or stopped.
LEMMA AppendSound ==
  ASSUME NEW d, NEW acc \in SUBSET Msg, NEW can, NEW han, NEW net \in SUBSET Entry,
         DiskSound(d, acc, can, han, net), d.journal = None,
         NEW log \in [Msg -> State],
         \A m \in Msg \ acc : log[m] = "absent",
         \A m \in Msg : Moves(m, d.log[m], log[m], can, han)
  PROVE  /\ DiskSound(Appended(d, log), acc, can, han, net)
         /\ \A x \in AppendStops(d, log) : DiskSound(x, acc, can, han, net)
<1>1. d \in Disk
  BY DEF DiskSound
<1>2. DiskSound(Appended(d, log), acc, can, han, net)
  BY <1>1, AppendedFields, RowsSound DEF Moves
<1>3. ASSUME NEW x \in AppendStops(d, log) PROVE DiskSound(x, acc, can, han, net)
  <2>1. /\ x \in Disk /\ x.log = d.log /\ x.torn \in {d.torn, d.log, log}
        /\ x.journal = None /\ x.outbox = d.outbox
    BY <1>1, AppendStopsFields
  <2>2. \A m \in Msg \ acc : x.log[m] = "absent" /\ x.torn[m] = "absent"
    BY <2>1 DEF DiskSound
  <2>3. \A m \in Msg : Moves(m, d.log[m], d.torn[m], can, han)
    BY OutboxAssumption DEF DiskSound, Moves
  <2>4. \A m \in Msg : /\ Moves(m, d.log[m], x.log[m], can, han)
                        /\ Moves(m, x.log[m], x.torn[m], can, han)
    <3>1. CASE x.torn = d.torn
      BY <2>1, <2>3, <3>1 DEF Moves
    <3>2. CASE x.torn = d.log
      BY <2>1, <3>2 DEF Moves
    <3>3. CASE x.torn = log
      BY <2>1, <3>3 DEF Moves
    <3> QED BY <2>1, <3>1, <3>2, <3>3
  <2> QED BY <2>1, <2>2, <2>4, RowsSound
<1> QED BY <1>2, <1>3

\* Writing the intent of a fresh message accepts it.
LEMMA IntentSound ==
  ASSUME NEW d, NEW acc \in SUBSET Msg, NEW can, NEW han, NEW net \in SUBSET Entry,
         DiskSound(d, acc, can, han, net), d.journal = None,
         NEW m \in Msg, m \notin acc
  PROVE  DiskSound([d EXCEPT !.journal = m], acc \cup {m}, can, han, net)
<1> DEFINE x == [d EXCEPT !.journal = m]
<1>1. /\ d \in Disk /\ x \in Disk /\ x.log = d.log /\ x.torn = d.torn
      /\ x.journal = m /\ x.outbox = d.outbox
  BY DEF DiskSound, Disk
<1>2. m # None
  BY OutboxAssumption
<1> HIDE DEF x
<1>3. /\ Recovered(d) = d
      /\ Recovered(x).outbox = d.outbox \cup EntriesOf(m)
      /\ Recovered(x) \in Disk
      /\ \A n \in Msg : Recovered(x).log[n] = IF n = m THEN BirthState(n) ELSE d.log[n]
  BY <1>1, <1>2, RecoveredFields
<1>4. MsgOf \in [Entry -> Msg] /\ BirthState(m) # "absent"
  BY OutboxAssumption DEF BirthState
<1>5. d.log[m] = "absent" /\ d.torn[m] = "absent" /\ EntriesOf(m) \cap net = {}
  BY DEF DiskSound, EntriesOf
<1>6. \A e \in net : Gone(MsgOf[e], can) \/ Recovered(x).log[MsgOf[e]] # "absent"
  BY <1>3, <1>4 DEF DiskSound
<1>7. ASSUME NEW n \in Msg, Recovered(x).log[n] = "queued", ~Gone(n, can)
      PROVE  /\ EntriesOf(n) \cap Recovered(x).outbox # {}
             /\ EntriesOf(n) \ han \subseteq Recovered(x).outbox
  <2>1. CASE n = m
    BY <1>3, <1>7, <2>1 DEF BirthState
  <2>2. CASE n # m
    BY <1>3, <1>7, <2>2 DEF DiskSound
  <2> QED BY <2>1, <2>2
<1>8. \A n \in acc \cup {m} : Gone(n, can) \/ Recovered(x).log[n] # "absent"
  BY <1>3, <1>4 DEF DiskSound
<1>9. \A e \in x.outbox \cup net : MsgOf[e] \in acc \cup {m} \cup LegacyMsg
  BY <1>1 DEF DiskSound
<1>10. \A e \in net : MsgOf[e] \in acc \cup {m}
  BY DEF DiskSound
<1>11. \A n \in Msg : /\ \/ Gone(n, can) \/ x.torn[n] = x.log[n]
                         \/ x.log[n] = "queued" /\ x.torn[n] = "sent"
                      /\ \/ Gone(n, can)
                         \/ "sent" \in {x.log[n], x.torn[n]} => EntriesOf(n) \subseteq han
  BY <1>1, <1>5, OutboxAssumption DEF DiskSound
<1>12. DiskSound(x, acc \cup {m}, can, han, net)
  BY <1>1, <1>2, <1>5, <1>6, <1>7, <1>8, <1>9, <1>10, <1>11 DEF DiskSound
<1> QED BY <1>12 DEF x

\* A crash keeps or drops the frame still to be rolled back.
LEMMA CrashSound ==
  ASSUME NEW d, NEW acc \in SUBSET Msg, NEW can, NEW han, NEW net \in SUBSET Entry,
         DiskSound(d, acc, can, han, net), NEW log \in {d.log, d.torn}
  PROVE  DiskSound(Appended(d, log), acc, can, han, net)
<1> DEFINE x == Appended(d, log)
<1>1. d \in Disk /\ log \in [Msg -> State]
  BY DEF DiskSound, Disk
<1>2. /\ x \in Disk /\ x.log = log /\ x.torn = log
      /\ x.journal = d.journal /\ x.outbox = d.outbox
  BY <1>1, AppendedFields
<1> HIDE DEF x
<1>3. \A m \in Msg \ {d.journal} : Moves(m, d.log[m], log[m], can, han)
  BY DEF DiskSound, Moves
<1>4. Recovered(x).outbox = Recovered(d).outbox
  BY <1>1, <1>2, RecoveredFields
<1>5. \A m \in Msg : Recovered(x).log[m] = IF m = d.journal THEN BirthState(m) ELSE log[m]
  BY <1>2, RecoveredFields
<1>6. \A m \in Msg : Recovered(d).log[m] = IF m = d.journal THEN BirthState(m) ELSE d.log[m]
  BY <1>1, RecoveredFields
<1>7. MsgOf \in [Entry -> Msg]
  BY OutboxAssumption
<1>8. \A m \in Msg : \/ Gone(m, can)
                     \/ Recovered(x).log[m] = Recovered(d).log[m]
                     \/ Recovered(x).log[m] = "sent"
  BY <1>3, <1>5, <1>6 DEF Moves
<1>9. \A e \in net : Gone(MsgOf[e], can) \/ Recovered(x).log[MsgOf[e]] # "absent"
  BY <1>7, <1>8 DEF DiskSound
<1>10. \A m \in Msg : Recovered(x).log[m] = "queued" /\ ~Gone(m, can) =>
         /\ EntriesOf(m) \cap Recovered(x).outbox # {}
         /\ EntriesOf(m) \ han \subseteq Recovered(x).outbox
  BY <1>4, <1>8 DEF DiskSound
<1>11. \A m \in acc : Gone(m, can) \/ Recovered(x).log[m] # "absent"
  BY <1>8 DEF DiskSound
<1>12. \A m \in Msg :
         Gone(m, can) \/ ("sent" \in {x.log[m], x.torn[m]} => EntriesOf(m) \subseteq han)
  BY <1>2 DEF DiskSound
<1>13. \A m \in Msg \ acc : x.log[m] = "absent" /\ x.torn[m] = "absent"
  BY <1>2 DEF DiskSound
<1>14. d.journal # None => {x.log[d.journal], x.torn[d.journal]}
                            \subseteq {"absent", BirthState(d.journal)}
  BY <1>2 DEF DiskSound
<1>15. DiskSound(x, acc, can, han, net)
  BY <1>2, <1>9, <1>10, <1>11, <1>12, <1>13, <1>14 DEF DiskSound
<1> QED BY <1>15 DEF x

(***************************************************************************)
(* What the memory must satisfy, next to a sound disk.                     *)
(***************************************************************************)

MemorySound(d, acc, rej, can, han, op, lo, rows, box, w) ==
  /\ rej \cap (acc \cup LegacyMsg) = {} /\ acc \cap LegacyMsg = {}
  /\ \A m \in Msg \ acc : rows[m] = "absent"
  /\ \A e \in box : MsgOf[e] \in acc \cup LegacyMsg
  /\ op => Recovered(d).outbox \subseteq box
  /\ \A e \in Entry : w[e] # "idle" => lo
  /\ lo => op
  /\ \A e \in Entry : w[e] = "delivered" => e \in han
  /\ lo => \A m \in Msg : Gone(m, can) \/ rows[m] = Recovered(d).log[m]
  /\ \A m \in Msg : Gone(m, can) \/ (rows[m] = "sent" => EntriesOf(m) \subseteq han)

Net == InFlight \cup orphan \cup handed

DiskInv == DiskSound(disk, accepted, cancelled, handed, Net)

MemoryInv == MemorySound(disk, accepted, rejected, cancelled, handed,
                         open, loaded, messages, outbox, worker)

\* The invariant in the form the steps preserve.
PInv == TypeOK /\ DiskInv /\ MemoryInv

\* The invariant of the proof implies the one TLC checks.
LEMMA PInvImpliesIInv == PInv => IInv
<1> SUFFICES ASSUME PInv PROVE IInv
  OBVIOUS
<1> USE DEF PInv, DiskInv, MemoryInv, Net, Gone
<1>1. Provenance
  BY DEF DiskSound, MemorySound, Provenance
<1>2. JournalIsYoung
  BY DEF DiskSound, JournalIsYoung
<1>3. TornIsHarmless
  BY DEF DiskSound, TornIsHarmless, Cancelled
<1>4. MemoryCoversDisk
  BY DEF MemorySound, MemoryCoversDisk, Durable, InFlight, Delivered, Ended
<1>5. MemoryMatchesDisk
  BY DEF MemorySound, MemoryMatchesDisk, Cancelled, Durable
<1>6. HistoryBeforeNetwork
  BY DEF DiskSound, HistoryBeforeNetwork, Cancelled, Durable
<1>7. SentMeansHandedOff
  BY DEF DiskSound, MemorySound, SentMeansHandedOff, SentOnAllDevices, Cancelled
<1>8. QueuedKeepsCiphertext
  BY DEF DiskSound, QueuedKeepsCiphertext, Cancelled, Durable
<1>9. AcceptedSurvives
  BY DEF DiskSound, AcceptedSurvives, Cancelled, Durable
<1> QED BY <1>1, <1>2, <1>3, <1>4, <1>5, <1>6, <1>7, <1>8, <1>9 DEF IInv

\* It also implies that a rejected message is never transmitted.
LEMMA PInvImpliesRejected == PInv => RejectedNeverSent
<1> SUFFICES ASSUME PInv, NEW e \in Net \cup Durable.outbox PROVE MsgOf[e] \notin rejected
  BY DEF RejectedNeverSent, Net
<1> USE DEF PInv, DiskInv, MemoryInv
<1>1. MsgOf[e] \in accepted \cup LegacyMsg
  <2>1. disk \in Disk /\ EntriesOf(disk.journal) = {f \in Entry : MsgOf[f] = disk.journal}
    BY DEF DiskSound, EntriesOf
  <2>2. Durable.outbox \subseteq disk.outbox \cup EntriesOf(disk.journal)
    BY <2>1, RecoveredFields DEF Durable
  <2> QED BY <2>1, <2>2, OutboxAssumption DEF DiskSound
<1> QED BY <1>1 DEF MemorySound

\* A fresh account satisfies the invariant.
LEMMA InitPInv == Init => PInv
<1> SUFFICES ASSUME Init PROVE PInv
  OBVIOUS
<1> USE OutboxAssumption DEF Init
<1>1. disk \in Disk /\ Recovered(disk) = disk
  BY DEF Disk, State, Recovered
<1>2. TypeOK
  BY <1>1 DEF TypeOK, NoWorkers, State
<1>3. Net = {}
  BY DEF Net, InFlight, NoWorkers
<1>4. DiskInv
  BY <1>1, <1>3 DEF DiskInv, DiskSound, LegacyMsg
<1>5. MemoryInv
  BY DEF MemoryInv, MemorySound, NoWorkers
<1> QED BY <1>2, <1>4, <1>5 DEF PInv

(***************************************************************************)
(* What a command that begins with ensure_messages_loaded works on.        *)
(***************************************************************************)

\* ensure_messages_loaded leaves sound files, and so does every way it can stop.
LEMMA EnsuredFacts ==
  ASSUME PInv
  PROVE  /\ Ensured \in Disk /\ Ensured.journal = None
         /\ DiskSound(Ensured, accepted, cancelled, handed, Net)
         /\ Recovered(Ensured) = Ensured
         /\ Ensured.log = Durable.log /\ Ensured.outbox = Durable.outbox
         /\ \A x \in EnsureStops :
              /\ DiskSound(x, accepted, cancelled, handed, Net)
              /\ Recovered(x).log = Durable.log /\ Recovered(x).outbox = Durable.outbox
<1> USE DEF PInv, DiskInv
<1>1. disk \in Disk /\ accepted \in SUBSET Msg /\ Net \in SUBSET Entry
  BY DEF DiskSound, TypeOK, Net, InFlight
<1>2. /\ Durable \in Disk /\ Durable.journal = None
      /\ Durable.log \in [Msg -> State]
      /\ DiskSound(Durable, accepted, cancelled, handed, Net)
      /\ Recovered(Durable) = Durable
  <2>1. Durable \in Disk /\ Durable.journal = None
    BY <1>1, RecoveredFields DEF Durable
  <2>2. Recovered(Durable) = Durable
    BY <2>1, RecoveredFields
  <2>3. DiskSound(Durable, accepted, cancelled, handed, Net)
    BY <1>1, RecoverSound DEF Durable
  <2> QED BY <2>1, <2>2, <2>3 DEF Disk
<1>3. \A x \in RecoverStops(disk) :
        /\ DiskSound(x, accepted, cancelled, handed, Net)
        /\ Recovered(x).log = Durable.log /\ Recovered(x).outbox = Durable.outbox
  BY <1>1, RecoverSound, RecoverStopsFields DEF Durable
<1>4. Ensured = IF loaded THEN Durable ELSE Appended(Durable, Durable.log)
  BY DEF Ensured, Durable
<1>5. EnsureStops = RecoverStops(disk) \cup (IF loaded THEN {} ELSE {Durable})
  BY DEF EnsureStops, Durable
<1> HIDE DEF Durable
<1>6. CASE loaded
  BY <1>2, <1>3, <1>4, <1>5, <1>6
<1>7. CASE ~loaded
  <2> DEFINE a == Appended(Durable, Durable.log)
  <2>1. /\ a \in Disk /\ a.journal = None
        /\ a.log = Durable.log /\ a.outbox = Durable.outbox
    BY <1>2, AppendedFields
  <2>2. DiskSound(a, accepted, cancelled, handed, Net)
    BY <1>1, <1>2, CrashSound
  <2>3. Recovered(a) = a
    BY <2>1, RecoveredFields
  <2>4. Ensured = a
    BY <1>4, <1>7
  <2> HIDE DEF a
  <2> QED BY <1>2, <1>3, <1>5, <1>7, <2>1, <2>2, <2>3, <2>4
<1> QED BY <1>6, <1>7

\* The rows a command works with agree with the files.
LEMMA HistoryFacts ==
  ASSUME PInv
  PROVE  /\ History \in [Msg -> State]
         /\ \A m \in Msg \ accepted : History[m] = "absent"
         /\ \A m \in Msg : Gone(m, cancelled) \/ History[m] = Durable.log[m]
         /\ \A m \in Msg : \/ Gone(m, cancelled)
                           \/ History[m] = "sent" => EntriesOf(m) \subseteq handed
<1>1. /\ Ensured.log \in [Msg -> State] /\ Ensured.log = Durable.log
      /\ DiskSound(Ensured, accepted, cancelled, handed, Net)
  BY EnsuredFacts DEF Disk
<1>2. CASE loaded
  BY <1>2 DEF PInv, MemoryInv, MemorySound, TypeOK, History, Durable
<1>3. CASE ~loaded
  <2>1. History = Ensured.log
    BY <1>3 DEF History
  <2> QED BY <1>1, <2>1 DEF DiskSound
<1> QED BY <1>2, <1>3 DEF PInv, TypeOK

\* What starting workers adds to the network.
LEMMA PollFacts ==
  ASSUME PInv, NEW acked, NEW box \in SUBSET Entry, NEW rows, NEW busy,
         NEW D \in Startable(box, rows, busy), Poll(D, acked)
  PROVE  /\ worker' \in [Entry -> {"idle", "running", "delivered", "failed"}]
         /\ InFlight' \subseteq InFlight \cup D
         /\ D \subseteq box
         /\ \A e \in D : rows[MsgOf[e]] # "absent"
         /\ \A e \in Entry : worker'[e] = "delivered" => worker[e] = "delivered"
         /\ orphan' = orphan /\ handed' = handed =>
              Net' \subseteq Net \cup D /\ Net' \in SUBSET Entry
<1>1. worker \in [Entry -> {"idle", "running", "delivered", "failed"}]
  BY DEF PInv, TypeOK
<1>2. D \subseteq box /\ \A e \in D : rows[MsgOf[e]] # "absent"
  BY DEF Startable
<1>3. worker' = [e \in Entry |-> IF e \in D THEN "running"
                             ELSE IF e \in acked THEN "idle" ELSE worker[e]]
  BY DEF Poll
<1>4. InFlight' \subseteq InFlight \cup D
  BY <1>3 DEF InFlight
<1>5. \A e \in Entry : worker'[e] \in {"idle", "running", "delivered", "failed"}
  BY <1>1, <1>3
<1>6. worker' \in [Entry -> {"idle", "running", "delivered", "failed"}]
  BY <1>3, <1>5
<1>7. orphan' = orphan /\ handed' = handed =>
        Net' \subseteq Net \cup D /\ Net' \in SUBSET Entry
  <2>1. InFlight \subseteq Entry /\ InFlight' \subseteq Entry
    BY DEF InFlight
  <2>2. orphan \subseteq Entry /\ handed \subseteq Entry
    BY DEF PInv, TypeOK
  <2>3. Net' = InFlight' \cup orphan' \cup handed'
    BY DEF Net
  <2> QED BY <1>2, <1>4, <2>1, <2>2, <2>3 DEF Net
<1> QED BY <1>1, <1>2, <1>3, <1>4, <1>6, <1>7

\* The rows in memory show nothing the file does not hold.
Shows(rows, d, acc, can) ==
  \A m \in Msg : rows[m] # "absent" =>
    m \in acc /\ (Gone(m, can) \/ d.log[m] # "absent")

\* Starting entries of materialised messages is sound.
LEMMA StartSound ==
  ASSUME NEW d, NEW acc \in SUBSET Msg, NEW can, NEW han, NEW net \in SUBSET Entry,
         DiskSound(d, acc, can, han, net), d.journal = None,
         NEW rows, NEW box \in SUBSET Entry, NEW busy, NEW D \in Startable(box, rows, busy),
         NEW net2 \in SUBSET Entry, net2 \subseteq net \cup D, Shows(rows, d, acc, can)
  PROVE  DiskSound(d, acc, can, han, net2)
<1>1. \A e \in D : MsgOf[e] \in Msg /\ rows[MsgOf[e]] # "absent"
  BY OutboxAssumption DEF Startable
<1>2. \A e \in D : MsgOf[e] \in acc
  BY <1>1 DEF Shows
<1>3. \A e \in D : Gone(MsgOf[e], can) \/ d.log[MsgOf[e]] # "absent"
  BY <1>1 DEF Shows
<1> QED BY <1>2, <1>3, NetGrows

(***************************************************************************)
(* One lemma per action.                                                   *)
(***************************************************************************)

\* A send that fails preserves the invariant.
LEMMA SendStopsKeeps ==
  ASSUME PInv, ~ReadBackFails, NEW m \in Msg, SendStops(m)
  PROVE  PInv'
<1> USE DEF SendStops, networkVars
<1>1. /\ disk' \in Disk /\ DiskSound(disk', accepted, cancelled, handed, Net)
      /\ Recovered(disk').log = Durable.log /\ Recovered(disk').outbox = Durable.outbox
      /\ faults' \in Nat
  <2>1. faults' \in Nat
    BY DEF Stopped, Fault, NoFault, PInv, TypeOK
  <2>2. disk' \in EnsureStops \cup {Ensured}
    BY DEF Stopped
  <2> QED BY <2>1, <2>2, EnsuredFacts DEF DiskSound
<1>2. \/ loaded' = loaded /\ messages' = messages
      \/ loaded' = TRUE /\ messages' = History
  OBVIOUS
<1>3. /\ UNCHANGED <<open, outbox, contacts, worker, orphan, handed, accepted,
                      cancelled, restarts>>
      /\ rejected' = rejected \cup {m} /\ m \notin accepted \cup LegacyMsg /\ open
  BY DEF CanSend, Tried
<1>4. TypeOK'
  BY <1>1, <1>2, <1>3, HistoryFacts DEF PInv, TypeOK
<1>5. DiskInv'
  BY <1>1, <1>3 DEF DiskInv, Net, InFlight
<1>6. MemoryInv'
  <2>1. \A e \in outbox : MsgOf[e] \in accepted \cup LegacyMsg
    BY DEF PInv, MemoryInv, MemorySound
  <2>2. CASE loaded' = loaded /\ messages' = messages
    BY <1>1, <1>3, <2>2 DEF PInv, MemoryInv, MemorySound, Durable
  <2>3. CASE loaded' = TRUE /\ messages' = History
    BY <1>1, <1>3, <2>3, HistoryFacts DEF PInv, MemoryInv, MemorySound, Durable
  <2> QED BY <1>2, <2>2, <2>3
<1> QED BY <1>4, <1>5, <1>6 DEF PInv

\* A send that succeeds preserves the invariant.
LEMMA SendCommitsKeeps ==
  ASSUME PInv, NEW m \in Msg, SendCommits(m)
  PROVE  PInv'
<1>1. m \notin accepted /\ m \notin rejected /\ m \notin LegacyMsg /\ open
  BY DEF SendCommits, CanSend, Tried
<1> DEFINE acc == accepted \cup {m}
           i == Intent(m)
<1>2. acc \in SUBSET Msg /\ Net \in SUBSET Entry /\ m # None
  BY OutboxAssumption DEF PInv, TypeOK, Net, InFlight
<1>3. /\ i \in Disk /\ i.journal = m /\ i.log = Durable.log /\ i.outbox = Durable.outbox
      /\ DiskSound(i, acc, cancelled, handed, Net)
  <2>1. /\ i \in Disk /\ i.journal = m /\ i.log = Ensured.log /\ i.outbox = Ensured.outbox
    BY EnsuredFacts DEF Disk, Intent
  <2>2. DiskSound([Ensured EXCEPT !.journal = m], accepted \cup {m}, cancelled, handed, Net)
    BY <1>1, <1>2, EnsuredFacts, IntentSound DEF PInv, TypeOK
  <2> QED BY <2>1, <2>2, EnsuredFacts DEF Intent
<1> HIDE DEF i
<1>4. /\ Recovered(i) \in Disk /\ Recovered(i).journal = None
      /\ Recovered(i).outbox = Durable.outbox \cup EntriesOf(m)
      /\ \A n \in Msg : Recovered(i).log[n] = IF n = m THEN BirthState(n) ELSE Durable.log[n]
      /\ Recovered(Recovered(i)) = Recovered(i)
  BY <1>2, <1>3, RecoveredFields
<1>5. /\ messages' = [History EXCEPT ![m] = BirthState(m)]
      /\ messages' \in [Msg -> State]
      /\ \A n \in Msg : messages'[n] = IF n = m THEN BirthState(n) ELSE History[n]
  BY HistoryFacts, BirthStates DEF SendCommits, State
<1>6. /\ outbox' = outbox \cup EntriesOf(m) /\ outbox' \in SUBSET Entry
      /\ accepted' = acc /\ loaded' = TRUE
      /\ UNCHANGED <<open, contacts, orphan, handed, rejected, cancelled, restarts>>
  BY DEF SendCommits, EntriesOf, PInv, TypeOK
<1>7. /\ DiskSound(disk', acc, cancelled, handed, Net')
      /\ Recovered(disk').log = Recovered(i).log
      /\ Recovered(disk').outbox = Recovered(i).outbox
      /\ worker' \in [Entry -> {"idle", "running", "delivered", "failed"}]
      /\ \A e \in Entry : worker'[e] = "delivered" => worker[e] = "delivered"
      /\ faults' \in Nat
  <2>1. CASE Stopped(RecoverStops(i)) /\ UNCHANGED worker
    <3>1. Net' = Net /\ disk' \in RecoverStops(i) /\ faults' \in Nat
      BY <1>6, <2>1 DEF Stopped, Fault, Net, InFlight, PInv, TypeOK
    <3>2. DiskSound(disk', acc, cancelled, handed, Net)
      BY <1>2, <1>3, <3>1, RecoverSound
    <3> QED BY <1>3, <2>1, <3>1, <3>2, RecoverStopsFields DEF PInv, TypeOK
  <2>2. CASE /\ NoFault /\ disk' = Recovered(i)
             /\ \E D \in Startable(outbox', messages', InFlight) : Poll(D, {})
    <3>1. PICK D \in Startable(outbox', messages', InFlight) : Poll(D, {})
      BY <2>2
    <3>2. DiskSound(Recovered(i), acc, cancelled, handed, Net)
      BY <1>2, <1>3, RecoverSound
    <3>3. \A n \in Msg : messages'[n] # "absent" => n \in acc
      BY <1>5, HistoryFacts
    <3>4. \A n \in Msg : Gone(n, cancelled) \/ messages'[n] = Recovered(i).log[n]
      BY <1>4, <1>5, HistoryFacts
    <3>5. DiskSound(Recovered(i), acc, cancelled, handed, Net')
      <4>1. Net' \in SUBSET Entry /\ Net' \subseteq Net \cup D
        BY <1>6, <3>1, PollFacts
      <4>2. Shows(messages', Recovered(i), acc, cancelled)
        BY <3>3, <3>4 DEF Shows
      <4> QED BY <1>2, <1>4, <1>6, <3>1, <3>2, <4>1, <4>2, StartSound
    <3>6. /\ worker' \in [Entry -> {"idle", "running", "delivered", "failed"}]
          /\ \A e \in Entry : worker'[e] = "delivered" => worker[e] = "delivered"
      BY <1>6, <3>1, PollFacts
    <3> QED BY <1>4, <2>2, <3>5, <3>6 DEF NoFault, PInv, TypeOK
  <2> QED BY <2>1, <2>2 DEF SendCommits, i
<1>8. TypeOK'
  BY <1>5, <1>6, <1>7, <1>2 DEF PInv, TypeOK, DiskSound
<1>9. DiskInv'
  BY <1>6, <1>7 DEF DiskInv
<1>10. MemoryInv'
  <2>1. \A e \in outbox' : MsgOf[e] \in acc \cup LegacyMsg
    BY <1>6 DEF PInv, MemoryInv, MemorySound, EntriesOf
  <2>2. \A n \in Msg : Gone(n, cancelled) \/ messages'[n] = Recovered(disk').log[n]
    BY <1>4, <1>5, <1>7, HistoryFacts
  <2>3. \A n \in Msg : \/ Gone(n, cancelled)
                       \/ messages'[n] = "sent" => EntriesOf(n) \subseteq handed
    BY <1>5, HistoryFacts, BirthStates
  <2>4. \A n \in Msg \ acc : messages'[n] = "absent"
    BY <1>5, HistoryFacts
  <2>5. Recovered(disk').outbox \subseteq outbox'
    BY <1>1, <1>4, <1>6, <1>7 DEF PInv, MemoryInv, MemorySound, Durable
  <2>6. /\ rejected \cap (acc \cup LegacyMsg) = {} /\ acc \cap LegacyMsg = {}
        /\ \A e \in Entry : worker[e] = "delivered" => e \in handed
    BY <1>1 DEF PInv, MemoryInv, MemorySound
  <2> QED BY <1>1, <1>6, <1>7, <2>1, <2>2, <2>3, <2>4, <2>5, <2>6 DEF MemoryInv, MemorySound
<1> QED BY <1>8, <1>9, <1>10 DEF PInv

\* A sync stopped at its recovery preserves the invariant.
LEMMA SyncStopsKeeps ==
  ASSUME PInv, SyncStops
  PROVE  PInv'
<1> USE DEF SyncStops, memoryVars, networkVars, historyVars
<1>1. /\ disk' \in Disk /\ DiskSound(disk', accepted, cancelled, handed, Net)
      /\ Recovered(disk').log = Durable.log /\ Recovered(disk').outbox = Durable.outbox
      /\ faults' \in Nat
  BY EnsuredFacts DEF DiskSound, Stopped, Fault, PInv, TypeOK
<1>2. TypeOK'
  BY <1>1 DEF PInv, TypeOK
<1>3. DiskInv'
  BY <1>1 DEF DiskInv, Net, InFlight
<1>4. MemoryInv'
  BY <1>1 DEF PInv, MemoryInv, MemorySound, Durable
<1> QED BY <1>2, <1>3, <1>4 DEF PInv

\* A sync without results preserves the invariant.
LEMMA SyncIdleKeeps ==
  ASSUME PInv, SyncIdle
  PROVE  PInv'
<1> USE DEF SyncIdle, historyVars
<1>1. PICK D \in Startable(outbox, History, InFlight) : Poll(D, {})
  OBVIOUS
<1>2. /\ accepted \in SUBSET Msg /\ outbox \in SUBSET Entry /\ Net \in SUBSET Entry
      /\ disk' = Ensured /\ faults' \in Nat
  BY DEF PInv, TypeOK, Net, InFlight, NoFault
<1>3. /\ worker' \in [Entry -> {"idle", "running", "delivered", "failed"}]
      /\ \A e \in Entry : worker'[e] = "delivered" => worker[e] = "delivered"
      /\ Net' \in SUBSET Entry /\ Net' \subseteq Net \cup D
  BY <1>1, <1>2, PollFacts
<1>4. Shows(History, Ensured, accepted, cancelled)
  BY HistoryFacts, EnsuredFacts DEF Shows
<1>5. DiskSound(Ensured, accepted, cancelled, handed, Net')
  BY <1>2, <1>3, <1>4, EnsuredFacts, StartSound
<1>6. TypeOK'
  BY <1>2, <1>3, EnsuredFacts, HistoryFacts DEF PInv, TypeOK
<1>7. DiskInv'
  BY <1>2, <1>5 DEF DiskInv
<1>8. MemoryInv'
  BY <1>2, <1>3, EnsuredFacts, HistoryFacts DEF PInv, MemoryInv, MemorySound, Durable
<1> QED BY <1>6, <1>7, <1>8 DEF PInv

\* A finished message is handed over on all its devices.
LEMMA FinishedFacts ==
  ASSUME PInv, open
  PROVE  /\ Finished \subseteq accepted
         /\ \A m \in Finished : \/ Gone(m, cancelled)
                               \/ /\ Ensured.log[m] = "queued"
                                  /\ EntriesOf(m) \subseteq handed
         /\ \A m \in Msg \ Finished :
              Ensured.log[m] = "queued" /\ ~Gone(m, cancelled) =>
                EntriesOf(m) \cap Retained # {}
         /\ \A m \in Msg : Ensured.log[m] = "queued" /\ ~Gone(m, cancelled) =>
              EntriesOf(m) \ handed \subseteq Retained
         /\ Retained \in SUBSET Entry
         /\ \A e \in Retained : MsgOf[e] \in accepted \cup LegacyMsg
<1>1. Delivered \subseteq handed
  BY DEF PInv, MemoryInv, MemorySound, Delivered, Ended
<1>2. \A m \in Msg : Ensured.log[m] = "queued" /\ ~Gone(m, cancelled) =>
        /\ EntriesOf(m) \cap Ensured.outbox # {}
        /\ EntriesOf(m) \ handed \subseteq Ensured.outbox
  BY EnsuredFacts DEF DiskSound
<1>3. Ensured.outbox \subseteq outbox
  BY EnsuredFacts DEF PInv, MemoryInv, MemorySound, Durable
<1>4. \A m \in Msg : /\ History[m] # "absent" => m \in accepted
                     /\ Gone(m, cancelled) \/ History[m] = Ensured.log[m]
  BY HistoryFacts, EnsuredFacts
<1>5. \A m \in Msg : Ensured.log[m] = "queued" /\ ~Gone(m, cancelled) =>
        EntriesOf(m) \ handed \subseteq Retained
  BY <1>1, <1>2, <1>3 DEF Retained
<1>6. ASSUME NEW m \in Finished
      PROVE  /\ m \in accepted
             /\ \/ Gone(m, cancelled)
                \/ Ensured.log[m] = "queued" /\ EntriesOf(m) \subseteq handed
  <2>1. m \in Msg /\ History[m] = "queued" /\ EntriesOf(m) \cap Retained = {}
    BY DEF Finished, EntriesOf
  <2> QED BY <1>4, <1>5, <2>1
<1>7. ASSUME NEW m \in Msg \ Finished, Ensured.log[m] = "queued", ~Gone(m, cancelled)
      PROVE  EntriesOf(m) \cap Retained # {}
  <2>1. History[m] = "queued"
    BY <1>4, <1>7
  <2>2. CASE \E e \in Delivered : MsgOf[e] = m
    <3>1. \E e \in Retained : MsgOf[e] = m
      BY <2>1, <2>2 DEF Finished
    <3>2. Retained \subseteq Entry
      BY DEF Retained, PInv, TypeOK
    <3> QED BY <3>1, <3>2 DEF EntriesOf
  <2>3. CASE \A e \in Delivered : MsgOf[e] # m
    BY <1>2, <1>3, <1>7, <2>3 DEF Retained, EntriesOf
  <2> QED BY <2>2, <2>3
<1>8. /\ Retained \in SUBSET Entry
      /\ \A e \in Retained : MsgOf[e] \in accepted \cup LegacyMsg
  BY DEF PInv, TypeOK, MemoryInv, MemorySound, Retained
<1> QED BY <1>5, <1>6, <1>7, <1>8

\* Marking finished messages as sent leaves sound files.
LEMMA MarkedFacts ==
  ASSUME PInv, open, NEW S \in SUBSET Finished
  PROVE  /\ Marked(S) \in Disk /\ Marked(S).journal = None
         /\ Marked(S).outbox = Ensured.outbox
         /\ Recovered(Marked(S)) = Marked(S)
         /\ \A m \in Msg : Marked(S).log[m] = IF m \in S THEN "sent" ELSE Ensured.log[m]
         /\ DiskSound(Marked(S), accepted, cancelled, handed, Net)
<1> DEFINE log == MarkSent(Ensured.log, S)
<1>1. /\ Ensured \in Disk /\ Ensured.journal = None /\ Ensured.log \in [Msg -> State]
      /\ DiskSound(Ensured, accepted, cancelled, handed, Net)
      /\ Recovered(Ensured) = Ensured
  BY EnsuredFacts DEF Disk
<1>2. /\ log \in [Msg -> State]
      /\ \A m \in Msg : log[m] = IF m \in S THEN "sent" ELSE Ensured.log[m]
  BY <1>1 DEF MarkSent, State
<1> HIDE DEF log
<1>3. CASE S = {}
  BY <1>1, <1>3 DEF Marked
<1>4. CASE S # {}
  <2>1. Marked(S) = Appended(Ensured, log)
    BY <1>4 DEF Marked, log
  <2>2. /\ Marked(S) \in Disk /\ Marked(S).journal = None
        /\ Marked(S).outbox = Ensured.outbox /\ Marked(S).log = log
    BY <1>1, <1>2, <2>1, AppendedFields
  <2>3. Recovered(Marked(S)) = Marked(S)
    BY <2>2, RecoveredFields
  <2>4. \A m \in Msg \ accepted : log[m] = "absent"
    BY <1>1, <1>2, FinishedFacts DEF DiskSound
  <2>5. \A m \in Msg : Moves(m, Ensured.log[m], log[m], cancelled, handed)
    BY <1>2, FinishedFacts DEF Moves
  <2>6. accepted \in SUBSET Msg /\ Net \in SUBSET Entry
    BY DEF PInv, TypeOK, Net, InFlight
  <2>7. DiskSound(Marked(S), accepted, cancelled, handed, Net)
    BY <1>1, <1>2, <2>1, <2>4, <2>5, <2>6, AppendSound
  <2> QED BY <1>2, <2>2, <2>3, <2>7
<1> QED BY <1>3, <1>4

\* So does dropping their entries from the outbox afterwards.
LEMMA StoredFacts ==
  ASSUME PInv, open
  PROVE  LET d == [Marked(Finished) EXCEPT !.outbox = Retained] IN
         /\ d \in Disk /\ d.journal = None /\ d.log = Marked(Finished).log
         /\ d.outbox = Retained /\ Recovered(d) = d
         /\ DiskSound(d, accepted, cancelled, handed, Net)
<1> DEFINE b == Marked(Finished)
           d == [b EXCEPT !.outbox = Retained]
<1>1. /\ b \in Disk /\ b.journal = None
      /\ \A m \in Msg : b.log[m] = IF m \in Finished THEN "sent" ELSE Ensured.log[m]
      /\ DiskSound(b, accepted, cancelled, handed, Net)
  BY MarkedFacts
<1> HIDE DEF b
<1>2. Retained \in SUBSET Entry
  BY FinishedFacts
<1>3. d \in Disk /\ d.journal = None /\ d.log = b.log /\ d.outbox = Retained
  BY <1>1, <1>2 DEF Disk
<1>4. accepted \in SUBSET Msg /\ Net \in SUBSET Entry
  BY DEF PInv, TypeOK, Net, InFlight
<1>5. \A m \in Msg : b.log[m] = "queued" /\ ~Gone(m, cancelled) =>
        /\ EntriesOf(m) \cap Retained # {}
        /\ EntriesOf(m) \ handed \subseteq Retained
  BY <1>1, FinishedFacts
<1>6. DiskSound(d, accepted, cancelled, handed, Net)
  BY <1>1, <1>2, <1>4, <1>5, FinishedFacts, RewriteSound
<1>7. Recovered(d) = d
  BY <1>3, RecoveredFields
<1> QED BY <1>3, <1>6, <1>7 DEF b

\* Every disk a flush can stop at, after the messages of S are marked.
FlushDisk(S, x) ==
  \/ \E m \in Finished \ S : x \in AppendStops(Marked(S), MarkSent(Marked(S).log, {m}))
  \/ S = Finished /\ x \in {Marked(S), [Marked(S) EXCEPT !.outbox = Retained]}

\* Every disk a stopped flush can leave is sound.
LEMMA FlushDisks ==
  ASSUME PInv, open, NEW S \in SUBSET Finished,
         NEW x, FlushDisk(S, x)
  PROVE  /\ x \in Disk /\ x.journal = None /\ x.log = Marked(S).log /\ Recovered(x) = x
         /\ x.outbox \in {Ensured.outbox, Retained}
         /\ DiskSound(x, accepted, cancelled, handed, Net)
<1> DEFINE b == Marked(S)
<1>1. /\ b \in Disk /\ b.journal = None /\ b.outbox = Ensured.outbox /\ Recovered(b) = b
      /\ \A m \in Msg : b.log[m] = IF m \in S THEN "sent" ELSE Ensured.log[m]
      /\ DiskSound(b, accepted, cancelled, handed, Net)
  BY MarkedFacts
<1>2. b.log \in [Msg -> State]
  BY <1>1 DEF Disk
<1>3. ASSUME NEW m \in Finished \ S, NEW y \in AppendStops(b, MarkSent(b.log, {m}))
      PROVE  /\ y \in Disk /\ y.journal = None /\ y.log = b.log /\ Recovered(y) = y
             /\ y.outbox = Ensured.outbox
             /\ DiskSound(y, accepted, cancelled, handed, Net)
  <2> DEFINE log == MarkSent(b.log, {m})
  <2>1. /\ log \in [Msg -> State]
        /\ \A n \in Msg : log[n] = IF n = m THEN "sent" ELSE b.log[n]
    BY <1>2 DEF MarkSent, State
  <2> HIDE DEF log, b
  <2>2. /\ y \in Disk /\ y.journal = None /\ y.log = b.log /\ y.outbox = Ensured.outbox
    BY <1>1, <1>3, <2>1, AppendStopsFields DEF log
  <2>3. Recovered(y) = y
    BY <2>2, RecoveredFields
  <2>4. m \in Msg /\ m \in accepted
    BY FinishedFacts DEF Finished
  <2>5. \A n \in Msg \ accepted : log[n] = "absent"
    BY <1>1, <2>1, <2>4 DEF DiskSound
  <2>6. \A n \in Msg : Moves(n, b.log[n], log[n], cancelled, handed)
    BY <1>1, <2>1, FinishedFacts DEF Moves
  <2>7. accepted \in SUBSET Msg /\ Net \in SUBSET Entry
    BY DEF PInv, TypeOK, Net, InFlight
  <2>8. DiskSound(y, accepted, cancelled, handed, Net)
    BY <1>1, <1>3, <2>1, <2>5, <2>6, <2>7, AppendSound DEF log
  <2> QED BY <2>2, <2>3, <2>8
<1>4. CASE \E m \in Finished \ S : x \in AppendStops(b, MarkSent(b.log, {m}))
  BY <1>3, <1>4
<1>5. CASE S = Finished /\ x = b
  BY <1>1, <1>5
<1>6. CASE S = Finished /\ x = [b EXCEPT !.outbox = Retained]
  <2>1. x = [Marked(Finished) EXCEPT !.outbox = Retained] /\ Marked(S) = Marked(Finished)
    BY <1>6
  <2>2. /\ x \in Disk /\ x.journal = None /\ x.log = Marked(Finished).log
        /\ x.outbox = Retained /\ Recovered(x) = x
        /\ DiskSound(x, accepted, cancelled, handed, Net)
    BY <2>1, StoredFacts
  <2> QED BY <2>1, <2>2
<1> QED BY <1>4, <1>5, <1>6 DEF FlushDisk

\* A flush stopped half-way preserves the invariant.
LEMMA FlushStopsKeeps ==
  ASSUME PInv, FlushStops
  PROVE  PInv'
<1>0. /\ open /\ loaded' = TRUE
      /\ UNCHANGED <<open, outbox, contacts, orphan, handed, accepted, rejected, cancelled, restarts>>
  BY DEF FlushStops, historyVars
<1>1. PICK S \in SUBSET Finished :
        /\ \/ \E m \in Finished \ S :
                Stopped(AppendStops(Marked(S), MarkSent(Marked(S).log, {m})))
           \/ S = Finished /\ Stopped({Marked(S), [Marked(S) EXCEPT !.outbox = Retained]})
        /\ messages' = MarkSent(History, S)
  BY DEF FlushStops
<1>2. PICK D \in Startable(outbox, History, InFlight) : Poll(D, {})
  BY DEF FlushStops
<1>3. /\ disk' \in Disk /\ disk'.journal = None /\ disk'.log = Marked(S).log
      /\ Recovered(disk') = disk' /\ disk'.outbox \in {Ensured.outbox, Retained}
      /\ DiskSound(disk', accepted, cancelled, handed, Net)
      /\ faults' \in Nat
  <2>1. faults' \in Nat
    <3>1. Fault
      BY <1>1 DEF Stopped
    <3> QED BY <3>1 DEF Fault, PInv, TypeOK
  <2>2. FlushDisk(S, disk')
    BY <1>1 DEF Stopped, FlushDisk
  <2> QED BY <1>0, <2>1, <2>2, FlushDisks
<1>4. \A m \in Msg : Marked(S).log[m] = IF m \in S THEN "sent" ELSE Ensured.log[m]
  BY <1>0, MarkedFacts
<1>5. /\ messages' \in [Msg -> State]
      /\ \A m \in Msg : messages'[m] = IF m \in S THEN "sent" ELSE History[m]
  BY <1>1, HistoryFacts DEF MarkSent, State
<1>6. /\ accepted \in SUBSET Msg /\ outbox \in SUBSET Entry /\ Net \in SUBSET Entry
  BY DEF PInv, TypeOK, Net, InFlight
<1>7. /\ worker' \in [Entry -> {"idle", "running", "delivered", "failed"}]
      /\ \A e \in Entry : worker'[e] = "delivered" => worker[e] = "delivered"
      /\ Net' \in SUBSET Entry /\ Net' \subseteq Net \cup D
  BY <1>0, <1>2, <1>6, PollFacts
<1>8. Shows(History, disk', accepted, cancelled)
  BY <1>3, <1>4, HistoryFacts, EnsuredFacts DEF Shows
<1>9. DiskSound(disk', accepted, cancelled, handed, Net')
  BY <1>3, <1>6, <1>7, <1>8, StartSound
<1>10. TypeOK'
  BY <1>0, <1>3, <1>5, <1>7 DEF PInv, TypeOK
<1>11. DiskInv'
  BY <1>0, <1>9 DEF DiskInv
<1>12. MemoryInv'
  <2>1. disk'.outbox \subseteq outbox
    <3>1. Ensured.outbox \subseteq outbox
      BY <1>0, EnsuredFacts DEF PInv, MemoryInv, MemorySound, Durable
    <3> QED BY <1>3, <3>1 DEF Retained
  <2>2. \A m \in Msg : Gone(m, cancelled) \/ messages'[m] = disk'.log[m]
    BY <1>3, <1>4, <1>5, HistoryFacts, EnsuredFacts
  <2>3. \A m \in Msg : \/ Gone(m, cancelled)
                       \/ messages'[m] = "sent" => EntriesOf(m) \subseteq handed
    BY <1>0, <1>5, HistoryFacts, FinishedFacts
  <2>4. \A m \in Msg \ accepted : messages'[m] = "absent"
    BY <1>0, <1>5, HistoryFacts, FinishedFacts
  <2> QED BY <1>0, <1>3, <1>7, <2>1, <2>2, <2>3, <2>4 DEF PInv, MemoryInv, MemorySound
<1> QED BY <1>10, <1>11, <1>12 DEF PInv

\* A completed flush preserves the invariant.
LEMMA FlushCommitsKeeps ==
  ASSUME PInv, FlushCommits
  PROVE  PInv'
<1>0. /\ open /\ loaded' = TRUE /\ outbox' = Retained
      /\ messages' = MarkSent(History, Finished)
      /\ disk' = [Marked(Finished) EXCEPT !.outbox = Retained]
      /\ UNCHANGED <<open, contacts, orphan, handed, accepted, rejected, cancelled, restarts>>
  BY DEF FlushCommits, historyVars
<1>1. PICK acked, busy, D : D \in Startable(outbox', messages', busy) /\ Poll(D, acked)
  BY DEF FlushCommits
<1>2. faults' \in Nat
  BY DEF FlushCommits, Fault, NoFault, PInv, TypeOK
<1>3. /\ disk' \in Disk /\ disk'.journal = None /\ disk'.log = Marked(Finished).log
      /\ Recovered(disk') = disk' /\ disk'.outbox = Retained
      /\ DiskSound(disk', accepted, cancelled, handed, Net)
  BY <1>0, StoredFacts
<1>4. \A m \in Msg : Marked(Finished).log[m] = IF m \in Finished THEN "sent" ELSE Ensured.log[m]
  BY <1>0, MarkedFacts
<1>5. /\ messages' \in [Msg -> State]
      /\ \A m \in Msg : messages'[m] = IF m \in Finished THEN "sent" ELSE History[m]
  BY <1>0, HistoryFacts DEF MarkSent, State
<1>6. /\ accepted \in SUBSET Msg /\ outbox' \in SUBSET Entry /\ Net \in SUBSET Entry
  BY <1>0, FinishedFacts DEF PInv, TypeOK, Net, InFlight
<1>7. /\ worker' \in [Entry -> {"idle", "running", "delivered", "failed"}]
      /\ \A e \in Entry : worker'[e] = "delivered" => worker[e] = "delivered"
      /\ Net' \in SUBSET Entry /\ Net' \subseteq Net \cup D
  BY <1>0, <1>1, <1>6, PollFacts
<1>8. Shows(messages', disk', accepted, cancelled)
  BY <1>0, <1>3, <1>4, <1>5, HistoryFacts, EnsuredFacts, FinishedFacts DEF Shows
<1>9. DiskSound(disk', accepted, cancelled, handed, Net')
  BY <1>1, <1>3, <1>6, <1>7, <1>8, StartSound
<1>10. TypeOK'
  BY <1>0, <1>2, <1>3, <1>5, <1>6, <1>7 DEF PInv, TypeOK
<1>11. DiskInv'
  BY <1>0, <1>9 DEF DiskInv
<1>12. MemoryInv'
  <2>1. \A m \in Msg : Gone(m, cancelled) \/ messages'[m] = disk'.log[m]
    BY <1>3, <1>4, <1>5, HistoryFacts, EnsuredFacts
  <2>2. \A m \in Msg : \/ Gone(m, cancelled)
                       \/ messages'[m] = "sent" => EntriesOf(m) \subseteq handed
    BY <1>0, <1>5, HistoryFacts, FinishedFacts
  <2>3. \A m \in Msg \ accepted : messages'[m] = "absent"
    BY <1>0, <1>5, HistoryFacts, FinishedFacts
  <2>4. \A e \in Retained : MsgOf[e] \in accepted \cup LegacyMsg
    BY <1>0, FinishedFacts
  <2> QED BY <1>0, <1>3, <1>7, <2>1, <2>2, <2>3, <2>4 DEF PInv, MemoryInv, MemorySound
<1> QED BY <1>10, <1>11, <1>12 DEF PInv

(***************************************************************************)
(* Deleting a conversation.                                                *)
(***************************************************************************)

\* The contacts file does not matter to the soundness of the rest.
LEMMA ContactsSound ==
  ASSUME NEW d, NEW acc \in SUBSET Msg, NEW can, NEW han, NEW net \in SUBSET Entry,
         DiskSound(d, acc, can, han, net), d.journal = None, NEW C \in SUBSET Conv
  PROVE  DiskSound([d EXCEPT !.contacts = C], acc, can, han, net)
<1> DEFINE x == [d EXCEPT !.contacts = C]
<1>1. /\ d \in Disk /\ x \in Disk /\ x.log = d.log /\ x.torn = d.torn
      /\ x.journal = None /\ x.outbox = d.outbox
  BY DEF DiskSound, Disk
<1> HIDE DEF x
<1>2. \A m \in Msg \ acc : x.log[m] = "absent" /\ x.torn[m] = "absent"
  BY <1>1 DEF DiskSound
<1>3. \A m \in Msg : Moves(m, d.log[m], x.log[m], can, han)
  BY <1>1 DEF Moves
<1>4. \A m \in Msg : Moves(m, x.log[m], x.torn[m], can, han)
  BY <1>1, OutboxAssumption DEF DiskSound, Moves
<1>5. DiskSound(x, acc, can, han, net)
  BY <1>1, <1>2, <1>3, <1>4, RowsSound
<1> QED BY <1>5 DEF x

\* Cancelling a conversation keeps the entries of every other.
LEMMA KeptFacts ==
  ASSUME PInv, open, NEW c \in Conv
  PROVE  /\ Kept(c) \in SUBSET Entry /\ Kept(c) \subseteq outbox
         /\ \A m \in Msg : ConvOf[m] # c => EntriesOf(m) \cap outbox \subseteq Kept(c)
         /\ \A e \in Kept(c) : MsgOf[e] \in accepted \cup LegacyMsg
BY DEF PInv, TypeOK, MemoryInv, MemorySound, Kept, EntriesOf

\* The disks a deletion passes through are sound once c counts as cancelled.
Fine(x, box, c) ==
  /\ DiskSound(x, accepted, cancelled \cup {c}, handed, Net)
  /\ Recovered(x) = x
  /\ x.outbox \subseteq box
  /\ \A m \in Msg : Gone(m, cancelled \cup {c}) \/ x.log[m] = Ensured.log[m]

\* Every disk a deletion can leave is sound.
LEMMA DeleteFacts ==
  ASSUME PInv, open, NEW c \in Conv
  PROVE  /\ Fine(Ensured, outbox, c) /\ Fine(Shed(c), outbox, c)
         /\ Fine(Cut(c), Kept(c), c) /\ Fine(Removed(c), Kept(c), c)
         /\ Fine(Appended(Removed(c), Without(Removed(c).log, c)), Kept(c), c)
         /\ \A x \in AppendStops(Removed(c), Without(Removed(c).log, c)) : Fine(x, Kept(c), c)
<1> DEFINE can == cancelled \cup {c}
           fine(x, box) == /\ DiskSound(x, accepted, can, handed, Net)
                           /\ Recovered(x) = x
                           /\ x.outbox \subseteq box
                           /\ \A m \in Msg : Gone(m, can) \/ x.log[m] = Ensured.log[m]
<1>1. accepted \in SUBSET Msg /\ Net \in SUBSET Entry /\ contacts \ {c} \in SUBSET Conv
  BY DEF PInv, TypeOK, Net, InFlight
<1>2. /\ Ensured \in Disk /\ Ensured.journal = None /\ Recovered(Ensured) = Ensured
      /\ DiskSound(Ensured, accepted, can, handed, Net)
      /\ Ensured.outbox \subseteq outbox
  <2>1. DiskSound(Ensured, accepted, can, handed, Net)
    BY <1>1, EnsuredFacts, CancelGrows
  <2>2. Ensured.outbox \subseteq outbox
    BY EnsuredFacts DEF PInv, MemoryInv, MemorySound, Durable
  <2> QED BY <2>1, <2>2, EnsuredFacts
<1>3. fine(Ensured, outbox)
  BY <1>2
<1>4. /\ Shed(c) \in Disk /\ Shed(c).journal = None /\ Shed(c).log = Ensured.log
      /\ Shed(c).outbox = Kept(c) /\ fine(Shed(c), Kept(c))
  <2>1. /\ Shed(c) \in Disk /\ Shed(c).journal = None /\ Shed(c).log = Ensured.log
        /\ Shed(c).outbox = Kept(c)
    BY <1>2, KeptFacts DEF Shed, Disk
  <2>2. Recovered(Shed(c)) = Shed(c)
    BY <2>1, RecoveredFields
  <2>3. ASSUME NEW m \in Msg, Ensured.log[m] = "queued", ~Gone(m, can)
        PROVE  /\ EntriesOf(m) \cap Kept(c) # {}
               /\ EntriesOf(m) \ handed \subseteq Kept(c)
    <3>1. EntriesOf(m) \cap outbox \subseteq Kept(c)
      BY <2>3, KeptFacts DEF Gone
    <3>2. /\ EntriesOf(m) \cap Ensured.outbox # {}
          /\ EntriesOf(m) \ handed \subseteq Ensured.outbox
      BY <1>2, <2>3 DEF DiskSound
    <3> QED BY <1>2, <3>1, <3>2
  <2>4. DiskSound(Shed(c), accepted, can, handed, Net)
    BY <1>1, <1>2, <2>3, KeptFacts, RewriteSound DEF Shed
  <2> QED BY <2>1, <2>2, <2>4
<1>5. /\ Cut(c) \in Disk /\ Cut(c).journal = None /\ Cut(c).log = Ensured.log
      /\ fine(Cut(c), Kept(c))
  BY <1>2, <1>3, <1>4 DEF Cut
<1>6. /\ Removed(c) \in Disk /\ Removed(c).journal = None /\ Removed(c).log = Ensured.log
      /\ fine(Removed(c), Kept(c))
  <2>1. /\ Removed(c) \in Disk /\ Removed(c).journal = None /\ Removed(c).log = Ensured.log
        /\ Removed(c).outbox = Cut(c).outbox
    BY <1>1, <1>5 DEF Removed, Disk
  <2>2. Recovered(Removed(c)) = Removed(c)
    BY <2>1, RecoveredFields
  <2>3. DiskSound(Removed(c), accepted, can, handed, Net)
    BY <1>1, <1>5, ContactsSound DEF Removed
  <2> QED BY <1>5, <2>1, <2>2, <2>3
<1> DEFINE r == Removed(c)
           log == Without(r.log, c)
<1>7. /\ log \in [Msg -> State]
      /\ \A m \in Msg : log[m] = IF ConvOf[m] = c THEN "absent" ELSE r.log[m]
  BY <1>6 DEF Without, Disk, State
<1> HIDE DEF r, log
<1>8. /\ r \in Disk /\ r.journal = None /\ r.log = Ensured.log /\ fine(r, Kept(c))
  BY <1>6 DEF r
<1>9. \A m \in Msg \ accepted : log[m] = "absent"
  BY <1>7, <1>8 DEF DiskSound
<1>10. \A m \in Msg : Moves(m, r.log[m], log[m], can, handed)
  BY <1>7 DEF Moves, Gone
<1>11. fine(Appended(r, log), Kept(c))
  <2>1. DiskSound(Appended(r, log), accepted, can, handed, Net)
    BY <1>1, <1>7, <1>8, <1>9, <1>10, AppendSound
  <2>2. /\ Appended(r, log) \in Disk /\ Appended(r, log).log = log
        /\ Appended(r, log).outbox = r.outbox /\ Appended(r, log).journal = None
    BY <1>7, <1>8, AppendedFields
  <2>3. Recovered(Appended(r, log)) = Appended(r, log)
    BY <2>2, RecoveredFields
  <2> QED BY <1>7, <1>8, <2>1, <2>2, <2>3 DEF Gone
<1>12. ASSUME NEW x \in AppendStops(r, log) PROVE fine(x, Kept(c))
  <2>1. DiskSound(x, accepted, can, handed, Net)
    BY <1>1, <1>7, <1>8, <1>9, <1>10, AppendSound
  <2>2. /\ x \in Disk /\ x.log = r.log /\ x.outbox = r.outbox /\ x.journal = None
    BY <1>7, <1>8, AppendStopsFields
  <2>3. Recovered(x) = x
    BY <2>2, RecoveredFields
  <2> QED BY <1>8, <2>1, <2>2, <2>3
<1>13. fine(Shed(c), outbox)
  BY <1>4, KeptFacts
<1> QED BY <1>3, <1>5, <1>6, <1>11, <1>12, <1>13 DEF r, log, Fine

\* A deletion stopped half-way preserves the invariant.
LEMMA DeleteStopsKeeps ==
  ASSUME PInv, NEW c \in Conv, DeleteStops(c)
  PROVE  PInv'
<1>1. /\ open
      /\ UNCHANGED <<open, contacts, worker, orphan, handed, accepted, rejected, restarts>>
  BY DEF DeleteStops, CanDelete, networkVars
<1>2. faults' \in Nat
  <2>1. Fault
    BY DEF DeleteStops, Stopped
  <2> QED BY <2>1 DEF Fault, PInv, TypeOK
<1>3. Net' = Net
  BY <1>1 DEF Net, InFlight
<1>4. CASE Stopped(EnsureStops) /\ UNCHANGED <<loaded, messages, outbox, cancelled>>
  <2>1. /\ disk' \in Disk /\ DiskSound(disk', accepted, cancelled, handed, Net)
        /\ Recovered(disk').log = Durable.log /\ Recovered(disk').outbox = Durable.outbox
    BY <1>4, EnsuredFacts DEF DiskSound, Stopped
  <2>2. TypeOK'
    BY <1>1, <1>2, <1>4, <2>1 DEF PInv, TypeOK
  <2>3. DiskInv'
    BY <1>1, <1>3, <1>4, <2>1 DEF DiskInv
  <2>4. MemoryInv'
    BY <1>1, <1>4, <2>1 DEF PInv, MemoryInv, MemorySound, Durable
  <2> QED BY <2>2, <2>3, <2>4 DEF PInv
<1>5. CASE /\ loaded' = TRUE /\ messages' = History
           /\ cancelled' = cancelled \cup {c}
           /\ \/ /\ Kept(c) # outbox
                 /\ Stopped({Ensured, Shed(c)}) /\ outbox' = outbox
              \/ /\ Stopped({Cut(c), Removed(c)}
                            \cup AppendStops(Removed(c), Without(Removed(c).log, c)))
                 /\ outbox' = Kept(c)
  <2>1. /\ DiskSound(disk', accepted, cancelled', handed, Net)
        /\ Recovered(disk') = disk' /\ disk'.outbox \subseteq outbox'
        /\ \A m \in Msg : Gone(m, cancelled') \/ disk'.log[m] = Ensured.log[m]
    <3>1. Fine(disk', outbox', c)
      <4>1. CASE disk' \in {Ensured, Shed(c)} /\ outbox' = outbox
        BY <1>1, <4>1, DeleteFacts
      <4>2. CASE disk' \in {Cut(c), Removed(c)} /\ outbox' = Kept(c)
        BY <1>1, <4>2, DeleteFacts
      <4>3. CASE /\ disk' \in AppendStops(Removed(c), Without(Removed(c).log, c))
                 /\ outbox' = Kept(c)
        BY <1>1, <4>3, DeleteFacts
      <4> QED BY <1>5, <4>1, <4>2, <4>3 DEF Stopped
    <3> QED BY <1>5, <3>1 DEF Fine
  <2>2. /\ outbox' \in SUBSET Entry
        /\ \A e \in outbox' : MsgOf[e] \in accepted \cup LegacyMsg
    BY <1>1, <1>5, KeptFacts DEF PInv, TypeOK, MemoryInv, MemorySound
  <2>3. disk' \in Disk
    BY <2>1 DEF DiskSound
  <2>4. TypeOK'
    BY <1>1, <1>2, <1>5, <2>2, <2>3, HistoryFacts DEF PInv, TypeOK
  <2>5. DiskInv'
    BY <1>1, <1>3, <2>1 DEF DiskInv
  <2>6. \A m \in Msg : Gone(m, cancelled') \/ messages'[m] = disk'.log[m]
    BY <1>5, <2>1, HistoryFacts, EnsuredFacts DEF Gone
  <2>7. \A m \in Msg : \/ Gone(m, cancelled')
                       \/ messages'[m] = "sent" => EntriesOf(m) \subseteq handed
    BY <1>5, HistoryFacts DEF Gone
  <2>8. MemoryInv'
    BY <1>1, <1>5, <2>1, <2>2, <2>6, <2>7, HistoryFacts DEF PInv, MemoryInv, MemorySound
  <2> QED BY <2>4, <2>5, <2>8 DEF PInv
<1> QED BY <1>4, <1>5 DEF DeleteStops

\* A completed deletion preserves the invariant.
LEMMA DeleteCommitsKeeps ==
  ASSUME PInv, NEW c \in Conv, DeleteCommits(c)
  PROVE  PInv'
<1>1. /\ open /\ loaded' = TRUE /\ messages' = Without(History, c)
      /\ outbox' = Kept(c) /\ contacts' \in SUBSET Conv
      /\ cancelled' = cancelled \cup {c} /\ faults' = faults
      /\ UNCHANGED <<open, worker, orphan, handed, accepted, rejected, restarts>>
  BY DEF DeleteCommits, CanDelete, networkVars, NoFault, PInv, TypeOK
<1>2. Net' = Net
  BY <1>1 DEF Net, InFlight
<1>3. /\ DiskSound(disk', accepted, cancelled', handed, Net)
      /\ Recovered(disk') = disk' /\ disk'.outbox \subseteq outbox'
      /\ \A m \in Msg : Gone(m, cancelled') \/ disk'.log[m] = Ensured.log[m]
  BY <1>1, DeleteFacts DEF DeleteCommits, Fine
<1>4. /\ messages' \in [Msg -> State]
      /\ \A m \in Msg : messages'[m] = IF ConvOf[m] = c THEN "absent" ELSE History[m]
  BY <1>1, HistoryFacts DEF Without, State
<1>5. /\ outbox' \in SUBSET Entry
      /\ \A e \in outbox' : MsgOf[e] \in accepted \cup LegacyMsg
  BY <1>1, KeptFacts
<1>6. TypeOK'
  <2>1. disk' \in Disk
    BY <1>3 DEF DiskSound
  <2> QED BY <1>1, <1>4, <1>5, <2>1 DEF PInv, TypeOK
<1>7. DiskInv'
  BY <1>1, <1>2, <1>3 DEF DiskInv
<1>8. MemoryInv'
  <2>1. \A m \in Msg : Gone(m, cancelled') \/ messages'[m] = disk'.log[m]
    BY <1>1, <1>3, <1>4, HistoryFacts, EnsuredFacts DEF Gone
  <2>2. \A m \in Msg : \/ Gone(m, cancelled')
                       \/ messages'[m] = "sent" => EntriesOf(m) \subseteq handed
    BY <1>1, <1>4, HistoryFacts DEF Gone
  <2>3. \A m \in Msg \ accepted : messages'[m] = "absent"
    BY <1>4, HistoryFacts
  <2> QED BY <1>1, <1>3, <1>5, <2>1, <2>2, <2>3 DEF PInv, MemoryInv, MemorySound
<1> QED BY <1>6, <1>7, <1>8 DEF PInv

(***************************************************************************)
(* Recovery, restarts and workers.                                         *)
(***************************************************************************)

\* What the next start reads is sound.
LEMMA DurableFacts ==
  ASSUME PInv
  PROVE  /\ Durable \in Disk /\ Durable.journal = None
         /\ Recovered(Durable) = Durable
         /\ DiskSound(Durable, accepted, cancelled, handed, Net)
         /\ \A x \in RecoverStops(disk) :
              /\ DiskSound(x, accepted, cancelled, handed, Net)
              /\ Recovered(x).log = Durable.log /\ Recovered(x).outbox = Durable.outbox
<1>1. disk \in Disk /\ accepted \in SUBSET Msg /\ Net \in SUBSET Entry
  BY DEF PInv, TypeOK, Net, InFlight
<1>2. DiskSound(disk, accepted, cancelled, handed, Net)
  BY DEF PInv, DiskInv
<1>3. Durable \in Disk /\ Durable.journal = None
  BY <1>1, RecoveredFields DEF Durable
<1>4. Recovered(Durable) = Durable
  BY <1>3, RecoveredFields
<1>5. DiskSound(Durable, accepted, cancelled, handed, Net)
  BY <1>1, <1>2, RecoverSound DEF Durable
<1>6. \A x \in RecoverStops(disk) :
        /\ DiskSound(x, accepted, cancelled, handed, Net)
        /\ Recovered(x).log = Durable.log /\ Recovered(x).outbox = Durable.outbox
  BY <1>1, <1>2, RecoverSound, RecoverStopsFields DEF Durable
<1> QED BY <1>3, <1>4, <1>5, <1>6

\* Rewriting the outbox when the network returns preserves the invariant.
LEMMA NetworkRecoveredKeeps ==
  ASSUME PInv, NetworkRecovered
  PROVE  PInv'
<1>1. /\ open
      /\ UNCHANGED <<memoryVars, networkVars, historyVars, restarts>>
  BY DEF NetworkRecovered
<1>2. faults' \in Nat
  <2>1. Fault \/ NoFault
    BY DEF NetworkRecovered, Stopped
  <2> QED BY <2>1 DEF Fault, NoFault, PInv, TypeOK
<1> DEFINE new == [Durable EXCEPT !.outbox = outbox]
<1>3. /\ Durable.outbox \subseteq outbox /\ outbox \in SUBSET Entry
      /\ \A e \in outbox : MsgOf[e] \in accepted \cup LegacyMsg
      /\ accepted \in SUBSET Msg /\ Net \in SUBSET Entry
  BY <1>1 DEF PInv, TypeOK, MemoryInv, MemorySound, Durable, Net, InFlight
<1>4. /\ new \in Disk /\ new.journal = None /\ new.log = Durable.log /\ new.outbox = outbox
      /\ Recovered(new) = new
  <2>1. /\ new \in Disk /\ new.journal = None /\ new.log = Durable.log
        /\ new.outbox = outbox
    BY <1>3, DurableFacts DEF Disk
  <2> HIDE DEF new
  <2> QED BY <2>1, RecoveredFields
<1>5. DiskSound(new, accepted, cancelled, handed, Net)
  <2>1. \A m \in Msg : Durable.log[m] = "queued" /\ ~Gone(m, cancelled) =>
          /\ EntriesOf(m) \cap outbox # {}
          /\ EntriesOf(m) \ handed \subseteq outbox
    BY <1>3, DurableFacts DEF DiskSound
  <2> QED BY <1>3, <2>1, DurableFacts, RewriteSound
<1> HIDE DEF new
<1>6. disk' \in RecoverStops(disk) \cup {Durable, new}
  BY DEF NetworkRecovered, Stopped, Durable, new
<1>7. /\ disk' \in Disk /\ DiskSound(disk', accepted, cancelled, handed, Net)
      /\ Recovered(disk').log = Durable.log /\ Recovered(disk').outbox \subseteq outbox
  BY <1>3, <1>4, <1>5, <1>6, DurableFacts DEF DiskSound
<1> USE <1>1 DEF memoryVars, networkVars, historyVars
<1>8. TypeOK'
  BY <1>2, <1>7 DEF PInv, TypeOK
<1>9. DiskInv'
  BY <1>7 DEF DiskInv, Net, InFlight
<1>10. MemoryInv'
  BY <1>7 DEF PInv, MemoryInv, MemorySound, Durable
<1> QED BY <1>8, <1>9, <1>10 DEF PInv

\* Fewer or confirmed workers.
LEMMA QuietSound ==
  ASSUME PInv, Net' \subseteq Net, handed \subseteq handed', handed' \in SUBSET Entry,
         NEW d, DiskSound(d, accepted, cancelled, handed, Net)
  PROVE  DiskSound(d, accepted, cancelled, handed', Net')
<1>1. accepted \in SUBSET Msg /\ Net \in SUBSET Entry /\ Net' \in SUBSET Entry
  BY DEF PInv, TypeOK, Net, InFlight
<1> QED BY <1>1, NetGrows

\* Locking the vault preserves the invariant.
LEMMA WipeKeeps ==
  ASSUME PInv, Wipe
  PROVE  PInv'
<1>1. /\ open' = FALSE /\ loaded' = FALSE
      /\ messages' = [m \in Msg |-> "absent"]
      /\ outbox' = {} /\ contacts' = {} /\ worker' = NoWorkers
      /\ orphan' = orphan \cup Ended("running")
      /\ restarts' = restarts + 1
      /\ UNCHANGED <<disk, faults, handed, accepted, rejected, cancelled>>
  BY DEF Wipe, Forget, DropTransport, Restart, diskVars, historyVars
<1>2. Ended("running") \subseteq InFlight /\ InFlight' = {}
  BY <1>1 DEF Ended, InFlight, NoWorkers
<1>3. TypeOK'
  <2>1. open' \in BOOLEAN /\ loaded' \in BOOLEAN
    BY <1>1
  <2>2. /\ messages' \in [Msg -> State] /\ orphan' \in SUBSET Entry
        /\ worker' \in [Entry -> {"idle", "running", "delivered", "failed"}]
    BY <1>1 DEF PInv, TypeOK, NoWorkers, State, Ended
  <2>3. restarts' \in Nat
    BY <1>1 DEF PInv, TypeOK
  <2> QED BY <1>1, <2>1, <2>2, <2>3 DEF PInv, TypeOK
<1>4. DiskInv'
  <2>1. Net' \subseteq Net
    BY <1>1, <1>2 DEF Net
  <2>2. handed' \in SUBSET Entry
    BY <1>3 DEF TypeOK
  <2> QED BY <1>1, <2>1, <2>2, QuietSound DEF PInv, DiskInv
<1>5. MemoryInv'
  BY <1>1 DEF PInv, MemoryInv, MemorySound, NoWorkers
<1> QED BY <1>3, <1>4, <1>5 DEF PInv

\* The death of the process preserves the invariant.
LEMMA CrashKeeps ==
  ASSUME PInv, Crash
  PROVE  PInv'
<1>1. /\ open' = FALSE /\ loaded' = FALSE
      /\ messages' = [m \in Msg |-> "absent"]
      /\ outbox' = {} /\ contacts' = {} /\ worker' = NoWorkers
      /\ orphan' = {} /\ restarts' = restarts + 1
      /\ UNCHANGED <<faults, handed, accepted, rejected, cancelled>>
  BY DEF Crash, Forget, Restart, historyVars
<1>2. PICK log \in {disk.log, disk.torn} : disk' = Appended(disk, log)
  BY DEF Crash
<1>3. InFlight' = {}
  BY <1>1 DEF InFlight, NoWorkers
<1>4. DiskSound(disk', accepted, cancelled, handed, Net)
  BY <1>2, CrashSound DEF PInv, DiskInv, TypeOK, Net, InFlight
<1>5. TypeOK'
  <2>1. open' \in BOOLEAN /\ loaded' \in BOOLEAN
    BY <1>1
  <2>2. /\ messages' \in [Msg -> State]
        /\ worker' \in [Entry -> {"idle", "running", "delivered", "failed"}]
    BY <1>1 DEF NoWorkers, State
  <2>3. disk' \in Disk
    BY <1>4 DEF DiskSound
  <2>4. restarts' \in Nat
    BY <1>1 DEF PInv, TypeOK
  <2> QED BY <1>1, <2>1, <2>2, <2>3, <2>4 DEF PInv, TypeOK
<1>6. DiskInv'
  <2>1. Net' \subseteq Net
    BY <1>1, <1>3 DEF Net
  <2>2. handed' \in SUBSET Entry
    BY <1>5 DEF TypeOK
  <2> QED BY <1>1, <1>4, <2>1, <2>2, QuietSound DEF DiskInv
<1>7. MemoryInv'
  BY <1>1 DEF PInv, MemoryInv, MemorySound, NoWorkers
<1> QED BY <1>5, <1>6, <1>7 DEF PInv

\* Opening the storage preserves the invariant.
LEMMA ConfigureKeeps ==
  ASSUME PInv, Configure
  PROVE  PInv'
<1>1. UNCHANGED <<handed, accepted, rejected, cancelled>>
  BY DEF Configure, historyVars
<1>2. restarts' \in Nat /\ faults' \in Nat
  <2>1. restarts' = restarts \/ restarts' = restarts + 1
    BY DEF Configure, Restart
  <2>2. faults' = faults \/ faults' = faults + 1
    BY DEF Configure, Stopped, Fault, NoFault
  <2> QED BY <2>1, <2>2 DEF PInv, TypeOK
<1>3. CASE /\ disk' = Recovered(disk)
           /\ open' = TRUE /\ loaded' = FALSE
           /\ messages' = [m \in Msg |-> "absent"]
           /\ outbox' = disk'.outbox /\ contacts' = disk'.contacts
           /\ DropTransport
  <2>1. /\ disk' = Durable /\ worker' = NoWorkers /\ orphan' = orphan \cup Ended("running")
    BY <1>3 DEF DropTransport, Durable
  <2>2. /\ disk' \in Disk /\ outbox' \in SUBSET Entry /\ contacts' \in SUBSET Conv
        /\ Recovered(disk') = disk'
        /\ DiskSound(disk', accepted, cancelled, handed, Net)
    BY <1>3, <2>1, DurableFacts DEF Disk
  <2>3. Ended("running") \subseteq InFlight /\ InFlight' = {}
    BY <2>1 DEF Ended, InFlight, NoWorkers
  <2>4. TypeOK'
    BY <1>1, <1>2, <1>3, <2>1, <2>2 DEF PInv, TypeOK, NoWorkers, State, Ended
  <2>5. DiskInv'
    <3>1. Net' \subseteq Net
      BY <1>1, <2>1, <2>3 DEF Net
    <3>2. handed' \in SUBSET Entry
      BY <2>4 DEF TypeOK
    <3> QED BY <1>1, <2>2, <3>1, <3>2, QuietSound DEF DiskInv
  <2>6. MemoryInv'
    <3>1. \A e \in outbox' : MsgOf[e] \in accepted \cup LegacyMsg
      BY <1>3, <2>2 DEF DiskSound
    <3> QED BY <1>1, <1>3, <2>1, <2>2, <3>1 DEF PInv, MemoryInv, MemorySound, NoWorkers
  <2> QED BY <2>4, <2>5, <2>6 DEF PInv
<1>4. CASE /\ Stopped(RecoverStops(disk) \cup {Recovered(disk)})
           /\ UNCHANGED <<memoryVars, worker, orphan>>
  <2>1. /\ disk' \in Disk /\ DiskSound(disk', accepted, cancelled, handed, Net)
        /\ Recovered(disk').log = Durable.log /\ Recovered(disk').outbox = Durable.outbox
    <3>1. disk' \in RecoverStops(disk) \cup {Durable}
      BY <1>4 DEF Stopped, Durable
    <3> QED BY <3>1, DurableFacts DEF DiskSound
  <2> USE <1>4 DEF memoryVars
  <2>2. TypeOK'
    BY <1>1, <1>2, <2>1 DEF PInv, TypeOK
  <2>3. DiskInv'
    BY <1>1, <2>1 DEF DiskInv, Net, InFlight
  <2>4. MemoryInv'
    BY <1>1, <2>1 DEF PInv, MemoryInv, MemorySound, Durable
  <2> QED BY <2>2, <2>3, <2>4 DEF PInv
<1> QED BY <1>3, <1>4 DEF Configure

\* A worker that ends, of this generation or an older one, preserves the invariant.
LEMMA WorkerKeeps ==
  ASSUME PInv, NEW e \in Entry, WorkerDelivers(e) \/ WorkerFails(e) \/ OrphanEnds(e)
  PROVE  PInv'
<1>1. /\ UNCHANGED <<disk, faults, open, loaded, messages, outbox, contacts,
                      accepted, rejected, cancelled, restarts>>
      /\ handed' \in {handed, handed \cup {e}}
  BY DEF WorkerDelivers, WorkerFails, OrphanEnds, diskVars, memoryVars, historyVars
<1>2. /\ worker' \in [Entry -> {"idle", "running", "delivered", "failed"}]
      /\ orphan' \subseteq orphan
      /\ InFlight' \subseteq InFlight
      /\ e \in InFlight \cup orphan
      /\ \A f \in Entry : worker'[f] = "delivered" => worker[f] = "delivered" \/ f \in handed'
      /\ \A f \in Entry : worker'[f] # "idle" => worker[f] # "idle"
  <2>1. CASE \/ WorkerDelivers(e)
             \/ WorkerFails(e)
    <3>1. /\ worker[e] = "running" /\ orphan' = orphan
          /\ \/ worker' = [worker EXCEPT ![e] = "delivered"] /\ e \in handed'
             \/ worker' = [worker EXCEPT ![e] = "failed"]
      BY <2>1 DEF WorkerDelivers, WorkerFails
    <3>2. worker \in [Entry -> {"idle", "running", "delivered", "failed"}]
      BY DEF PInv, TypeOK
    <3>3. /\ worker' \in [Entry -> {"idle", "running", "delivered", "failed"}]
          /\ \A f \in Entry \ {e} : worker'[f] = worker[f]
          /\ worker'[e] = "delivered" => e \in handed'
      BY <3>1, <3>2
    <3> QED BY <3>1, <3>3 DEF InFlight
  <2>2. CASE OrphanEnds(e)
    BY <2>2 DEF OrphanEnds, InFlight, PInv, TypeOK
  <2> QED BY <2>1, <2>2
<1>3. TypeOK'
  BY <1>1, <1>2 DEF PInv, TypeOK
<1>4. DiskInv'
  <2>1. Net' \subseteq Net
    BY <1>1, <1>2 DEF Net
  <2>2. handed \subseteq handed' /\ handed' \in SUBSET Entry
    BY <1>1, <1>3 DEF TypeOK
  <2> QED BY <1>1, <2>1, <2>2, QuietSound DEF PInv, DiskInv
<1>5. MemoryInv'
  BY <1>1, <1>2 DEF PInv, MemoryInv, MemorySound
<1> QED BY <1>3, <1>4, <1>5 DEF PInv

\* So does a step that changes nothing.
LEMMA StutterKeeps ==
  ASSUME PInv, UNCHANGED vars
  PROVE  PInv'
<1> USE DEF vars, diskVars, memoryVars, networkVars, historyVars
<1>1. TypeOK'
  BY DEF PInv, TypeOK
<1>2. DiskInv'
  BY DEF PInv, DiskInv, Net, InFlight
<1>3. MemoryInv'
  BY DEF PInv, MemoryInv, MemorySound
<1> QED BY <1>1, <1>2, <1>3 DEF PInv

\* Every step preserves the invariant.
LEMMA NextKeeps ==
  ASSUME PInv, ~ReadBackFails, [Next]_vars
  PROVE  PInv'
<1>1. CASE \E m \in Msg : Send(m)
  BY <1>1, SendStopsKeeps, SendCommitsKeeps DEF Send
<1>2. CASE Sync
  BY <1>2, SyncStopsKeeps, SyncIdleKeeps, FlushStopsKeeps, FlushCommitsKeeps DEF Sync
<1>3. CASE \E c \in Conv : Delete(c)
  BY <1>3, DeleteStopsKeeps, DeleteCommitsKeeps DEF Delete
<1>4. CASE NetworkRecovered
  BY <1>4, NetworkRecoveredKeeps
<1>5. CASE Wipe
  BY <1>5, WipeKeeps
<1>6. CASE Configure
  BY <1>6, ConfigureKeeps
<1>7. CASE Crash
  BY <1>7, CrashKeeps
<1>8. CASE \E e \in Entry : WorkerDelivers(e) \/ WorkerFails(e) \/ OrphanEnds(e)
  BY <1>8, WorkerKeeps
<1>9. CASE UNCHANGED vars
  BY <1>9, StutterKeeps
<1> QED BY <1>1, <1>2, <1>3, <1>4, <1>5, <1>6, <1>7, <1>8, <1>9 DEF Next

(***************************************************************************)
(* The theorems.                                                           *)
(***************************************************************************)

\* The invariant behind every safety property holds, whatever the messages,
\* devices, limits, errors and restarts, when a failed journal sync can be
\* read back.  (commit, recover, flush_outbox, delete_conversation)
THEOREM Safety ==
  ASSUME ~ReadBackFails
  PROVE  Spec => []PInv
<1>1. PInv /\ [Next]_vars => PInv'
  BY NextKeeps
<1> QED BY <1>1, InitPInv, PTL DEF Spec

\* The inductive invariant TLC checks.
THEOREM Invariant ==
  ASSUME ~ReadBackFails
  PROVE  Spec => []IInv
BY Safety, PInvImpliesIInv, PTL

\* Type correctness.
THEOREM TypeCorrect ==
  ASSUME ~ReadBackFails
  PROVE  Spec => []TypeOK
BY Safety, PTL DEF PInv

\* No ciphertext is on the network without its row in the durable history.
\* (dispatchable_outbox)
THEOREM NetworkNeedsHistory ==
  ASSUME ~ReadBackFails
  PROVE  Spec => []HistoryBeforeNetwork
BY Invariant, PTL DEF IInv

\* A message is shown and stored as sent only when every device's ciphertext was
\* handed over, or while its conversation is being deleted.  (flush_outbox)
THEOREM SentIsHandedOff ==
  ASSUME ~ReadBackFails
  PROVE  Spec => []SentMeansHandedOff
BY Invariant, PTL DEF IInv

\* No message is stuck in the queue without ciphertext, and no device of a queued
\* message is forgotten.  (commit, recover, persist_outbox)
THEOREM NeverStuck ==
  ASSUME ~ReadBackFails
  PROVE  Spec => []QueuedKeepsCiphertext
BY Invariant, PTL DEF IInv

\* An accepted message survives errors, crashes and restarts.  (commit)
THEOREM AcceptedIsDurable ==
  ASSUME ~ReadBackFails
  PROVE  Spec => []AcceptedSurvives
BY Invariant, PTL DEF IInv

\* A refused message is never transmitted.  (commit)
THEOREM RejectedStaysHome ==
  ASSUME ~ReadBackFails
  PROVE  Spec => []RejectedNeverSent
BY Safety, PInvImpliesRejected, PTL

\* The rows in memory are those a restart would read.  (append_message_event)
THEOREM MemoryIsDurable ==
  ASSUME ~ReadBackFails
  PROVE  Spec => []MemoryMatchesDisk
BY Invariant, PTL DEF IInv

-----------------------------------------------------------------------------
(***************************************************************************)
(* Outbox implements DurableSend: every step of the command thread, of a   *)
(* worker or of a restart is a step of the promise or changes nothing the  *)
(* promise speaks of, for any messages, entries and limits.                *)
(***************************************************************************)

\* What DurableSend sees of a message, read off the files as recovered.
Status == [m \in Msg |-> IF Cancelled(m) \/ Durable.log[m] = "absent" THEN "new"
                         ELSE Durable.log[m]]

PromiseStep == [Promise!Next]_(Promise!vars)

(***************************************************************************)
(* How a step shows in the promise, by what it does to the recovered rows  *)
(* of the conversations that are not being deleted.                        *)
(***************************************************************************)

\* The variables of the promise.
LEMMA PromiseVars ==
  /\ Promise!vars = <<Status, cancelled, handed>>
  /\ (Promise!vars)' = <<Status', cancelled', handed'>>
BY DEF Promise!vars, Status

\* A step that leaves the rows alone is a stutter of the promise.
LEMMA Stutters ==
  ASSUME UNCHANGED <<cancelled, handed>>,
         \A m \in Msg : Gone(m, cancelled) \/ Durable'.log[m] = Durable.log[m]
  PROVE  PromiseStep
<1>1. Status' = Status
  BY DEF Status, Gone, Cancelled
<1> QED BY <1>1, PromiseVars DEF PromiseStep

\* A step that marks rows whose ciphertexts were all taken completes messages.
LEMMA Completes ==
  ASSUME UNCHANGED <<cancelled, handed>>, NEW S \in SUBSET Msg,
         \A m \in Msg : \/ Gone(m, cancelled)
                        \/ Durable'.log[m] = IF m \in S THEN "sent" ELSE Durable.log[m],
         \A m \in S : \/ Gone(m, cancelled)
                      \/ Durable.log[m] = "queued" /\ EntriesOf(m) \subseteq handed
  PROVE  PromiseStep
<1>1. PICK T \in SUBSET Msg : T = {m \in S : ~Gone(m, cancelled)}
  OBVIOUS
<1>2. Status' = [m \in Msg |-> IF m \in T THEN "sent" ELSE Status[m]]
  <2>1. \A m \in Msg : Status'[m] = IF m \in T THEN "sent" ELSE Status[m]
    BY <1>1 DEF Status, Gone, Cancelled
  <2> QED BY <2>1 DEF Status
<1>3. \A m \in T : Status[m] = "queued" /\ EntriesOf(m) \subseteq handed
  BY <1>1 DEF Status, Gone, Cancelled
<1>4. CASE T = {}
  <2>1. Status' = Status
    BY <1>2, <1>4 DEF Status
  <2> QED BY <2>1, PromiseVars DEF PromiseStep
<1>5. CASE T # {}
  <2>1. Promise!Complete(T)
    BY <1>2, <1>3, <1>5 DEF Promise!Complete, Promise!EntriesOf, EntriesOf, Status
  <2> QED BY <2>1 DEF PromiseStep, Promise!Next
<1> QED BY <1>4, <1>5

\* A step that writes the first row of a message accepts it.
LEMMA Accepts ==
  ASSUME UNCHANGED <<cancelled, handed>>, NEW m \in Msg,
         Durable.log[m] = "absent",
         \A n \in Msg : \/ Gone(n, cancelled)
                        \/ Durable'.log[n] = IF n = m THEN BirthState(n) ELSE Durable.log[n]
  PROVE  PromiseStep
<1>1. CASE Gone(m, cancelled)
  BY <1>1, Stutters
<1>2. CASE ~Gone(m, cancelled)
  <2>1. Status' = [Status EXCEPT ![m] = BirthState(m)]
    <3>1. \A n \in Msg : Status'[n] = IF n = m THEN BirthState(n) ELSE Status[n]
      BY <1>2, BirthStates DEF Status, Gone, Cancelled
    <3> QED BY <3>1 DEF Status
  <2>2. Status[m] = "new" /\ ConvOf[m] \notin cancelled
    BY <1>2 DEF Status, Gone
  <2>3. Promise!Accept(m)
    BY <2>1, <2>2 DEF Promise!Accept, Promise!EntriesOf, EntriesOf, Status, BirthState
  <2> QED BY <2>3 DEF PromiseStep, Promise!Next
<1> QED BY <1>1, <1>2

\* A step after which c counts as cancelled, and that leaves the rows of the other
\* conversations alone, cancels c.
LEMMA Cancels ==
  ASSUME NEW c \in Conv, handed' = handed, cancelled' = cancelled \cup {c},
         \A m \in Msg : Gone(m, cancelled') \/ Durable'.log[m] = Durable.log[m]
  PROVE  PromiseStep
<1>1. Status' = [m \in Msg |-> IF ConvOf[m] = c THEN "new" ELSE Status[m]]
  <2>1. \A m \in Msg : Status'[m] = IF ConvOf[m] = c THEN "new" ELSE Status[m]
    BY DEF Status, Gone, Cancelled
  <2> QED BY <2>1 DEF Status
<1>2. Promise!Cancel(c)
  BY <1>1 DEF Promise!Cancel, Status
<1> QED BY <1>2 DEF PromiseStep, Promise!Next

\* A worker that may hand over an entry of the network takes it, or does nothing.
LEMMA Takes ==
  ASSUME UNCHANGED <<disk, cancelled>>, NEW e \in Entry,
         handed' \in {handed, handed \cup {e}},
         Durable.log \in [Msg -> State],
         Gone(MsgOf[e], cancelled) \/ Durable.log[MsgOf[e]] # "absent"
  PROVE  PromiseStep
<1>1. Status' = Status
  BY DEF Status, Gone, Cancelled, Durable
<1>2. CASE handed' = handed
  BY <1>1, <1>2, PromiseVars DEF PromiseStep
<1>3. CASE handed' = handed \cup {e}
  <2>1. MsgOf[e] \in Msg
    BY OutboxAssumption
  <2>2. Status[MsgOf[e]] # "new" \/ ConvOf[MsgOf[e]] \in cancelled
    BY <2>1 DEF Status, Gone, Cancelled, State
  <2>3. Promise!Take(e)
    BY <1>1, <1>3, <2>2 DEF Promise!Take, Status
  <2> QED BY <2>3 DEF PromiseStep, Promise!Next
<1> QED BY <1>2, <1>3

(***************************************************************************)
(* One lemma per action.                                                   *)
(***************************************************************************)

\* The rows a restart would read, for a message that is not being deleted.
LEMMA DurableRows ==
  ASSUME PInv
  PROVE  /\ Durable.log \in [Msg -> State] /\ Ensured.log = Durable.log
         /\ \A m \in Msg \ accepted : Durable.log[m] = "absent"
BY DurableFacts, EnsuredFacts DEF DiskSound, Disk

\* A send that fails is a stutter: a journal that could be read back is never
\* reported as an error.
LEMMA SendStopsImplements ==
  ASSUME PInv, ~ReadBackFails, NEW m \in Msg, SendStops(m)
  PROVE  PromiseStep
<1>1. UNCHANGED <<cancelled, handed>>
  BY DEF SendStops, networkVars
<1>2. disk' \in EnsureStops \cup {Ensured}
  BY DEF SendStops, Stopped
<1>3. Durable'.log = Durable.log
  BY <1>2, EnsuredFacts DEF Durable
<1> QED BY <1>1, <1>3, Stutters

\* A send that succeeds accepts the message, whether or not the intent could be
\* materialised at once.
LEMMA SendCommitsImplements ==
  ASSUME PInv, NEW m \in Msg, SendCommits(m)
  PROVE  PromiseStep
<1> DEFINE i == Intent(m)
<1>1. /\ UNCHANGED <<cancelled, handed>> /\ m \notin accepted /\ m # None
      /\ disk' \in RecoverStops(i) \cup {Recovered(i)}
  BY OutboxAssumption DEF SendCommits, CanSend, Tried, Stopped
<1>2. i \in Disk /\ i.journal = m /\ i.log = Durable.log
  BY EnsuredFacts DEF Disk, Intent
<1> HIDE DEF i
<1>3. /\ Recovered(i) \in Disk /\ Recovered(Recovered(i)) = Recovered(i)
      /\ \A n \in Msg : Recovered(i).log[n] = IF n = m THEN BirthState(n) ELSE Durable.log[n]
  BY <1>2, RecoveredFields
<1>4. Durable'.log = Recovered(i).log
  BY <1>1, <1>2, <1>3, RecoverStopsFields DEF Durable
<1>5. Durable.log[m] = "absent"
  BY <1>1, DurableRows
<1> QED BY <1>1, <1>3, <1>4, <1>5, Accepts

\* A sync that stops early, or finds no result, is a stutter.
LEMMA SyncImplements ==
  ASSUME PInv, SyncStops \/ SyncIdle
  PROVE  PromiseStep
<1>1. UNCHANGED <<cancelled, handed>>
  BY DEF SyncStops, SyncIdle, networkVars, historyVars
<1>2. disk' \in EnsureStops \cup {Ensured}
  BY DEF SyncStops, SyncIdle, Stopped
<1>3. Durable'.log = Durable.log
  BY <1>2, EnsuredFacts DEF Durable
<1> QED BY <1>1, <1>3, Stutters

\* A flush completes the messages it marked before it stopped.
LEMMA FlushStopsImplements ==
  ASSUME PInv, FlushStops
  PROVE  PromiseStep
<1>1. open /\ UNCHANGED <<cancelled, handed>>
  BY DEF FlushStops, historyVars
<1>2. PICK S \in SUBSET Finished : FlushDisk(S, disk')
  BY DEF FlushStops, Stopped, FlushDisk
<1>3. Durable'.log = Marked(S).log
  BY <1>1, <1>2, FlushDisks DEF Durable
<1>4. \A m \in Msg : Durable'.log[m] = IF m \in S THEN "sent" ELSE Durable.log[m]
  BY <1>1, <1>3, MarkedFacts, DurableRows
<1>5. S \in SUBSET Msg
  BY DEF Finished
<1>6. \A m \in S : \/ Gone(m, cancelled)
                   \/ Durable.log[m] = "queued" /\ EntriesOf(m) \subseteq handed
  BY <1>1, FinishedFacts, DurableRows
<1> QED BY <1>1, <1>4, <1>5, <1>6, Completes

\* A flush that succeeds completes every finished message.
LEMMA FlushCommitsImplements ==
  ASSUME PInv, FlushCommits
  PROVE  PromiseStep
<1>1. open /\ UNCHANGED <<cancelled, handed>>
  BY DEF FlushCommits, historyVars
<1>2. disk' = [Marked(Finished) EXCEPT !.outbox = Retained]
  BY DEF FlushCommits
<1>3. Durable'.log = Marked(Finished).log
  BY <1>1, <1>2, StoredFacts DEF Durable
<1>4. \A m \in Msg : Durable'.log[m] = IF m \in Finished THEN "sent" ELSE Durable.log[m]
  BY <1>1, <1>3, MarkedFacts, DurableRows
<1>5. Finished \in SUBSET Msg
  BY DEF Finished
<1>6. \A m \in Finished : \/ Gone(m, cancelled)
                          \/ Durable.log[m] = "queued" /\ EntriesOf(m) \subseteq handed
  BY <1>1, FinishedFacts, DurableRows
<1> QED BY <1>1, <1>4, <1>5, <1>6, Completes

\* Deleting a conversation cancels it as soon as the deletion is past its recovery.
LEMMA DeleteImplements ==
  ASSUME PInv, NEW c \in Conv, Delete(c)
  PROVE  PromiseStep
<1>1. open /\ handed' = handed
  BY DEF Delete, DeleteStops, DeleteCommits, CanDelete, networkVars
<1>2. CASE Stopped(EnsureStops) /\ cancelled' = cancelled
  <2>1. Durable'.log = Durable.log
    BY <1>2, EnsuredFacts DEF Stopped, Durable
  <2> QED BY <1>1, <1>2, <2>1, Stutters
<1>3. CASE /\ cancelled' = cancelled \cup {c}
           /\ \E box : Fine(disk', box, c)
  <2>1. \A m \in Msg : Gone(m, cancelled') \/ Durable'.log[m] = Durable.log[m]
    BY <1>3, DurableRows DEF Fine, Durable
  <2> QED BY <1>1, <1>3, <2>1, Cancels
<1>4. CASE DeleteStops(c)
  <2>1. \/ Stopped(EnsureStops) /\ cancelled' = cancelled
        \/ /\ cancelled' = cancelled \cup {c}
           /\ disk' \in {Ensured, Shed(c), Cut(c), Removed(c)}
                         \cup AppendStops(Removed(c), Without(Removed(c).log, c))
    BY <1>4 DEF DeleteStops, Stopped
  <2>2. disk' \in {Ensured, Shed(c), Cut(c), Removed(c)}
                    \cup AppendStops(Removed(c), Without(Removed(c).log, c))
          => \E box : Fine(disk', box, c)
    BY <1>1, DeleteFacts
  <2> QED BY <1>2, <1>3, <2>1, <2>2
<1>5. CASE DeleteCommits(c)
  <2>1. /\ cancelled' = cancelled \cup {c}
        /\ disk' = Appended(Removed(c), Without(Removed(c).log, c))
    BY <1>5 DEF DeleteCommits
  <2>2. Fine(disk', Kept(c), c)
    BY <1>1, <2>1, DeleteFacts
  <2> QED BY <1>3, <2>1, <2>2
<1> QED BY <1>4, <1>5 DEF Delete

\* Rewriting the outbox when the network returns touches no row.
LEMMA NetworkRecoveredImplements ==
  ASSUME PInv, NetworkRecovered
  PROVE  PromiseStep
<1>1. UNCHANGED <<cancelled, handed>>
  BY DEF NetworkRecovered, networkVars, historyVars
<1> DEFINE new == [Durable EXCEPT !.outbox = outbox]
<1>2. new \in Disk /\ new.journal = None /\ new.log = Durable.log
  BY DurableFacts DEF Disk, PInv, TypeOK
<1>3. disk' \in RecoverStops(disk) \cup {Durable, new}
  BY DEF NetworkRecovered, Stopped, Durable
<1> HIDE DEF new
<1>4. Recovered(new) = new
  BY <1>2, RecoveredFields
<1>5. Recovered(disk').log = Durable.log
  BY <1>2, <1>3, <1>4, DurableFacts
<1> QED BY <1>1, <1>5, Stutters DEF Durable

\* So do locking the vault and opening the storage.
LEMMA ReopenImplements ==
  ASSUME PInv, Wipe \/ Configure
  PROVE  PromiseStep
<1>1. UNCHANGED <<cancelled, handed>>
  BY DEF Wipe, Configure, historyVars
<1>2. disk' \in RecoverStops(disk) \cup {disk, Durable}
  BY DEF Wipe, Configure, Stopped, Durable, diskVars
<1>3. Recovered(disk').log = Durable.log
  BY <1>2, DurableFacts DEF Durable
<1> QED BY <1>1, <1>3, Stutters DEF Durable

\* A crash completes the messages whose mark was in the frame it kept.
LEMMA CrashImplements ==
  ASSUME PInv, Crash
  PROVE  PromiseStep
<1>1. UNCHANGED <<cancelled, handed>>
  BY DEF Crash, historyVars
<1>2. PICK log \in {disk.log, disk.torn} : disk' = Appended(disk, log)
  BY DEF Crash
<1>3. disk \in Disk /\ log \in [Msg -> State]
  BY DEF PInv, TypeOK, Disk
<1>4. disk' \in Disk /\ disk'.log = log /\ disk'.journal = disk.journal
  BY <1>2, <1>3, AppendedFields
<1>5. \A m \in Msg :
        /\ Recovered(disk').log[m] = IF m = disk.journal THEN BirthState(m) ELSE log[m]
        /\ Durable.log[m] = IF m = disk.journal THEN BirthState(m) ELSE disk.log[m]
  BY <1>3, <1>4, RecoveredFields DEF Durable
<1> DEFINE S == {m \in Msg : /\ m # disk.journal /\ ~Gone(m, cancelled)
                             /\ disk.log[m] = "queued" /\ log[m] = "sent"}
<1>6. \A m \in Msg : \/ Gone(m, cancelled)
                     \/ Recovered(disk').log[m] = IF m \in S THEN "sent" ELSE Durable.log[m]
  BY <1>5 DEF PInv, DiskInv, DiskSound
<1>7. \A m \in S : Durable.log[m] = "queued" /\ EntriesOf(m) \subseteq handed
  BY <1>5 DEF PInv, DiskInv, DiskSound
<1> QED BY <1>1, <1>6, <1>7, Completes DEF Durable

\* A worker only hands over what the history shows.
LEMMA WorkerImplements ==
  ASSUME PInv, NEW e \in Entry, WorkerDelivers(e) \/ WorkerFails(e) \/ OrphanEnds(e)
  PROVE  PromiseStep
<1>1. UNCHANGED <<disk, cancelled>> /\ handed' \in {handed, handed \cup {e}} /\ e \in Net
  BY DEF WorkerDelivers, WorkerFails, OrphanEnds, diskVars, historyVars, Net, InFlight
<1>2. Gone(MsgOf[e], cancelled) \/ Durable.log[MsgOf[e]] # "absent"
  BY <1>1 DEF PInv, DiskInv, DiskSound, Durable
<1> QED BY <1>1, <1>2, DurableRows, Takes

(***************************************************************************)
(* The theorem.                                                            *)
(***************************************************************************)

\* Every step is a step of the promise.
LEMMA StepImplements ==
  ASSUME PInv, ~ReadBackFails, [Next]_vars
  PROVE  PromiseStep
<1>1. CASE \E m \in Msg : Send(m)
  BY <1>1, SendStopsImplements, SendCommitsImplements DEF Send
<1>2. CASE Sync
  BY <1>2, SyncImplements, FlushStopsImplements, FlushCommitsImplements DEF Sync
<1>3. CASE \E c \in Conv : Delete(c)
  BY <1>3, DeleteImplements
<1>4. CASE NetworkRecovered
  BY <1>4, NetworkRecoveredImplements
<1>5. CASE Wipe \/ Configure
  BY <1>5, ReopenImplements
<1>6. CASE Crash
  BY <1>6, CrashImplements
<1>7. CASE \E e \in Entry : WorkerDelivers(e) \/ WorkerFails(e) \/ OrphanEnds(e)
  BY <1>7, WorkerImplements
<1>8. CASE UNCHANGED vars
  BY <1>8, Stutters DEF vars, diskVars, networkVars, historyVars, Durable
<1> QED BY <1>1, <1>2, <1>3, <1>4, <1>5, <1>6, <1>7, <1>8 DEF Next

\* A fresh account has promised nothing.
LEMMA InitImplements == Init => Promise!Init
<1> SUFFICES ASSUME Init PROVE Promise!Init
  OBVIOUS
<1>1. Durable.log = [m \in Msg |-> "absent"]
  BY DEF Init, Durable, Recovered
<1>2. Status = [m \in Msg |-> "new"]
  BY <1>1 DEF Status
<1> QED BY <1>2 DEF Init, Promise!Init, Status

\* Outbox implements DurableSend when a failed journal sync can be read back:
\* accepted messages stay queued until every device's ciphertext was taken, and
\* then stay sent, through errors, crashes and restarts.
\* (commit, recover, flush_outbox, delete_conversation)
THEOREM Implementation ==
  ASSUME ~ReadBackFails
  PROVE  Spec => ImplementsPromise
<1>1. PInv /\ [Next]_vars => PromiseStep
  BY StepImplements
<1>2. Init => Promise!Init
  BY InitImplements
<1> QED BY <1>1, <1>2, Safety, PTL DEF Spec, ImplementsPromise, Promise!Spec, PromiseStep
=============================================================================
