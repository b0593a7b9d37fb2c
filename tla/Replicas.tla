------------------------------ MODULE Replicas ------------------------------
(***************************************************************************)
(* The ticks of a message, on every linked device of its author:           *)
(* messaging_adapter/receipts.rs, device_sync.rs and the synchronization   *)
(* half of messaging_adapter.rs.                                           *)
(*                                                                         *)
(* A recipient owes the author a receipt when it has a message, and again  *)
(* when it has read it; receipts travel as control packets of the outbox,  *)
(* to every device of the author.  The devices of one account also send    *)
(* each other a copy of a message whenever it changes: a worker tries the  *)
(* routes of the others, and puts the copy in the journal of the account   *)
(* when one cannot be reached.  Copies and receipts arrive late, twice or  *)
(* in any order, and every device merges them into its own message log.    *)
(*                                                                         *)
(* A command of a device is the sequence of its durable writes and may die *)
(* after any of them (Command).                                            *)
(***************************************************************************)
EXTENDS Naturals, FiniteSets, FiniteSetsExt

CONSTANTS
  Device, Account,
  AccountOf,   \* [Device -> Account]
  Author,      \* the account whose messages are followed
  Shares,      \* devices that send read receipts (SEND_READ)
  Msg,
  Writer,      \* [Msg -> Device], devices of the author
  Slots,       \* slots of the journal of an account
  None,
  MaxFaults    \* bound: commands that die before their last write, and transmissions
               \* whose result is lost

\* There is somebody to write to: what is written in a group without members has no
\* packet, counts as delivered at once, and is announced to nobody.
ASSUME ReplicasAssumption ==
  /\ AccountOf \in [Device -> Account] /\ Author \in Account
  /\ \E d \in Device : AccountOf[d] # Author
  /\ Shares \subseteq Device
  /\ \A m \in Msg : Writer[m] \in Device /\ AccountOf[Writer[m]] = Author
  /\ Slots \in Nat \ {0} /\ MaxFaults \in Nat

VARIABLES
  dev,      \* [Device -> log, outbox and queue], all durable
  net,      \* texts handed to the transport; receipts from the moment they are in an
            \* outbox, for what it does with them changes nothing here (Outbox)
  journal,  \* [Account -> copies in its journal], with the devices that have read them
  cuts, repeats  \* of either

vars == <<dev, net, journal, cuts, repeats>>

-----------------------------------------------------------------------------
\* Ranks of the states of a message; a receipt says Delivered or Read.
Queued == 1
Sent == 2
Delivered == 3
Read == 4

Peers == {AccountOf[d] : d \in Device} \ {Author}

DevicesOf(a) == {d \in Device : AccountOf[d] = a}

Linked(d) == DevicesOf(AccountOf[d]) \ {d}

Outgoing(d) == AccountOf[d] = Author

Entry == [state : Queued .. Read, acks : [Peers -> {0, Delivered, Read}],
          read : BOOLEAN, marker : {0, Delivered, Read}]

ASSUME NoneAssumption == None \notin Entry

Unacknowledged == [p \in Peers |-> 0]

Written  == [state |-> Queued, acks |-> Unacknowledged, read |-> TRUE, marker |-> 0]
Received == [state |-> Delivered, acks |-> Unacknowledged, read |-> FALSE, marker |-> 0]

Higher(x, y) == IF x >= y THEN x ELSE y

Refreshed_Slip(e) ==
  LET any(rank) == \E p \in Peers : e.acks[p] >= rank
      next == IF any(Read) THEN Read ELSE IF any(Delivered) THEN Delivered ELSE 0
  IN  [e EXCEPT !.state = Higher(@, next)]

\* refresh_state: the tick that every recipient has earned; never a lower one.
Refreshed(e) ==
  LET all(rank) == \A p \in Peers : e.acks[p] >= rank
      next == IF e.acks = Unacknowledged THEN 0
              ELSE IF all(Read) THEN Read ELSE IF all(Delivered) THEN Delivered ELSE Sent
  IN  [e EXCEPT !.state = Higher(@, next)]

Merged_Slip(mine, got) ==
  [mine EXCEPT !.acks = got.acks, !.state = got.state]

\* merge_synced_message; read and marker stay those of the device.
Merged(mine, got) ==
  Refreshed([mine EXCEPT !.acks = [p \in Peers |-> Higher(@[p], got.acks[p])],
                         !.state = Higher(@, got.state)])

Upserted_Slip(s, e) == [s EXCEPT !.log[e.msg] = IF @ = None THEN e.entry ELSE @]

\* upsert_synced_message
Upserted(s, e) ==
  [s EXCEPT !.log[e.msg] = IF @ = None THEN e.entry ELSE Merged(@, e.entry)]

\* queue_device_sync: an event is known by its content.
Announced(d, s, ms) ==
  IF Linked(d) = {} THEN s
  ELSE [s EXCEPT !.queue = @ \cup {[msg |-> m, entry |-> s.log[m]] : m \in ms}]

Texts(s, m) == {p \in s.outbox : p.msgs = {m}}

\* One packet for each device it is sealed for.
Addressed(d, to, kind, msgs, state) ==
  {[kind |-> kind, from |-> d, to |-> e, msgs |-> msgs, state |-> state] : e \in to}

-----------------------------------------------------------------------------
MoreFaults == cuts + repeats < MaxFaults

\* A command of d runs to its last write, done, or dies at one of the stops before it;
\* the network has during while it runs, and after when it ends.
Command(d, writes, during, after) ==
  \/ /\ dev' = [dev EXCEPT ![d] = writes.done] /\ net' = after
     /\ cuts' = cuts
  \/ /\ MoreFaults /\ cuts' = cuts + 1
     /\ \E s \in writes.stops : dev' = [dev EXCEPT ![d] = s]
     /\ net' = during

\* queue_outgoing: the message and its packets in one durable step (Outbox).
Send(m) ==
  LET d == Writer[m]
      s == dev[d]
  IN  /\ s.log[m] = None
      /\ dev' = [dev EXCEPT ![d].log[m] = Written,
                   ![d].outbox = @ \cup Addressed(d, Device \ DevicesOf(Author),
                                                  "text", {m}, 0)]
      /\ UNCHANGED <<net, journal, cuts, repeats>>

\* The worker reported p, of message m: its row, its queue entry, then the copies.
Completed(d, s, p, m) ==
  LET last == Texts(s, m) = {p} /\ s.log[m].state = Queued
      s1   == IF last THEN [s EXCEPT !.log[m].state = Sent] ELSE s
      s2   == [s1 EXCEPT !.outbox = @ \ {p}]
  IN  [stops |-> {s, s1, s2}, done |-> IF last THEN Announced(d, s2, {m}) ELSE s2]

\* flush_outbox: p was handed over; with its last packet a message is sent.
HandOver(d, p) ==
  /\ p \in dev[d].outbox
  /\ Command(d, Completed(d, dev[d], p, CHOOSE m \in p.msgs : TRUE), net \cup {p}, net \cup {p})
  /\ UNCHANGED <<journal, repeats>>

\* persist_inbound_payload of a text of the author
OnText(d, s, m) ==
  IF s.log[m] # None THEN [stops |-> {}, done |-> s]
  ELSE LET t == [s EXCEPT !.log[m] = Received]
       IN  [stops |-> {t}, done |-> Announced(d, t, {m})]

\* apply, to each of the messages.
Acknowledged(s, ms, from, state) ==
  [s EXCEPT !.log = [m \in Msg |-> IF m \in ms THEN Refreshed([@[m] EXCEPT !.acks[from] = state])
                                   ELSE @[m]]]

\* receipts::receive: what it says of messages one has not, or knew, is ignored;
\* each change is logged, then all are announced.
OnReceipt(d, s, p) ==
  LET from == AccountOf[p.from]
      new  == {m \in p.msgs : s.log[m] # None /\ s.log[m].acks[from] < p.state}
      all  == Acknowledged(s, new, from, p.state)
  IN  [stops |-> {Acknowledged(s, ms, from, p.state) : ms \in SUBSET new}
                 \cup {Announced(d, all, ms) : ms \in SUBSET new},
       done  |-> Announced(d, all, new)]

Handled(d, s, p) ==
  IF p.kind = "text" THEN OnText(d, s, CHOOSE m \in p.msgs : TRUE) ELSE OnReceipt(d, s, p)

\* One packet handled; unless the process dies, the ratchet takes no copy again.
Receive(d, p) ==
  /\ p \in net /\ p.to = d
  /\ Command(d, Handled(d, dev[d], p), net, net \ {p})
  /\ UNCHANGED <<journal, repeats>>

\* mark_read, of the whole conversation in one write
MarkRead(d) ==
  LET unread == {m \in Msg : dev[d].log[m] # None /\ ~dev[d].log[m].read}
  IN  /\ unread # {}
      /\ dev' = [dev EXCEPT ![d].log = [m \in Msg |->
                   IF m \in unread THEN [@[m] EXCEPT !.read = TRUE] ELSE @[m]]]
      /\ UNCHANGED <<net, journal, cuts, repeats>>

Wanted(d, e) == IF e.read /\ d \in Shares THEN Read ELSE Delivered

\* The messages whose receipt is due, in the batch of one state.
Due(d, rank) ==
  {m \in Msg : /\ ~Outgoing(d) /\ dev[d].log[m] # None
               /\ Wanted(d, dev[d].log[m]) = rank
               /\ dev[d].log[m].marker < rank}

Marked(s, ms, rank) ==
  [s EXCEPT !.log = [m \in Msg |-> IF m \in ms THEN [@[m] EXCEPT !.marker = rank] ELSE @[m]]]

Receipts(d, due, rank) == Addressed(d, DevicesOf(Author), "receipt", due, rank)

MarkedOneByOne(s, due, rank) ==
  [stops |-> {Marked(s, ms, rank) : ms \in SUBSET due}, done |-> Marked(s, due, rank)]

\* The markers first.
Flush_Slip(d, rank) ==
  /\ Due(d, rank) # {}
  /\ Command(d, MarkedOneByOne(dev[d], Due(d, rank), rank),
             net, net \cup Receipts(d, Due(d, rank), rank))
  /\ UNCHANGED <<journal, repeats>>

\* flush_with: the ciphertext first, then the marker of each message.
Flush(d, rank) ==
  /\ Due(d, rank) # {}
  /\ LET sent == net \cup Receipts(d, Due(d, rank), rank)
     IN  Command(d, MarkedOneByOne(dev[d], Due(d, rank), rank), sent, sent)
  /\ UNCHANGED <<journal, repeats>>

-----------------------------------------------------------------------------
FreeSlot_Slip(a) == TRUE

\* store_mailbox_payload: a slot that is empty or expired.
FreeSlot(a) == Cardinality(journal[a]) < Slots

\* The worker of device_sync.rs, for one event of the queue: each linked device is
\* tried, and may apply the copy although the call fails; unless all calls succeed
\* the copy goes to a free slot of the journal, if any.  The event stays in the
\* queue when that failed, or when the result is lost with the process.
Transmit(d, e) ==
  /\ e \in dev[d].queue
  /\ \E heard \in SUBSET Linked(d), stored, known \in BOOLEAN :
       /\ stored => FreeSlot(AccountOf[d])
       /\ known  => heard = Linked(d) \/ stored
       /\ ~known => MoreFaults
       /\ repeats' = IF known THEN repeats ELSE repeats + 1
       /\ journal' = IF stored
                     THEN [journal EXCEPT ![AccountOf[d]] = @ \cup {[event |-> e, seen |-> {d}]}]
                     ELSE journal
       /\ dev' = [x \in Device |->
            IF x = d THEN [dev[d] EXCEPT !.queue = IF known THEN @ \ {e} ELSE @]
            ELSE IF x \in heard THEN Upserted(dev[x], e) ELSE dev[x]]
  /\ UNCHANGED <<net, cuts>>

\* poll_mailbox_once: reading erases nothing, and a device that restarts reads
\* everything again.  (Its own copies too, which changes nothing.)
ReadJournal(d, j) ==
  /\ j \in journal[AccountOf[d]]
  /\ dev' = [dev EXCEPT ![d] = Upserted(@, j.event)]
  /\ journal' = [journal EXCEPT ![AccountOf[d]] = (@ \ {j}) \cup {[j EXCEPT !.seen = @ \cup {d}]}]
  /\ UNCHANGED <<net, cuts, repeats>>

\* An expired slot is used again.  ASSUMED: no linked device stays away longer.
Expire(a, j) ==
  /\ j \in journal[a] /\ j.seen = DevicesOf(a)
  /\ journal' = [journal EXCEPT ![a] = @ \ {j}]
  /\ UNCHANGED <<dev, net, cuts, repeats>>

Init ==
  /\ dev = [d \in Device |-> [log |-> [m \in Msg |-> None], outbox |-> {}, queue |-> {}]]
  /\ net = {} /\ journal = [a \in Account |-> {}] /\ cuts = 0 /\ repeats = 0

Pass(d) ==
  \/ \E p \in dev[d].outbox : HandOver(d, p)
  \/ \E p \in net : Receive(d, p)
  \/ \E rank \in {Delivered, Read} : Flush(d, rank)
  \/ \E j \in journal[AccountOf[d]] : ReadJournal(d, j)

Next ==
  \/ \E m \in Msg : Send(m)
  \/ \E d \in Device : Pass(d) \/ MarkRead(d) \/ \E e \in dev[d].queue : Transmit(d, e)
  \/ \E a \in Account : \E j \in journal[a] : Expire(a, j)

Spec == Init /\ [][Next]_vars

-----------------------------------------------------------------------------
Packet == [kind : {"text", "receipt"}, from : Device, to : Device,
           msgs : SUBSET Msg, state : {0, Delivered, Read}]

Event == [msg : Msg, entry : Entry]

Copy == [event : Event, seen : SUBSET Device]

State == [log : [Msg -> Entry \cup {None}], outbox : SUBSET Packet, queue : SUBSET Event]

\* The variables range over what the code can store, and no journal exceeds its
\* slots.
TypeOK ==
  /\ dev \in [Device -> State]
  /\ net \subseteq Packet
  /\ journal \in [Account -> SUBSET Copy]
  /\ \A a \in Account : Cardinality(journal[a]) <= Slots
  /\ cuts + repeats \in 0 .. MaxFaults

\* A tick is never taken back, and a receipt never marked as due again, whatever
\* old copies and receipts a device merges and wherever a command dies.
TicksNeverFallBack ==
  [][\A d \in Device, m \in Msg :
       LET old == dev[d].log[m]
           new == dev'[d].log[m]
       IN  old # None =>
             /\ new # None /\ new.state >= old.state /\ new.marker >= old.marker
             /\ old.read => new.read
             /\ \A p \in Peers : new.acks[p] >= old.acks[p]]_vars

\* A tick tells the truth on every device of the author: delivered, when each
\* recipient has the message; read, when each has read it and says so.
TicksAreTrue ==
  \A a \in DevicesOf(Author), m \in Msg :
    LET e == dev[a].log[m]
        Has(d) == dev[d].log[m] # None
    IN  e # None => \A p \in Peers :
          /\ Higher(e.state, e.acks[p]) >= Delivered => \E d \in DevicesOf(p) : Has(d)
          /\ Higher(e.state, e.acks[p]) = Read =>
               \E d \in DevicesOf(p) \cap Shares : Has(d) /\ dev[d].log[m].read

\* "The saved marker changes only after ciphertext is durable, so restarts and
\* temporary network failures cannot lose receipts" (receipts.rs:72): a receipt
\* marked as sent is on its way to the device that wrote the message, or known
\* there.
ReceiptsAreKept ==
  \A d \in Device, m \in Msg :
    LET e == dev[d].log[m]
        w == Writer[m]
    IN  (~Outgoing(d) /\ e # None /\ e.marker > 0) =>
          \/ \E p \in net :
               p.kind = "receipt" /\ p.to = w /\ m \in p.msgs /\ p.state >= e.marker
                 /\ AccountOf[p.from] = AccountOf[d]
          \/ dev[w].log[m].acks[AccountOf[d]] >= e.marker

\* A device of the author knows of each recipient what the recipient has sent.
Informed(a, m) ==
  \A p \in Peers : dev[a].log[m].acks[p] =
    Max({0} \cup {dev[d].log[m].marker : d \in {x \in DevicesOf(p) : dev[x].log[m] # None}})

Quiet ==
  /\ net = {} /\ \A j \in journal[Author] : j.seen = DevicesOf(Author)
  /\ \A d \in Device : /\ dev[d].outbox = {} /\ dev[d].queue = {}
                       /\ Due(d, Delivered) \cup Due(d, Read) = {}

\* Once nothing is under way, the device that wrote a message knows what each
\* recipient has of it, and unless a command died before it had announced a change,
\* so does every device of the author, although receipts reach them in different
\* orders, or before the message itself, and copies overtake each other.
QuietMeansAgreed ==
  Quiet => \A m \in Msg : dev[Writer[m]].log[m] # None =>
    /\ Informed(Writer[m], m)
    /\ cuts = 0 => \A a \in DevicesOf(Author) :
         /\ dev[a].log[m] # None /\ Informed(a, m)
         /\ dev[a].log[m].state = dev[Writer[m]].log[m].state

=============================================================================
