--------------------------- MODULE OfflineMailbox ---------------------------
(***************************************************************************)
(* The mailbox in the DHT between one sending and one receiving device: a  *)
(* record of slots, each with a first segment, a continuation for long     *)
(* packets and an acknowledgement.  The sender writes the segments, the    *)
(* recipient writes acknowledgements, and no lock spans the two processes: *)
(* each has a lock of its own for the record.                              *)
(*                                                                         *)
(* A deposit is sealed anew at every attempt, so a frame is told apart     *)
(* from an earlier frame of the same packet; an acknowledgement names the  *)
(* frame by its hash.                                                      *)
(*                                                                         *)
(* The DHT is outside the source.  As the code uses it: a read sees the    *)
(* newest value or fails; a write is stored, or fails stored or not stored,*)
(* or is reported back as superseded without being stored.  The segments   *)
(* have one writer and the acknowledgement another, so values the sender   *)
(* has read of its own segments stay true while it holds its lock.         *)
(*                                                                         *)
(* Operators named _Slip are plausible mistakes in the code they stand     *)
(* before, used by the mutation runs only.                                 *)
(***************************************************************************)
EXTENDS Naturals, FiniteSets

CONSTANTS
  Packet,        \* ciphertexts the sender's outbox hands to the mailbox
  Long,          \* those that need a continuation
  Invalid,       \* those the recipient can never accept
  SlotCount,     \* SLOT_COUNT
  Start,         \* [Packet -> 0..SlotCount-1]: where the search for a slot begins
  MaxInbox,      \* MAX_PENDING_INBOUND_ENVELOPES
  MaxSeen,       \* size of offline_seen above which acknowledged digests are dropped
  None,          \* nothing
  MaxFaults,     \* bound: failed, lost and timed out operations in a behaviour
  MaxExpired,    \* bound: frames that outlive their retention in a behaviour
  MaxRestarts    \* bound: restarts of a process, locks and removals of the target

Slot == 0 .. SlotCount - 1

ASSUME MailboxAssumption ==
  /\ SlotCount \in Nat \ {0}
  /\ Long \subseteq Packet /\ Invalid \subseteq Packet
  /\ Start \in [Packet -> Slot]
  /\ {MaxInbox, MaxSeen, MaxFaults, MaxExpired, MaxRestarts} \subseteq Nat

VARIABLES
  first,      \* first segments, by slot
  second,     \* continuations
  ack,        \* acknowledgements: the frame one names
  sealed,     \* number of frames written so far
  expired,    \* frames older than the retention
  confirmed,  \* packets whose deposit returned Ok
  deposit,    \* the deposit that holds the sender's lock
  cached,     \* first segments in the recipient's local copy of the record
  watching,   \* the recipient is unlocked and the sender is among its targets
  poll,       \* the pass over the slots that holds the recipient's lock
  inbox,      \* frames fetched and not yet dealt with
  seen,       \* offline_seen: [flying, done], frames marked false and true
  acking,     \* acknowledgements to send
  acker,      \* the acknowledgement that holds the recipient's lock
  persisted,  \* packets in the recipient's files
  discarded,  \* packets the recipient rejected for good
  faults, restarts

recordVars    == <<first, second, ack, expired>>
senderVars    == <<sealed, confirmed, deposit>>
fetchVars     == <<cached, watching, poll, inbox>>
consumeVars   == <<seen, persisted, discarded>>
ackVars       == <<acking, acker>>
recipientVars == <<fetchVars, consumeVars, ackVars>>
vars == <<recordVars, senderVars, recipientVars, faults, restarts>>

Frame == [packet : Packet, slot : Slot, serial : Nat \ {0}]

Fault == faults < MaxFaults /\ faults' = faults + 1
NoFault == faults' = faults
Restart == restarts < MaxRestarts /\ restarts' = restarts + 1

\* frame_length: the header is valid and the frame has not expired.
Live(f) == f # None /\ f \notin expired

\* read_offline_frame: the continuation is the one sealed with the frame.
Readable(f) == Live(f) /\ (f.packet \in Long => second[f.slot] = f)

-----------------------------------------------------------------------------
(* store_offline_payload_async.                                            *)

Idle == [phase |-> "idle"]

StartDeposit(p) ==
  /\ deposit = Idle /\ p \notin confirmed
  /\ deposit' = [phase |-> "search", packet |-> p, offset |-> 0]
  /\ UNCHANGED <<recordVars, sealed, confirmed, recipientVars, faults, restarts>>

SlotAt(d) == (Start[d.packet] + d.offset) % SlotCount

\* Any acknowledgement frees the slot.
Free_Slip(s) == Live(first[s]) => ack[s] # None

\* A live frame is only overwritten once its own acknowledgement is there.
Free(s) == Live(first[s]) => ack[s] = first[s]

\* This packet is already stored here, from an attempt whose end was not seen.
Present(s, p) == Readable(first[s]) /\ first[s].packet = p

NewFrame(d) == [packet |-> d.packet, slot |-> SlotAt(d), serial |-> sealed + 1]

\* The reads of one slot; the acknowledgement is the last of them.
Search ==
  /\ deposit.phase = "search"
  /\ LET d == deposit  s == SlotAt(d) IN
     \/ /\ d.offset < SlotCount /\ Present(s, d.packet)
        /\ confirmed' = confirmed \cup {d.packet} /\ deposit' = Idle
        /\ UNCHANGED sealed
     \/ /\ d.offset < SlotCount /\ ~Present(s, d.packet) /\ Free(s)
        /\ deposit' = [phase  |-> IF d.packet \in Long THEN "second" ELSE "first",
                       offset |-> d.offset, packet |-> d.packet, frame |-> NewFrame(d)]
        /\ sealed' = sealed + 1
        /\ UNCHANGED confirmed
     \/ /\ d.offset < SlotCount /\ ~Present(s, d.packet) /\ ~Free(s)
        /\ deposit' = [d EXCEPT !.offset = @ + 1]
        /\ UNCHANGED <<sealed, confirmed>>
     \/ /\ d.offset = SlotCount                           \* LimitExceeded
        /\ deposit' = Idle
        /\ UNCHANGED <<sealed, confirmed>>
  /\ UNCHANGED <<recordVars, recipientVars, faults, restarts>>

\* A write that goes on to the next step: stored, or superseded unnoticed.
Put(segment) ==
  \/ NoFault /\ segment' = [segment EXCEPT ![deposit.frame.slot] = deposit.frame]
  \/ Fault /\ UNCHANGED segment

WriteSecond ==
  /\ deposit.phase = "second"
  /\ Put(second)
  /\ deposit' = [deposit EXCEPT !.phase = "first"]
  /\ UNCHANGED <<first, ack, expired, sealed, confirmed, recipientVars, restarts>>

WriteFirst ==
  /\ deposit.phase = "first"
  /\ Put(first)
  /\ deposit' = [deposit EXCEPT !.phase = "confirm"]
  /\ UNCHANGED <<second, ack, expired, sealed, confirmed, recipientVars, restarts>>

\* What is read back decides, not what the writes reported.
Confirm_Slip ==
  /\ deposit.phase = "confirm"
  /\ confirmed' = confirmed \cup {deposit.packet} /\ deposit' = Idle
  /\ UNCHANGED <<recordVars, sealed, recipientVars, faults, restarts>>

\* The slot is read back; if it holds another packet the search goes on, if it
\* cannot be opened the deposit fails.
Confirm ==
  /\ deposit.phase = "confirm"
  /\ LET f == first[deposit.frame.slot] IN
     \/ /\ Present(deposit.frame.slot, deposit.packet)
        /\ confirmed' = confirmed \cup {deposit.packet} /\ deposit' = Idle
     \/ /\ f # None /\ Readable(f) /\ f.packet # deposit.packet
        /\ deposit' = [phase |-> "search", packet |-> deposit.packet,
                       offset |-> deposit.offset + 1]
        /\ UNCHANGED confirmed
     \/ /\ f = None \/ ~Readable(f)
        /\ deposit' = Idle
        /\ UNCHANGED confirmed
  /\ UNCHANGED <<recordVars, sealed, recipientVars, faults, restarts>>

\* A failed operation, a timeout, the direct delivery winning or the process
\* dying: the deposit is dropped, its write in progress stored or not.
DropDeposit ==
  /\ deposit # Idle
  /\ \/ Fault /\ UNCHANGED restarts
     \/ Restart /\ NoFault
  /\ \/ UNCHANGED <<first, second>>
     \/ /\ deposit.phase = "second"
        /\ second' = [second EXCEPT ![deposit.frame.slot] = deposit.frame]
        /\ UNCHANGED first
     \/ /\ deposit.phase = "first"
        /\ first' = [first EXCEPT ![deposit.frame.slot] = deposit.frame]
        /\ UNCHANGED second
  /\ deposit' = Idle
  /\ UNCHANGED <<ack, expired, sealed, confirmed, recipientVars>>

Expire(f) ==
  /\ f \notin expired /\ Cardinality(expired) < MaxExpired
  /\ expired' = expired \cup {f}
  /\ UNCHANGED <<first, second, ack, senderVars, recipientVars, faults, restarts>>

-----------------------------------------------------------------------------
(* poll_offline_mailbox_once.                                              *)

LockFree == poll = None /\ acker = None

\* The report of inspect_dht_record: which slots exist, and which have a newer
\* first segment than the local copy.
StartPoll ==
  /\ watching /\ LockFree
  /\ poll' = [todo  |-> {s \in Slot : first[s] # None \/ cached[s] # None},
              newer |-> {s \in Slot : first[s] # cached[s]},
              frame |-> None]
  /\ UNCHANGED <<recordVars, senderVars, cached, watching, inbox, consumeVars, ackVars,
                 faults, restarts>>

Full == Cardinality(inbox) >= MaxInbox

\* Read the first segment of a slot and keep it if it is live and not seen.
ReadFirst(s) ==
  /\ poll # None /\ poll.frame = None /\ s \in poll.todo /\ ~Full
  /\ LET f == IF s \in poll.newer THEN first[s] ELSE cached[s] IN
     /\ cached' = [cached EXCEPT ![s] = f]
     /\ poll' = [poll EXCEPT
          !.todo  = @ \ {s},
          !.frame = IF Live(f) /\ f \notin seen.flying \cup seen.done THEN f ELSE None]
  /\ UNCHANGED <<recordVars, senderVars, watching, inbox, consumeVars, ackVars,
                 faults, restarts>>

\* Read the continuation and enqueue the packet; an unreadable one is skipped.
Enqueue ==
  /\ poll # None /\ poll.frame # None
  /\ \/ /\ ~Readable(poll.frame)
        /\ poll' = [poll EXCEPT !.frame = None]
        /\ UNCHANGED <<inbox, seen>>
     \/ /\ Readable(poll.frame) /\ watching /\ ~Full
        /\ seen' = [seen EXCEPT !.flying = @ \cup {poll.frame}]
        /\ inbox' = inbox \cup {poll.frame}
        /\ poll' = [poll EXCEPT !.frame = None]
     \/ /\ Readable(poll.frame) /\ (~watching \/ Full)
        /\ poll' = None
        /\ UNCHANGED <<inbox, seen>>
  /\ UNCHANGED <<recordVars, senderVars, cached, watching, persisted, discarded,
                 ackVars, faults, restarts>>

\* The pass is over: every slot was visited, the inbox is full, a read failed or
\* the pass timed out.
EndPoll ==
  /\ poll # None
  /\ \/ poll.frame = None /\ (poll.todo = {} \/ Full) /\ NoFault
     \/ Fault
  /\ poll' = None
  /\ UNCHANGED <<recordVars, senderVars, cached, watching, inbox, consumeVars, ackVars,
                 restarts>>

-----------------------------------------------------------------------------
(***************************************************************************)
(* sync_inbound_messages and what becomes of a payload.  A sync drains the *)
(* inbox and then goes through what it drained; nothing but the room in    *)
(* the inbox tells this from taking the payloads one by one.               *)
(***************************************************************************)

SeenSize == Cardinality(seen.flying) + Cardinality(seen.done)

\* finish_inbound_payload: mark the frame and send its acknowledgement.
Finish(f) ==
  /\ seen' = [flying |-> seen.flying \ {f},
              done   |-> {f} \cup (IF SeenSize >= MaxSeen THEN {} ELSE seen.done)]
  /\ acking' = acking \cup {f}

Persist(f) ==
  /\ f \in inbox /\ f.packet \notin Invalid
  /\ persisted' = persisted \cup {f.packet}
  /\ Finish(f)
  /\ inbox' = inbox \ {f}
  /\ UNCHANGED <<recordVars, senderVars, cached, watching, poll, discarded, acker, faults, restarts>>

Discard(f) ==
  /\ f \in inbox /\ f.packet \in Invalid
  /\ discarded' = discarded \cup {f.packet}
  /\ Finish(f)
  /\ inbox' = inbox \ {f}
  /\ UNCHANGED <<recordVars, senderVars, cached, watching, poll, persisted, acker, faults, restarts>>

\* The digest stays.
Retry_Slip(f) ==
  /\ f \in inbox /\ f.packet \notin Invalid /\ Fault
  /\ inbox' = inbox \ {f}
  /\ UNCHANGED <<recordVars, senderVars, cached, watching, poll, seen, persisted, discarded, ackVars,
                 restarts>>

\* retry_inbound_payload, after a transient failure.
Retry(f) ==
  /\ f \in inbox /\ f.packet \notin Invalid /\ Fault
  /\ seen' = [flying |-> seen.flying \ {f}, done |-> seen.done \ {f}]
  /\ inbox' = inbox \ {f}
  /\ UNCHANGED <<recordVars, senderVars, cached, watching, poll, persisted, discarded, ackVars, restarts>>

-----------------------------------------------------------------------------
(* acknowledge_offline_slot.                                               *)

\* The frame is acknowledged only while its slot still holds it.
ReadForAck(f) ==
  /\ f \in acking /\ LockFree
  /\ acker' = [frame |-> f, current |-> first[f.slot] = f]
  /\ acking' = acking \ {f}
  /\ UNCHANGED <<recordVars, senderVars, fetchVars, consumeVars, faults, restarts>>

\* Whatever the slot holds by now is acknowledged.
WriteAck_Slip ==
  /\ acker # None
  /\ ack' = IF acker.current THEN [ack EXCEPT ![acker.frame.slot] = first[acker.frame.slot]]
            ELSE ack
  /\ acker' = None
  /\ UNCHANGED <<first, second, expired, senderVars, fetchVars, consumeVars, acking,
                 faults, restarts>>

WriteAck ==
  /\ acker # None
  /\ ack' = IF acker.current THEN [ack EXCEPT ![acker.frame.slot] = acker.frame] ELSE ack
  /\ acker' = None
  /\ UNCHANGED <<first, second, expired, senderVars, fetchVars, consumeVars, acking,
                 faults, restarts>>

\* The digest stays although the frame was not acknowledged.
FailAck_Slip ==
  /\ acker # None /\ Fault
  /\ acker' = None
  /\ UNCHANGED <<recordVars, senderVars, fetchVars, consumeVars, acking, restarts>>

\* The failure forgets the digest, so that the frame is read again.
FailAck ==
  /\ acker # None /\ Fault
  /\ \/ UNCHANGED ack
     \/ acker.current /\ ack' = [ack EXCEPT ![acker.frame.slot] = acker.frame]
  /\ acker' = None
  /\ seen' = [flying |-> seen.flying \ {acker.frame}, done |-> seen.done \ {acker.frame}]
  /\ UNCHANGED <<first, second, expired, senderVars, fetchVars, persisted, discarded,
                 acking, restarts>>

-----------------------------------------------------------------------------
(* The recipient's account and process.                                    *)

Nothing == [flying |-> {}, done |-> {}]

\* wipe_account_memory: the poll is aborted, acknowledgements under way are not.
Wipe ==
  /\ watching /\ Restart
  /\ watching' = FALSE /\ poll' = None /\ inbox' = {} /\ seen' = Nothing
  /\ UNCHANGED <<recordVars, senderVars, cached, persisted, discarded, ackVars, faults>>

\* set_offline_targets without the sender: a pass that is running goes on.
Remove ==
  /\ watching /\ Restart
  /\ watching' = FALSE
  /\ UNCHANGED <<recordVars, senderVars, cached, poll, inbox, consumeVars, ackVars, faults>>

\* set_offline_targets with the sender.
Watch ==
  /\ ~watching /\ watching' = TRUE
  /\ UNCHANGED <<recordVars, senderVars, cached, poll, inbox, consumeVars, ackVars,
                 faults, restarts>>

Crash ==
  /\ Restart
  /\ watching' = FALSE /\ poll' = None /\ inbox' = {} /\ seen' = Nothing
  /\ acking' = {} /\ acker' = None
  /\ ack' \in {ack} \cup (IF acker = None \/ ~acker.current THEN {}
                          ELSE {[ack EXCEPT ![acker.frame.slot] = acker.frame]})
  /\ UNCHANGED <<first, second, expired, senderVars, cached, persisted, discarded, faults>>

-----------------------------------------------------------------------------
Blank == [s \in Slot |-> None]

Init ==
  /\ first = Blank /\ second = Blank /\ ack = Blank /\ expired = {}
  /\ sealed = 0 /\ confirmed = {} /\ deposit = Idle
  /\ cached = Blank /\ watching = FALSE /\ poll = None /\ inbox = {}
  /\ seen = Nothing /\ acking = {} /\ acker = None
  /\ persisted = {} /\ discarded = {}
  /\ faults = 0 /\ restarts = 0

Stored == {first[s] : s \in Slot} \ {None}

Deposit ==
  \/ \E p \in Packet : StartDeposit(p)
  \/ Search \/ WriteSecond \/ WriteFirst \/ Confirm \/ DropDeposit

Fetch == StartPoll \/ (\E s \in Slot : ReadFirst(s)) \/ Enqueue \/ EndPoll

Consume == \E f \in inbox : Persist(f) \/ Discard(f) \/ Retry(f)

Acknowledge == (\E f \in acking : ReadForAck(f)) \/ WriteAck \/ FailAck

Next ==
  \/ Deposit
  \/ \E f \in Stored : Expire(f)
  \/ Fetch
  \/ Consume
  \/ Acknowledge
  \/ Wipe \/ Remove \/ Watch \/ Crash

Spec == Init /\ [][Next]_vars

-----------------------------------------------------------------------------
(* Properties.                                                             *)

FrameOrNone == Frame \cup {None}

TypeOK ==
  /\ first \in [Slot -> FrameOrNone] /\ second \in [Slot -> FrameOrNone]
  /\ ack \in [Slot -> FrameOrNone] /\ cached \in [Slot -> FrameOrNone]
  /\ expired \subseteq Frame
  /\ sealed \in Nat /\ faults \in Nat /\ restarts \in Nat
  /\ confirmed \subseteq Packet
  /\ \/ deposit = Idle
     \/ deposit \in [phase : {"search"}, packet : Packet, offset : 0 .. SlotCount]
     \/ deposit \in [phase : {"second", "first", "confirm"}, packet : Packet,
                     offset : Slot, frame : Frame]
  /\ watching \in BOOLEAN
  /\ \/ poll = None
     \/ poll \in [todo : SUBSET Slot, newer : SUBSET Slot, frame : FrameOrNone]
  /\ inbox \subseteq Frame /\ acking \subseteq Frame
  /\ seen \in [flying : SUBSET Frame, done : SUBSET Frame]
  /\ acker = None \/ acker \in [frame : Frame, current : BOOLEAN]
  /\ persisted \subseteq Packet /\ discarded \subseteq Packet

Handled(p) == p \in persisted \cup discarded

Outlived(p) == \E f \in expired : f.packet = p

\* A confirmed deposit is not lost: until the recipient has dealt with the packet
\* or the retention is over, some slot holds all of it.
\* (the acknowledgement test and the read-back of store_offline_payload_async)
ConfirmedIsKept ==
  \A p \in confirmed : Handled(p) \/ Outlived(p) \/ \E s \in Slot : Present(s, p)

\* An acknowledgement, written or about to be, names a frame whose packet is in the
\* recipient's files or was rejected for good; a fetch is not an acknowledgement.
\* (finish_inbound_payload, retry_inbound_payload)
AcknowledgedIsHandled ==
  \A f \in acking \cup {ack[s] : s \in Slot} \cup (IF acker = None THEN {} ELSE {acker.frame}) :
    f # None => Handled(f.packet)

\* A step replaces a live frame only if its packet was dealt with, confirmed or not.
\* (Never overwrite an unacknowledged, unexpired entry)
OverwritesHandled ==
  [][\A s \in Slot : first'[s] # first[s] /\ Live(first[s]) => Handled(first[s].packet)]_vars

(***************************************************************************)
(* Liveness.  The outbox retries a packet, the poll runs every few seconds,*)
(* the sync every three, and tasks that hold a lock end.                   *)
(***************************************************************************)
Fairness ==
  /\ \A p \in Packet : SF_vars(StartDeposit(p))
  /\ WF_vars(Search \/ WriteSecond \/ WriteFirst \/ Confirm)
  /\ WF_vars(Watch)
  /\ SF_vars(StartPoll)
  /\ WF_vars((\E s \in Slot : ReadFirst(s)) \/ Enqueue \/ (EndPoll /\ NoFault))
  /\ WF_vars(\E f \in inbox : Persist(f) \/ Discard(f))
  /\ SF_vars(\E f \in acking : ReadForAck(f))
  /\ WF_vars(WriteAck)

FairSpec == Spec /\ Fairness

\* A confirmed packet reaches the recipient or outlives its retention.
EventuallyHandled ==
  \A p \in Packet : p \in confirmed ~> Handled(p) \/ Outlived(p)

\* A frame without its continuation is never read, hence never acknowledged, and
\* keeps its slot until it expires.
Orphaned(s) == Live(first[s]) /\ ~Readable(first[s]) /\ ~Free(s)

\* A packet finds a slot in the end, also in a mailbox that was full: slots are
\* acknowledged and used again.  Only a frame without its continuation keeps its slot.
EventuallyConfirmed ==
  (\A p \in Packet : <>(p \in confirmed)) \/ <>[](\E s \in Slot : Orphaned(s))
=============================================================================
