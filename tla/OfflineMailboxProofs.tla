------------------------ MODULE OfflineMailboxProofs ------------------------
(***************************************************************************)
(* Proofs about OfflineMailbox, for any packets, slots and limits.         *)
(***************************************************************************)
EXTENDS OfflineMailbox, TLAPS

(***************************************************************************)
(* The inductive invariant.  The sender holds its lock from the search to  *)
(* the last write, so what it read of the slot it chose stays true: a live *)
(* frame there was acknowledged, hence dealt with.                         *)
(***************************************************************************)

\* The frame in the slot about to be written may be lost.
Writing ==
  deposit.phase \in {"second", "first"} =>
    (Live(first[deposit.frame.slot]) => Handled(first[deposit.frame.slot].packet))

\* A frame is written to the slot it names.
Placed == \A s \in Slot : first[s] # None => first[s].slot = s

IInv == TypeOK /\ Placed /\ AcknowledgedIsHandled /\ Writing /\ ConfirmedIsKept

(***************************************************************************)
(* Types.                                                                  *)
(***************************************************************************)

LEMMA SlotAtType ==
  ASSUME NEW d, d.packet \in Packet, d.offset \in Nat
  PROVE  SlotAt(d) \in Slot
BY MailboxAssumption DEF SlotAt, Slot

\* The three kinds of a deposit.
LEMMA DepositParts ==
  ASSUME TypeOK
  PROVE  /\ deposit.phase = "search" => deposit \in [phase : {"search"}, packet : Packet,
                                                     offset : 0 .. SlotCount]
         /\ deposit.phase \in {"second", "first", "confirm"} =>
              deposit \in [phase : {"second", "first", "confirm"}, packet : Packet,
                           offset : Slot, frame : Frame]
         /\ deposit.phase \in {"second", "first", "confirm"} =>
              deposit.frame \in Frame /\ deposit.frame.slot \in Slot
BY DEF TypeOK, Idle, Frame

LEMMA TypeInit == Init => TypeOK
<1> SUFFICES ASSUME Init PROVE TypeOK
  OBVIOUS
<1>1. Blank \in [Slot -> FrameOrNone]
  BY DEF Blank, FrameOrNone
<1>2. Nothing \in [flying : SUBSET Frame, done : SUBSET Frame]
  BY DEF Nothing
<1> QED BY <1>1, <1>2 DEF Init, TypeOK

LEMMA DepositTypes ==
  ASSUME TypeOK, Deposit
  PROVE  TypeOK'
<1>0. SlotCount \in Nat \ {0}
  BY MailboxAssumption
<1>1. ASSUME NEW p \in Packet, StartDeposit(p) PROVE TypeOK'
  BY <1>0, <1>1 DEF TypeOK, StartDeposit, recordVars, recipientVars, fetchVars, consumeVars,
                    ackVars, Idle
<1>2. CASE Search
  <2>1. deposit \in [phase : {"search"}, packet : Packet, offset : 0 .. SlotCount]
    BY <1>2, DepositParts DEF Search
  <2>2. SlotAt(deposit) \in Slot
    BY <1>0, <2>1, SlotAtType
  <2>3. sealed' \in Nat /\ sealed + 1 \in Nat \ {0} /\ confirmed' \subseteq Packet
    BY <1>2, <2>1 DEF Search, TypeOK
  <2>4. NewFrame(deposit) \in Frame
    BY <2>1, <2>2, <2>3 DEF NewFrame, Frame
  <2>5. \/ deposit' = Idle
        \/ deposit' \in [phase : {"search"}, packet : Packet, offset : 0 .. SlotCount]
        \/ deposit' \in [phase : {"second", "first", "confirm"}, packet : Packet,
                         offset : Slot, frame : Frame]
    <3>1. CASE deposit.offset < SlotCount /\ deposit' =
               [phase  |-> IF deposit.packet \in Long THEN "second" ELSE "first",
                offset |-> deposit.offset, packet |-> deposit.packet,
                frame |-> NewFrame(deposit)]
      <4>1. deposit.offset \in Slot
        BY <1>0, <2>1, <3>1 DEF Slot
      <4> QED BY <2>1, <2>4, <3>1, <4>1
    <3>2. CASE deposit.offset < SlotCount /\ deposit' = [deposit EXCEPT !.offset = @ + 1]
      BY <1>0, <2>1, <3>2
    <3> QED BY <1>2, <3>1, <3>2 DEF Search
  <2> QED BY <1>2, <2>3, <2>5 DEF TypeOK, Search, recordVars, recipientVars, fetchVars,
                               consumeVars, ackVars
<1>3. CASE WriteSecond
  <2>1. deposit \in [phase : {"second", "first", "confirm"}, packet : Packet,
                     offset : Slot, frame : Frame]
    BY <1>3, DepositParts DEF WriteSecond
  <2>2. deposit' \in [phase : {"second", "first", "confirm"}, packet : Packet,
                      offset : Slot, frame : Frame]
    BY <1>3, <2>1 DEF WriteSecond
  <2>3. second' \in [Slot -> FrameOrNone] /\ faults' \in Nat
    BY <1>3, <2>1 DEF WriteSecond, Put, Fault, NoFault, TypeOK, FrameOrNone
  <2> QED BY <1>3, <2>2, <2>3 DEF TypeOK, WriteSecond, recipientVars, fetchVars, consumeVars,
                               ackVars
<1>4. CASE WriteFirst
  <2>1. deposit \in [phase : {"second", "first", "confirm"}, packet : Packet,
                     offset : Slot, frame : Frame]
    BY <1>4, DepositParts DEF WriteFirst
  <2>2. deposit' \in [phase : {"second", "first", "confirm"}, packet : Packet,
                      offset : Slot, frame : Frame]
    BY <1>4, <2>1 DEF WriteFirst
  <2>3. first' \in [Slot -> FrameOrNone] /\ faults' \in Nat
    BY <1>4, <2>1 DEF WriteFirst, Put, Fault, NoFault, TypeOK, FrameOrNone
  <2> QED BY <1>4, <2>2, <2>3 DEF TypeOK, WriteFirst, recipientVars, fetchVars, consumeVars,
                               ackVars
<1>5. CASE Confirm
  <2>1. deposit \in [phase : {"second", "first", "confirm"}, packet : Packet,
                     offset : Slot, frame : Frame]
    BY <1>5, DepositParts DEF Confirm
  <2>2. deposit.offset + 1 \in 0 .. SlotCount
    BY <1>0, <2>1 DEF Slot
  <2>3. \/ deposit' = Idle
        \/ deposit' \in [phase : {"search"}, packet : Packet, offset : 0 .. SlotCount]
    BY <1>5, <2>1, <2>2 DEF Confirm
  <2>4. confirmed' \subseteq Packet
    BY <1>5, <2>1 DEF Confirm, TypeOK
  <2> QED BY <1>5, <2>3, <2>4 DEF TypeOK, Confirm, recordVars, recipientVars, fetchVars,
                               consumeVars, ackVars
<1>6. CASE DropDeposit
  <2>1. first' \in [Slot -> FrameOrNone] /\ second' \in [Slot -> FrameOrNone]
    BY <1>6, DepositParts DEF DropDeposit, TypeOK, FrameOrNone
  <2>2. faults' \in Nat /\ restarts' \in Nat /\ deposit' = Idle
    BY <1>6 DEF DropDeposit, Fault, NoFault, Restart, TypeOK
  <2> QED BY <1>6, <2>1, <2>2 DEF TypeOK, DropDeposit, recipientVars, fetchVars, consumeVars,
                               ackVars
<1> QED BY <1>1, <1>2, <1>3, <1>4, <1>5, <1>6 DEF Deposit

LEMMA FetchTypes ==
  ASSUME TypeOK, Fetch
  PROVE  TypeOK'
<1>0. poll # None => poll \in [todo : SUBSET Slot, newer : SUBSET Slot, frame : FrameOrNone]
  BY DEF TypeOK
<1>1. CASE StartPoll
  <2>1. poll' \in [todo : SUBSET Slot, newer : SUBSET Slot, frame : FrameOrNone]
    BY <1>1 DEF StartPoll, FrameOrNone
  <2> QED BY <1>1, <2>1 DEF TypeOK, StartPoll, recordVars, senderVars, consumeVars, ackVars
<1>2. ASSUME NEW s \in Slot, ReadFirst(s) PROVE TypeOK'
  <2>1. PICK f \in FrameOrNone : f = IF s \in poll.newer THEN first[s] ELSE cached[s]
    BY DEF TypeOK
  <2>2. cached' \in [Slot -> FrameOrNone]
    BY <1>2, <2>1 DEF ReadFirst, TypeOK
  <2>3. poll' \in [todo : SUBSET Slot, newer : SUBSET Slot, frame : FrameOrNone]
    BY <1>0, <1>2, <2>1 DEF ReadFirst, FrameOrNone
  <2> QED BY <1>2, <2>2, <2>3 DEF TypeOK, ReadFirst, recordVars, senderVars, consumeVars, ackVars
<1>3. CASE Enqueue
  <2>1. poll.frame \in Frame
    BY <1>0, <1>3 DEF Enqueue, FrameOrNone
  <2>2. \/ poll' = None
        \/ poll' \in [todo : SUBSET Slot, newer : SUBSET Slot, frame : FrameOrNone]
    BY <1>0, <1>3 DEF Enqueue, FrameOrNone
  <2>3. inbox' \subseteq Frame /\ seen' \in [flying : SUBSET Frame, done : SUBSET Frame]
    BY <1>3, <2>1 DEF Enqueue, TypeOK
  <2> QED BY <1>3, <2>2, <2>3 DEF TypeOK, Enqueue, recordVars, senderVars, ackVars
<1>4. CASE EndPoll
  BY <1>4 DEF TypeOK, EndPoll, Fault, NoFault, recordVars, senderVars, consumeVars, ackVars
<1> QED BY <1>1, <1>2, <1>3, <1>4 DEF Fetch

LEMMA ConsumeTypes ==
  ASSUME TypeOK, Consume
  PROVE  TypeOK'
<1> USE DEF TypeOK, recordVars, senderVars, ackVars
<1>1. ASSUME NEW f \in inbox, Finish(f)
      PROVE  seen' \in [flying : SUBSET Frame, done : SUBSET Frame] /\ acking' \subseteq Frame
  BY <1>1 DEF Finish
<1>2. ASSUME NEW f \in inbox, Persist(f) PROVE TypeOK'
  <2>1. Finish(f) /\ persisted' \subseteq Packet
    BY <1>2 DEF Persist, Frame
  <2> QED BY <1>1, <1>2, <2>1 DEF Persist
<1>3. ASSUME NEW f \in inbox, Discard(f) PROVE TypeOK'
  <2>1. Finish(f) /\ discarded' \subseteq Packet
    BY <1>3 DEF Discard, Frame
  <2> QED BY <1>1, <1>3, <2>1 DEF Discard
<1>4. ASSUME NEW f \in inbox, Retry(f) PROVE TypeOK'
  BY <1>4 DEF Retry, Fault
<1> QED BY <1>2, <1>3, <1>4 DEF Consume

LEMMA AcknowledgeTypes ==
  ASSUME TypeOK, Acknowledge
  PROVE  TypeOK'
<1> USE DEF TypeOK, recordVars, senderVars, fetchVars, consumeVars
<1>1. ASSUME NEW f \in acking, ReadForAck(f) PROVE TypeOK'
  BY <1>1 DEF ReadForAck
<1>2. acker # None => acker.frame \in FrameOrNone
  BY DEF FrameOrNone
<1>3. CASE WriteAck
  BY <1>2, <1>3 DEF WriteAck
<1>4. CASE FailAck
  <2>1. ack' \in [Slot -> FrameOrNone] /\ faults' \in Nat /\ acker' = None
    BY <1>2, <1>4 DEF FailAck, Fault
  <2>2. seen' \in [flying : SUBSET Frame, done : SUBSET Frame]
    BY <1>4 DEF FailAck
  <2> QED BY <1>4, <2>1, <2>2 DEF FailAck
<1> QED BY <1>1, <1>3, <1>4 DEF Acknowledge

LEMMA ExpireTypes ==
  ASSUME TypeOK, NEW f \in Stored, Expire(f)
  PROVE  TypeOK'
<1>1. f \in Frame
  BY DEF Stored, FrameOrNone, TypeOK
<1> QED BY <1>1 DEF Expire, TypeOK, senderVars, fetchVars, consumeVars, ackVars, recipientVars

LEMMA NothingType == Nothing \in [flying : SUBSET Frame, done : SUBSET Frame]
BY DEF Nothing

LEMMA WipeTypes ==
  ASSUME TypeOK, Wipe
  PROVE  TypeOK'
<1>1. seen' \in [flying : SUBSET Frame, done : SUBSET Frame] /\ restarts' \in Nat
  BY NothingType DEF Wipe, Restart, TypeOK
<1> QED BY <1>1 DEF Wipe, TypeOK, recordVars, senderVars, ackVars

LEMMA WatchTypes ==
  ASSUME TypeOK, Remove \/ Watch
  PROVE  TypeOK'
<1>1. UNCHANGED <<recordVars, senderVars, cached, poll, inbox, consumeVars, ackVars, faults>>
  BY DEF Remove, Watch
<1>2. watching' \in BOOLEAN
  BY DEF Remove, Watch
<1>3. restarts' \in {restarts, restarts + 1}
  BY DEF Remove, Watch, Restart
<1>4. restarts' \in Nat
  BY <1>3 DEF TypeOK
<1> QED BY <1>1, <1>2, <1>4 DEF TypeOK, recordVars, senderVars, consumeVars, ackVars

LEMMA CrashTypes ==
  ASSUME TypeOK, Crash
  PROVE  TypeOK'
<1>1. ack' \in [Slot -> FrameOrNone]
  BY DEF Crash, FrameOrNone, TypeOK
<1>2. seen' \in [flying : SUBSET Frame, done : SUBSET Frame] /\ restarts' \in Nat
  BY NothingType DEF Crash, Restart, TypeOK
<1> QED BY <1>1, <1>2 DEF Crash, TypeOK, senderVars

\* Type correctness is inductive on its own.
LEMMA TypeNext == TypeOK /\ [Next]_vars => TypeOK'
<1> SUFFICES ASSUME TypeOK, [Next]_vars PROVE TypeOK'
  OBVIOUS
<1>1. CASE UNCHANGED vars
  BY <1>1 DEF TypeOK, vars, recordVars, senderVars, recipientVars, fetchVars, consumeVars,
              ackVars
<1> QED BY <1>1, DepositTypes, FetchTypes, ConsumeTypes, AcknowledgeTypes, ExpireTypes,
           WipeTypes, WatchTypes, CrashTypes DEF Next

(***************************************************************************)
(* What has been dealt with stays so, and a frame only ever expires.       *)
(***************************************************************************)

\* Nothing is taken back from the recipient's files.
LEMMA HandledStays ==
  ASSUME [Next]_vars, NEW p, Handled(p)
  PROVE  Handled(p)'
<1>1. persisted \subseteq persisted' /\ discarded \subseteq discarded'
  <2>1. CASE Deposit
    BY <2>1 DEF Deposit, StartDeposit, Search, WriteSecond, WriteFirst, Confirm, DropDeposit,
                recipientVars, consumeVars
  <2>2. CASE Fetch
    BY <2>2 DEF Fetch, StartPoll, ReadFirst, Enqueue, EndPoll, consumeVars
  <2>3. CASE Consume
    BY <2>3 DEF Consume, Persist, Discard, Retry
  <2>4. CASE Acknowledge
    BY <2>4 DEF Acknowledge, ReadForAck, WriteAck, FailAck, consumeVars
  <2>5. CASE \E f \in Stored : Expire(f)
    BY <2>5 DEF Expire, recipientVars, consumeVars
  <2>6. CASE Wipe \/ Remove \/ Watch \/ Crash
    BY <2>6 DEF Wipe, Remove, Watch, Crash, consumeVars
  <2>7. CASE UNCHANGED vars
    BY <2>7 DEF vars, recipientVars, consumeVars
  <2> QED BY <2>1, <2>2, <2>3, <2>4, <2>5, <2>6, <2>7 DEF Next
<1> QED BY <1>1 DEF Handled

LEMMA ExpiredStays ==
  ASSUME [Next]_vars
  PROVE  expired \subseteq expired'
<1>1. CASE Deposit
  BY <1>1 DEF Deposit, StartDeposit, Search, WriteSecond, WriteFirst, Confirm, DropDeposit,
              recordVars
<1>2. CASE Fetch
  BY <1>2 DEF Fetch, StartPoll, ReadFirst, Enqueue, EndPoll, recordVars
<1>3. CASE Consume
  BY <1>3 DEF Consume, Persist, Discard, Retry, recordVars
<1>4. CASE Acknowledge
  BY <1>4 DEF Acknowledge, ReadForAck, WriteAck, FailAck, recordVars
<1>5. CASE \E f \in Stored : Expire(f)
  BY <1>5 DEF Expire
<1>6. CASE Wipe \/ Remove \/ Watch \/ Crash
  BY <1>6 DEF Wipe, Remove, Watch, Crash, recordVars
<1>7. CASE UNCHANGED vars
  BY <1>7 DEF vars, recordVars
<1> QED BY <1>1, <1>2, <1>3, <1>4, <1>5, <1>6, <1>7 DEF Next

\* The steps that leave the segments and the deposit alone.
Elsewhere == UNCHANGED <<first, second, deposit, confirmed>>

\* Only a deposit writes a segment, and only to the slot it holds, when it holds one.
LEMMA SegmentsStep ==
  ASSUME TypeOK, [Next]_vars
  PROVE  \/ Deposit
         \/ Elsewhere
<1>1. CASE Fetch
  BY <1>1 DEF Fetch, StartPoll, ReadFirst, Enqueue, EndPoll, recordVars, senderVars, Elsewhere
<1>2. CASE Consume
  BY <1>2 DEF Consume, Persist, Discard, Retry, recordVars, senderVars, Elsewhere
<1>3. CASE Acknowledge
  BY <1>3 DEF Acknowledge, ReadForAck, WriteAck, FailAck, recordVars, senderVars, Elsewhere
<1>4. CASE \E f \in Stored : Expire(f)
  BY <1>4 DEF Expire, senderVars, Elsewhere
<1>5. CASE Wipe \/ Remove \/ Watch \/ Crash
  BY <1>5 DEF Wipe, Remove, Watch, Crash, recordVars, senderVars, Elsewhere
<1>6. CASE UNCHANGED vars
  BY <1>6 DEF vars, recordVars, senderVars, Elsewhere
<1> QED BY <1>1, <1>2, <1>3, <1>4, <1>5, <1>6 DEF Next

\* A step of the deposit in its two writing phases writes the slot of its frame.
LEMMA DepositWrites ==
  ASSUME TypeOK, Deposit
  PROVE  /\ expired' = expired /\ persisted' = persisted /\ discarded' = discarded
         /\ \A s \in Slot : (first'[s] # first[s] \/ second'[s] # second[s]) =>
              deposit.phase \in {"second", "first"} /\ s = deposit.frame.slot
<1>1. CASE (\E p \in Packet : StartDeposit(p)) \/ Search \/ Confirm
  BY <1>1 DEF StartDeposit, Search, Confirm, recordVars, recipientVars, consumeVars
<1>2. CASE WriteSecond
  BY <1>2 DEF WriteSecond, Put, recipientVars, consumeVars, TypeOK
<1>3. CASE WriteFirst
  BY <1>3 DEF WriteFirst, Put, recipientVars, consumeVars, TypeOK
<1>4. CASE DropDeposit
  BY <1>4 DEF DropDeposit, recipientVars, consumeVars, TypeOK
<1> QED BY <1>1, <1>2, <1>3, <1>4 DEF Deposit

(***************************************************************************)
(* The invariant over a step.                                              *)
(***************************************************************************)

\* The frames that are acknowledged, or will be.
Acked == acking \cup {ack[s] : s \in Slot} \cup (IF acker = None THEN {} ELSE {acker.frame})

\* A step adds to them only a frame the recipient has dealt with.
LEMMA AckedStep ==
  ASSUME TypeOK, [Next]_vars, NEW f \in Acked'
  PROVE  f \in Acked \/ Handled(f.packet)'
<1> USE DEF Acked
<1>1. CASE Deposit
  BY <1>1 DEF Deposit, StartDeposit, Search, WriteSecond, WriteFirst, Confirm, DropDeposit,
              recordVars, recipientVars, ackVars
<1>2. CASE Fetch
  BY <1>2 DEF Fetch, StartPoll, ReadFirst, Enqueue, EndPoll, recordVars, ackVars
<1>3. CASE Consume
  <2>1. ASSUME NEW g \in inbox, Persist(g) \/ Discard(g) PROVE f \in Acked \/ Handled(f.packet)'
    <3>1. acking' = acking \cup {g} /\ ack' = ack /\ acker' = acker
      BY <2>1 DEF Persist, Discard, Finish, recordVars
    <3>2. Handled(g.packet)'
      BY <2>1 DEF Persist, Discard, Handled
    <3> QED BY <3>1, <3>2
  <2>2. ASSUME NEW g \in inbox, Retry(g) PROVE f \in Acked
    BY <2>2 DEF Retry, recordVars, ackVars
  <2> QED BY <1>3, <2>1, <2>2 DEF Consume
<1>4. CASE Acknowledge
  <2>1. ASSUME NEW g \in acking, ReadForAck(g) PROVE f \in Acked
    BY <2>1 DEF ReadForAck, recordVars
  <2>2. ASSUME acker # None, acker' = None, acking' = acking,
               \/ ack' = ack
               \/ ack' = [ack EXCEPT ![acker.frame.slot] = acker.frame]
        PROVE  f \in Acked
    BY <2>2 DEF TypeOK
  <2>3. CASE WriteAck
    BY <2>2, <2>3 DEF WriteAck
  <2>4. CASE FailAck
    BY <2>2, <2>4 DEF FailAck
  <2> QED BY <1>4, <2>1, <2>3, <2>4 DEF Acknowledge
<1>5. CASE \E g \in Stored : Expire(g)
  BY <1>5 DEF Expire, recipientVars, ackVars
<1>6. CASE Wipe \/ Remove \/ Watch
  BY <1>6 DEF Wipe, Remove, Watch, recordVars, ackVars
<1>7. CASE Crash
  <2>1. acking' = {} /\ acker' = None
    BY <1>7 DEF Crash
  <2>2. \/ ack' = ack
        \/ acker # None /\ ack' = [ack EXCEPT ![acker.frame.slot] = acker.frame]
    BY <1>7 DEF Crash
  <2> QED BY <2>1, <2>2 DEF TypeOK
<1>8. CASE UNCHANGED vars
  BY <1>8 DEF vars, recordVars, recipientVars, ackVars
<1> QED BY <1>1, <1>2, <1>3, <1>4, <1>5, <1>6, <1>7, <1>8 DEF Next

LEMMA AcknowledgedNext ==
  ASSUME IInv, [Next]_vars
  PROVE  AcknowledgedIsHandled'
<1>1. \A f \in Acked : f # None => Handled(f.packet)
  BY DEF IInv, AcknowledgedIsHandled, Acked
<1>2. ASSUME NEW f \in Acked', f # None PROVE Handled(f.packet)'
  BY <1>1, <1>2, AckedStep, HandledStays DEF IInv
<1> QED BY <1>2 DEF AcknowledgedIsHandled, Acked

\* The search ends at a slot that is free: its live frame was acknowledged.
LEMMA WritingNext ==
  ASSUME IInv, [Next]_vars
  PROVE  Writing'
<1>1. TypeOK /\ Writing
  BY DEF IInv
<1>2. CASE Elsewhere
  <2>1. ASSUME NEW f, Live(f)' PROVE Live(f)
    BY <2>1, ExpiredStays DEF Live
  <2> QED BY <1>1, <1>2, <2>1, HandledStays DEF Writing, Elsewhere
<1>3. CASE Deposit
  <2>1. /\ expired' = expired /\ persisted' = persisted /\ discarded' = discarded
    BY <1>1, <1>3, DepositWrites
  <2>2. CASE Search
    <3>1. CASE deposit'.phase \in {"second", "first"}
      <4>0. deposit \in [phase : {"search"}, packet : Packet, offset : 0 .. SlotCount]
        BY <1>1, <2>2, DepositParts DEF Search
      <4>1. Free(SlotAt(deposit)) /\ deposit'.frame = NewFrame(deposit) /\ UNCHANGED first
        BY <2>2, <3>1, <4>0 DEF Search, Idle, recordVars
      <4>2. deposit'.frame.slot = SlotAt(deposit) /\ SlotAt(deposit) \in Slot
        BY <4>0, <4>1, SlotAtType, MailboxAssumption DEF NewFrame
      <4>3. Live(first[SlotAt(deposit)]) => Handled(first[SlotAt(deposit)].packet)
        BY <4>1, <4>2 DEF Free, Live, IInv, AcknowledgedIsHandled
      <4> QED BY <2>1, <4>1, <4>2, <4>3 DEF Writing, Live, Handled
    <3>2. CASE deposit'.phase \notin {"second", "first"}
      BY <3>2 DEF Writing
    <3> QED BY <3>1, <3>2
  <2>3. CASE WriteSecond
    BY <1>1, <2>1, <2>3, DepositParts DEF Writing, WriteSecond, Live, Handled
  <2>4. CASE WriteFirst
    <3>1. deposit'.phase = "confirm"
      BY <1>1, <2>4, DepositParts DEF WriteFirst
    <3> QED BY <3>1 DEF Writing
  <2>5. CASE (\E p \in Packet : StartDeposit(p)) \/ Confirm \/ DropDeposit
    <3>1. deposit'.phase \notin {"second", "first"}
      BY <2>5 DEF StartDeposit, Confirm, DropDeposit, Idle
    <3> QED BY <3>1 DEF Writing
  <2> QED BY <1>3, <2>2, <2>3, <2>4, <2>5 DEF Deposit
<1> QED BY <1>1, <1>2, <1>3, SegmentsStep

LEMMA PlacedNext ==
  ASSUME TypeOK, Placed, [Next]_vars
  PROVE  Placed'
<1>1. CASE UNCHANGED first
  BY <1>1 DEF Placed
<1>2. CASE first' # first
  <2>1. first' = [first EXCEPT ![deposit.frame.slot] = deposit.frame]
    <3>1. Deposit
      BY <1>2, SegmentsStep DEF Elsewhere
    <3> QED BY <1>2, <3>1 DEF Deposit, StartDeposit, Search, WriteSecond, WriteFirst, Put,
                              Confirm, DropDeposit, recordVars
  <2> QED BY <2>1 DEF Placed, TypeOK
<1> QED BY <1>1, <1>2

\* A packet in the record is in the record after the step, or was dealt with, or has
\* outlived its retention.
LEMMA PresentStep ==
  ASSUME IInv, [Next]_vars, NEW s \in Slot, NEW p, Present(s, p)
  PROVE  Present(s, p)' \/ Handled(p)' \/ Outlived(p)'
<1>1. TypeOK /\ Readable(first[s]) /\ first[s].packet = p
  BY DEF IInv, Present
<1>2. PICK f : f = first[s]
  OBVIOUS
<1>3. f # None /\ Live(f) /\ f.packet = p /\ f.slot = s
  BY <1>1, <1>2 DEF Readable, Live, IInv, Placed
<1>4. CASE f \in expired'
  BY <1>3, <1>4 DEF Outlived
<1>5. CASE f \notin expired' /\ first'[s] = first[s] /\ second'[s] = second[s]
  BY <1>1, <1>2, <1>3, <1>5 DEF Present, Readable, Live
<1>6. CASE first'[s] # first[s] \/ second'[s] # second[s]
  <2>1. deposit.phase \in {"second", "first"} /\ s = deposit.frame.slot
    BY <1>1, <1>6, SegmentsStep, DepositWrites DEF Elsewhere
  <2>2. Handled(p)
    BY <1>2, <1>3, <2>1 DEF IInv, Writing
  <2> QED BY <2>2, HandledStays
<1> QED BY <1>4, <1>5, <1>6

\* A deposit is confirmed by what it reads of the record.
LEMMA ConfirmedStep ==
  ASSUME IInv, [Next]_vars, NEW p \in confirmed'
  PROVE  p \in confirmed \/ \E s \in Slot : Present(s, p)
<1>1. TypeOK
  BY DEF IInv
<1>2. CASE Elsewhere
  BY <1>2 DEF Elsewhere
<1>3. CASE Deposit
  <2>1. CASE Search
    <3>1. SlotAt(deposit) \in Slot
      BY <1>1, <2>1, DepositParts, SlotAtType, MailboxAssumption DEF Search
    <3> QED BY <2>1, <3>1 DEF Search
  <2>2. CASE Confirm
    <3>1. deposit.frame.slot \in Slot
      BY <1>1, <2>2, DepositParts DEF Confirm
    <3> QED BY <2>2, <3>1 DEF Confirm
  <2>3. CASE (\E x \in Packet : StartDeposit(x)) \/ WriteSecond \/ WriteFirst \/ DropDeposit
    BY <2>3 DEF StartDeposit, WriteSecond, WriteFirst, DropDeposit
  <2> QED BY <1>3, <2>1, <2>2, <2>3 DEF Deposit
<1> QED BY <1>1, <1>2, <1>3, SegmentsStep

LEMMA ConfirmedNext ==
  ASSUME IInv, [Next]_vars
  PROVE  ConfirmedIsKept'
<1> SUFFICES ASSUME NEW p \in confirmed'
             PROVE  Handled(p)' \/ Outlived(p)' \/ \E s \in Slot : Present(s, p)'
  BY DEF ConfirmedIsKept
<1>1. Handled(p) \/ Outlived(p) \/ \E s \in Slot : Present(s, p)
  BY ConfirmedStep DEF IInv, ConfirmedIsKept
<1>2. CASE Handled(p)
  BY <1>2, HandledStays
<1>3. CASE Outlived(p)
  BY <1>3, ExpiredStays DEF Outlived
<1>4. CASE \E s \in Slot : Present(s, p)
  BY <1>4, PresentStep
<1> QED BY <1>1, <1>2, <1>3, <1>4

(***************************************************************************)
(* The theorems.                                                           *)
(***************************************************************************)

LEMMA InitIInv == Init => IInv
<1> SUFFICES ASSUME Init PROVE IInv
  OBVIOUS
<1>1. AcknowledgedIsHandled
  BY DEF Init, Blank, AcknowledgedIsHandled
<1>2. Writing /\ Placed /\ ConfirmedIsKept
  BY DEF Init, Blank, Idle, Writing, Placed, ConfirmedIsKept
<1> QED BY <1>1, <1>2, TypeInit DEF IInv

\* The inductive invariant: of the slot a deposit is about to write, only a frame that
\* was dealt with can be lost.
THEOREM InvariantHolds == Spec => []IInv
<1>1. IInv /\ [Next]_vars => IInv'
  BY TypeNext, PlacedNext, AcknowledgedNext, WritingNext, ConfirmedNext DEF IInv
<1> QED BY InitIInv, <1>1, PTL DEF Spec

\* A confirmed deposit is whole in some slot until the recipient has dealt with its
\* packet or the retention is over, whatever slots are used again.
THEOREM ConfirmedKept == Spec => []ConfirmedIsKept
BY InvariantHolds, PTL DEF IInv

\* Every acknowledgement, written or about to be, is of a packet the recipient has
\* stored or rejected.
THEOREM AcknowledgedHandled == Spec => []AcknowledgedIsHandled
BY InvariantHolds, PTL DEF IInv

\* The sender overwrites a live frame only when its packet was dealt with.
THEOREM OverwritesOnlyHandled == Spec => OverwritesHandled
<1>1. IInv /\ [Next]_vars =>
        [\A s \in Slot : first'[s] # first[s] /\ Live(first[s]) => Handled(first[s].packet)]_vars
  <2> SUFFICES ASSUME IInv, [Next]_vars, NEW s \in Slot, first'[s] # first[s], Live(first[s])
               PROVE  Handled(first[s].packet)
    OBVIOUS
  <2>1. deposit.phase \in {"second", "first"} /\ s = deposit.frame.slot
    BY SegmentsStep, DepositWrites DEF Elsewhere, IInv
  <2> QED BY <2>1 DEF IInv, Writing
<1> QED BY InvariantHolds, <1>1, PTL DEF Spec, OverwritesHandled
=============================================================================
