------------------------------- MODULE Outbox -------------------------------
(***************************************************************************)
(* The sending half of the native core: one command thread that journals,  *)
(* stores and hands over outgoing messages, and the network workers that   *)
(* carry their ciphertexts.                                                *)
(*                                                                         *)
(* A message fans out into entries, one ciphertext per recipient device.   *)
(* Accepting a message writes an encrypted intent (the journal), then      *)
(* materialises it into the message log and into the outbox file.  Workers *)
(* deliver entries and leave their result in memory; the next sync moves   *)
(* the results to the log and then to the outbox file.                     *)
(*                                                                         *)
(* Every command holds the command lock and the store lock for its whole   *)
(* duration, so a command is one action.  An I/O error may stop a command  *)
(* at any of its writes; the ...Stops operators are the disks it can then  *)
(* leave.  A process killed between two writes leaves one of the same      *)
(* disks, so a kill inside a command is that command stopped there,        *)
(* followed by Crash.                                                      *)
(*                                                                         *)
(* Operators named _Slip are plausible mistakes in the code they stand     *)
(* before.  Nothing uses them but the mutation runs, which put one of them *)
(* in the place of the real definition and expect a property to notice.    *)
(***************************************************************************)
EXTENDS Naturals, FiniteSets

CONSTANTS
  Msg,            \* outgoing messages, by their fresh random id
  Conv,           \* conversations
  Dest,           \* destinations: one mailbox or route per recipient device
  Entry,          \* ciphertexts, each for one message and one destination
  ConvOf,         \* [Msg -> Conv]
  MsgOf,          \* [Entry -> Msg]
  DestOf,         \* [Entry -> Dest]
  Legacy,         \* entries an old release left without their history
  None,           \* no intent in the journal
  MaxInFlight,    \* MAX_OUTBOX_IN_FLIGHT
  MaxPerMessage,  \* MAX_PER_MESSAGE
  MaxPerDest,     \* MAX_PER_DESTINATION
  MaxOutbox,      \* MAX_OUTBOX_DELIVERIES
  MaxFaults,      \* bound: I/O errors in a behaviour
  MaxRestarts,    \* bound: locks, reconfigurations and crashes in a behaviour
  ReadBackFails   \* whether the read that rescues a failed journal sync can fail

ASSUME OutboxAssumption ==
  /\ ConvOf \in [Msg -> Conv]
  /\ MsgOf \in [Entry -> Msg]
  /\ DestOf \in [Entry -> Dest]
  /\ Legacy \subseteq Entry
  /\ None \notin Msg
  /\ IsFiniteSet(Entry)
  /\ {MaxInFlight, MaxPerMessage, MaxPerDest, MaxOutbox, MaxFaults, MaxRestarts}
       \subseteq Nat
  /\ ReadBackFails \in BOOLEAN

VARIABLES
  disk,       \* the account's files, see Disk
  open,       \* configure_storage succeeded since the last wipe
  loaded,     \* messages_loaded
  messages,   \* in memory: the state of each message
  outbox,     \* in memory: the entries still to deliver
  contacts,   \* in memory: the conversations that exist
  worker,     \* this generation's transport: what became of each entry
  orphan,     \* workers of an older generation, their result will be dropped
  faults,     \* I/O errors so far
  restarts,   \* wipes, reconfigurations and crashes so far
  accepted,   \* history: sends that returned Ok
  rejected,   \* history: sends that returned an error
  cancelled,  \* history: conversations whose deletion was asked for
  handed      \* history: entries some transport took

diskVars    == <<disk, faults>>
memoryVars  == <<open, loaded, messages, outbox, contacts>>
networkVars == <<worker, orphan, handed>>
historyVars == <<accepted, rejected, cancelled>>
vars == <<diskVars, memoryVars, networkVars, historyVars, restarts>>

EntriesOf(m) == {e \in Entry : MsgOf[e] = m}

\* delivery_state of a message row; "absent" when there is no row.
State == {"absent", "queued", "sent", "delivered"}

\* A message with nobody to deliver to (an empty group) is born delivered.
BirthState(m) == IF EntriesOf(m) = {} THEN "delivered" ELSE "queued"

(***************************************************************************)
(* The files.  log is what the message log says now; torn is what it would *)
(* say after a restart that comes before a failed append is rolled back    *)
(* (the two are equal when no rollback is pending).                        *)
(***************************************************************************)
Disk == [journal  : Msg \cup {None},
         log      : [Msg -> State],
         torn     : [Msg -> State],
         outbox   : SUBSET Entry,
         contacts : SUBSET Conv]

-----------------------------------------------------------------------------
(* append_log::append: roll back what an earlier append left, then write.  *)

Appended(d, log) == [d EXCEPT !.log = log, !.torn = log]

\* Stopped before or at the pending rollback, after it, or with the new frame
\* written but neither synced nor rolled back.
AppendStops(d, log) ==
  {d, Appended(d, d.log), [d EXCEPT !.torn = log]}

(* outgoing_transaction::recover: replay the intent, if there is one.      *)

Replayed(d) == [d.log EXCEPT ![d.journal] = BirthState(d.journal)]

Recovered(d) ==
  IF d.journal = None THEN d
  ELSE [Appended(d, Replayed(d)) EXCEPT
          !.outbox  = d.outbox \cup EntriesOf(d.journal),
          !.journal = None]

\* The journal is unlinked before the outbox is written.
RecoverStops_Slip(d) ==
  IF d.journal = None THEN {d}
  ELSE LET logged == Appended(d, Replayed(d))
       IN  AppendStops(d, Replayed(d)) \cup {logged, [logged EXCEPT !.journal = None]}

RecoverStops(d) ==
  IF d.journal = None THEN {d}
  ELSE LET logged == Appended(d, Replayed(d))
           queued == [logged EXCEPT !.outbox = @ \cup EntriesOf(d.journal)]
       IN  AppendStops(d, Replayed(d)) \cup {logged, queued}
             \* unlinked, but the directory could not be synced
             \cup {[queued EXCEPT !.journal = None]}

(* ensure_messages_loaded: recover, then read the log if it is not in      *)
(* memory yet; reading finishes a pending rollback first.                  *)

Ensured ==
  IF loaded THEN Recovered(disk)
  ELSE Appended(Recovered(disk), Recovered(disk).log)

EnsureStops ==
  RecoverStops(disk) \cup (IF loaded THEN {} ELSE {Recovered(disk)})

History == IF loaded THEN messages ELSE Ensured.log

-----------------------------------------------------------------------------
(* The transport.                                                          *)

InFlight == {e \in Entry : worker[e] # "idle"}

Ended(result) == {e \in Entry : worker[e] = result}

\* counted: what select counts, the busy entries of the outbox and the new ones.
WithinLimits(D, counted) ==
  \A e \in D :
    /\ Cardinality({f \in counted : MsgOf[f] = MsgOf[e]}) <= MaxPerMessage
    /\ Cardinality({f \in counted : DestOf[f] = DestOf[e]}) <= MaxPerDest

\* Entries without a row pass.
Startable_History_Slip(box, rows, busy) ==
  {D \in SUBSET (box \ busy) :
     /\ Cardinality(busy \cup D) <= MaxInFlight \/ D = {}
     /\ WithinLimits(D, (busy \cap box) \cup D)}

\* The sets of entries a poll may start next to the busy ones, given the outbox
\* and the rows in memory.  A thread that cannot be spawned starts nothing, so
\* any set within the limits is possible; which entries select prefers is the
\* subject of OutboxSchedule.
Startable(box, rows, busy) ==
  {D \in SUBSET {e \in box \ busy : rows[MsgOf[e]] # "absent"} :
     /\ Cardinality(busy \cup D) <= MaxInFlight \/ D = {}
     /\ WithinLimits(D, (busy \cap box) \cup D)}

\* Start D, and forget the results in acked.
Poll(D, acked) ==
  worker' = [e \in Entry |-> IF e \in D THEN "running"
                             ELSE IF e \in acked THEN "idle" ELSE worker[e]]

NoWorkers == [e \in Entry |-> "idle"]

-----------------------------------------------------------------------------
Fault == faults < MaxFaults /\ faults' = faults + 1

NoFault == faults' = faults

\* A command that stopped with an error and changed nothing but files.
Stopped(disks) == Fault /\ disk' \in disks

LegacyMsg == {MsgOf[e] : e \in Legacy}

\* Ids are random: a message id is used once.
Tried(m) == m \in accepted \cup rejected \cup LegacyMsg

(* queue_outgoing and outgoing_transaction::commit.                        *)

\* The intent of m on disk, before it is materialised.
Intent(m) == [Ensured EXCEPT !.journal = m]

CanSend(m) == open /\ ~Tried(m) /\ ConvOf[m] \in contacts

HasRoom(m) == Cardinality(outbox) + Cardinality(EntriesOf(m)) <= MaxOutbox

\* A failed directory sync is reported as a failed send.
SendStops_Slip(m) ==
  /\ CanSend(m)
  /\ Stopped(EnsureStops \cup {Intent(m)}) /\ UNCHANGED <<loaded, messages>>
  /\ rejected' = rejected \cup {m}
  /\ UNCHANGED <<open, outbox, contacts, networkVars, accepted, cancelled, restarts>>

\* The store or the capacity refuses the message before any intent exists.
SendStops(m) ==
  /\ CanSend(m)
  /\ \/ Stopped(EnsureStops) /\ UNCHANGED <<loaded, messages>>
     \/ /\ \/ Stopped({Ensured})                           \* journal not written
           \/ ~HasRoom(m) /\ NoFault /\ disk' = Ensured    \* LimitExceeded
           \/ ReadBackFails /\ Stopped({Intent(m)})        \* renamed, yet Err
        /\ loaded' = TRUE /\ messages' = History
  /\ rejected' = rejected \cup {m}
  /\ UNCHANGED <<open, outbox, contacts, networkVars, accepted, cancelled, restarts>>

\* The intent is durable: from here on an error no longer revokes the message.
\* Workers start only if the intent could be materialised.
SendCommits(m) ==
  /\ CanSend(m) /\ HasRoom(m)
  /\ loaded' = TRUE
  /\ messages' = [History EXCEPT ![m] = BirthState(m)]
  /\ outbox' = outbox \cup EntriesOf(m)
  /\ \/ Stopped(RecoverStops(Intent(m))) /\ UNCHANGED worker
     \/ /\ NoFault /\ disk' = Recovered(Intent(m))
        /\ \E D \in Startable(outbox', messages', InFlight) : Poll(D, {})
  /\ accepted' = accepted \cup {m}
  /\ UNCHANGED <<open, contacts, orphan, handed, rejected, cancelled, restarts>>

Send(m) == SendStops(m) \/ SendCommits(m)

-----------------------------------------------------------------------------
(* sync_inbound_messages, its outgoing part: flush_outbox.                 *)

Delivered == Ended("delivered")
Failed    == Ended("failed")

\* A failed delivery is dropped from the outbox.
Retained_Slip == outbox \ (Delivered \cup Failed)

Retained  == outbox \ Delivered

\* One delivery is enough.
Finished_Slip ==
  {m \in Msg : History[m] = "queued" /\ \E e \in Delivered : MsgOf[e] = m}

\* Messages whose last entry is among the results.
Finished ==
  {m \in Msg : /\ History[m] = "queued"
               /\ \E e \in Delivered : MsgOf[e] = m
               /\ \A e \in Retained : MsgOf[e] # m}

MarkSent(rows, S) == [m \in Msg |-> IF m \in S THEN "sent" ELSE rows[m]]

\* The files once the messages of S are marked, one append each.
Marked(S) == IF S = {} THEN Ensured ELSE Appended(Ensured, MarkSent(Ensured.log, S))

SyncStops ==
  /\ open
  /\ Stopped(EnsureStops)
  /\ UNCHANGED <<memoryVars, networkVars, historyVars, restarts>>

\* No result is waiting: only start workers.
SyncIdle ==
  /\ open /\ Delivered \cup Failed = {}
  /\ NoFault /\ disk' = Ensured
  /\ loaded' = TRUE /\ messages' = History
  /\ \E D \in Startable(outbox, History, InFlight) : Poll(D, {})
  /\ UNCHANGED <<open, outbox, contacts, orphan, handed, historyVars, restarts>>

\* The rows in memory are marked before the log is written.
FlushStops_Slip ==
  /\ open /\ Delivered \cup Failed # {}
  /\ Stopped({Ensured}) /\ messages' = MarkSent(History, Finished)
  /\ loaded' = TRUE
  /\ \E D \in Startable(outbox, History, InFlight) : Poll(D, {})
  /\ UNCHANGED <<open, outbox, contacts, orphan, handed, historyVars, restarts>>

\* The append for some finished message failed, or the outbox was not stored:
\* the results stay with the transport.
FlushStops ==
  /\ open /\ Delivered \cup Failed # {}
  /\ \E S \in SUBSET Finished :
       /\ \/ \E m \in Finished \ S :
               Stopped(AppendStops(Marked(S), MarkSent(Marked(S).log, {m})))
          \/ S = Finished /\ Stopped({Marked(S), [Marked(S) EXCEPT !.outbox = Retained]})
       /\ messages' = MarkSent(History, S)
  /\ loaded' = TRUE
  /\ \E D \in Startable(outbox, History, InFlight) : Poll(D, {})
  /\ UNCHANGED <<open, outbox, contacts, orphan, handed, historyVars, restarts>>

\* Log first, outbox second, and only then the results are forgotten.  If the
\* trailing compaction of the log fails they are kept, to no harm.
FlushCommits ==
  /\ open /\ Delivered \cup Failed # {}
  /\ disk' = [Marked(Finished) EXCEPT !.outbox = Retained]
  /\ loaded' = TRUE /\ messages' = MarkSent(History, Finished)
  /\ outbox' = Retained
  /\ \/ /\ NoFault
        /\ \E D \in Startable(outbox', messages', InFlight \ (Delivered \cup Failed)) :
             Poll(D, Delivered \cup Failed)
     \/ /\ Fault
        /\ \E D \in Startable(outbox', messages', InFlight) : Poll(D, {})
  /\ UNCHANGED <<open, contacts, orphan, handed, historyVars, restarts>>

Sync == SyncStops \/ SyncIdle \/ FlushStops \/ FlushCommits

-----------------------------------------------------------------------------
(* delete_conversation.                                                    *)

\* cancel_pending_conversation keeps the entries of other conversations, as far
\* as the rows in memory tell.
Kept(c) ==
  {e \in outbox : ~(History[MsgOf[e]] # "absent" /\ ConvOf[MsgOf[e]] = c)}

Without(rows, c) == [m \in Msg |-> IF ConvOf[m] = c THEN "absent" ELSE rows[m]]

CanDelete(c) == open /\ c \in contacts

\* Outbox first (only if it shrinks), contacts second, log last.
Shed(c)    == [Ensured EXCEPT !.outbox = Kept(c)]
Cut(c)     == IF Kept(c) = outbox THEN Ensured ELSE Shed(c)
Removed(c) == [Cut(c) EXCEPT !.contacts = contacts \ {c}]

DeleteStops(c) ==
  /\ CanDelete(c)
  /\ \/ /\ Stopped(EnsureStops)
        /\ UNCHANGED <<loaded, messages, outbox, cancelled>>
     \/ /\ loaded' = TRUE /\ messages' = History
        /\ cancelled' = cancelled \cup {c}
        /\ \/ /\ Kept(c) # outbox
              /\ Stopped({Ensured, Shed(c)}) /\ outbox' = outbox
           \/ /\ Stopped({Cut(c), Removed(c)}
                         \cup AppendStops(Removed(c), Without(Removed(c).log, c)))
              /\ outbox' = Kept(c)
  /\ UNCHANGED <<open, contacts, networkVars, accepted, rejected, restarts>>

DeleteCommits(c) ==
  /\ CanDelete(c)
  /\ NoFault
  /\ disk' = Appended(Removed(c), Without(Removed(c).log, c))
  /\ loaded' = TRUE /\ messages' = Without(History, c)
  /\ outbox' = Kept(c)
  /\ contacts' = contacts \ {c}
  /\ cancelled' = cancelled \cup {c}
  /\ UNCHANGED <<open, networkVars, accepted, rejected, restarts>>

Delete(c) == DeleteStops(c) \/ DeleteCommits(c)

-----------------------------------------------------------------------------
(* network_recovered: due times are cleared and the whole outbox rewritten. *)

NetworkRecovered ==
  /\ open /\ outbox # {}
  /\ \/ NoFault /\ disk' = [Recovered(disk) EXCEPT !.outbox = outbox]
     \/ Stopped(RecoverStops(disk) \cup {Recovered(disk),
                                         [Recovered(disk) EXCEPT !.outbox = outbox]})
  /\ UNCHANGED <<memoryVars, networkVars, historyVars, restarts>>

-----------------------------------------------------------------------------
(* Locking, opening and dying.                                             *)

Restart == restarts < MaxRestarts /\ restarts' = restarts + 1

Forget ==
  /\ open' = FALSE /\ loaded' = FALSE
  /\ messages' = [m \in Msg |-> "absent"]
  /\ outbox' = {} /\ contacts' = {}
  /\ worker' = NoWorkers

\* A new generation drops the transport; its threads run on and report to nobody.
DropTransport ==
  /\ worker' = NoWorkers
  /\ orphan' = orphan \cup Ended("running")

\* wipe_memory: the vault is locked.
Wipe ==
  /\ open /\ Restart
  /\ Forget /\ DropTransport
  /\ UNCHANGED <<diskVars, handed, historyVars>>

\* configure_storage: also when the storage is already open.
Configure ==
  /\ \/ ~open /\ UNCHANGED restarts
     \/ open /\ Restart
  /\ \/ /\ NoFault /\ disk' = Recovered(disk)
        /\ open' = TRUE /\ loaded' = FALSE
        /\ messages' = [m \in Msg |-> "absent"]
        /\ outbox' = disk'.outbox /\ contacts' = disk'.contacts
        /\ DropTransport
     \/ /\ Stopped(RecoverStops(disk) \cup {Recovered(disk)})
        /\ UNCHANGED <<memoryVars, worker, orphan>>
  /\ UNCHANGED <<handed, historyVars>>

\* The process dies.  A frame whose rollback was pending is read back whole or
\* cut off as an incomplete tail.
Crash ==
  /\ Restart
  /\ Forget /\ orphan' = {}
  /\ \E log \in {disk.log, disk.torn} : disk' = Appended(disk, log)
  /\ UNCHANGED <<faults, handed, historyVars>>

-----------------------------------------------------------------------------
(* The workers: deliver_pending_payload either confirms a hand-off or not;  *)
(* without a confirmation the packet may still have arrived.               *)

WorkerDelivers(e) ==
  /\ worker[e] = "running"
  /\ worker' = [worker EXCEPT ![e] = "delivered"]
  /\ handed' = handed \cup {e}
  /\ UNCHANGED <<diskVars, memoryVars, orphan, historyVars, restarts>>

WorkerFails(e) ==
  /\ worker[e] = "running"
  /\ worker' = [worker EXCEPT ![e] = "failed"]
  /\ handed' \in {handed, handed \cup {e}}
  /\ UNCHANGED <<diskVars, memoryVars, orphan, historyVars, restarts>>

OrphanEnds(e) ==
  /\ e \in orphan
  /\ orphan' = orphan \ {e}
  /\ handed' \in {handed, handed \cup {e}}
  /\ UNCHANGED <<diskVars, memoryVars, worker, historyVars, restarts>>

-----------------------------------------------------------------------------
Init ==
  /\ disk = [journal  |-> None,
             log      |-> [m \in Msg |-> "absent"],
             torn     |-> [m \in Msg |-> "absent"],
             outbox   |-> Legacy,
             contacts |-> Conv]
  /\ open = FALSE /\ loaded = FALSE
  /\ messages = [m \in Msg |-> "absent"]
  /\ outbox = {} /\ contacts = {}
  /\ worker = NoWorkers /\ orphan = {}
  /\ faults = 0 /\ restarts = 0
  /\ accepted = {} /\ rejected = {} /\ cancelled = {} /\ handed = {}

Next ==
  \/ \E m \in Msg : Send(m)
  \/ Sync
  \/ \E c \in Conv : Delete(c)
  \/ NetworkRecovered
  \/ Wipe
  \/ Configure
  \/ Crash
  \/ \E e \in Entry : WorkerDelivers(e) \/ WorkerFails(e) \/ OrphanEnds(e)

Spec == Init /\ [][Next]_vars

-----------------------------------------------------------------------------
(* Properties.                                                             *)

TypeOK ==
  /\ disk \in Disk
  /\ open \in BOOLEAN /\ loaded \in BOOLEAN
  /\ messages \in [Msg -> State]
  /\ outbox \in SUBSET Entry
  /\ contacts \in SUBSET Conv
  /\ worker \in [Entry -> {"idle", "running", "delivered", "failed"}]
  /\ orphan \in SUBSET Entry
  /\ handed \in SUBSET Entry
  /\ faults \in Nat /\ restarts \in Nat
  /\ accepted \in SUBSET Msg /\ rejected \in SUBSET Msg
  /\ cancelled \in SUBSET Conv

\* What the next start of the program will read.
Durable == Recovered(disk)

Cancelled(m) == ConvOf[m] \in cancelled

\* A ciphertext reaches the network only if its message is in the durable
\* history: nobody receives a message its sender cannot see.
\* (dispatchable_outbox and the recovery that gates every poll)
HistoryBeforeNetwork ==
  \A e \in InFlight \cup orphan \cup handed :
    Cancelled(MsgOf[e]) \/ Durable.log[MsgOf[e]] # "absent"

SentOnAllDevices(m) ==
  "sent" \in {messages[m], disk.log[m], disk.torn[m]} => EntriesOf(m) \subseteq handed

\* A message shown or stored as sent, even in a frame still to be rolled back,
\* has been handed over for every device, unless the deletion of its
\* conversation was begun.  (flush_outbox)
SentMeansHandedOff == \A m \in Msg : Cancelled(m) \/ SentOnAllDevices(m)

\* A message stored as queued still has ciphertext to send, and all that was not
\* handed over yet: it is not stuck, and no device is skipped.
\* (the order of the writes in commit, recover and flush_outbox)
QueuedKeepsCiphertext ==
  \A m \in Msg :
    Durable.log[m] = "queued" /\ ~Cancelled(m) =>
      /\ EntriesOf(m) \cap Durable.outbox # {}
      /\ EntriesOf(m) \ handed \subseteq Durable.outbox

\* A send that returned Ok survives every error and restart.  (commit)
AcceptedSurvives ==
  \A m \in accepted : Cancelled(m) \/ Durable.log[m] # "absent"

\* A send that returned an error transmits nothing, not even after a restart,
\* so that sending it again does not duplicate it.  (commit)
RejectedNeverSent ==
  \A e \in InFlight \cup orphan \cup handed \cup Durable.outbox : MsgOf[e] \notin rejected

\* What the interface shows is what a restart would show.
\* (every handler writes the log before it changes the rows in memory)
MemoryMatchesDisk ==
  loaded => \A m \in Msg : Cancelled(m) \/ messages[m] = Durable.log[m]

(***************************************************************************)
(* The inductive invariant behind these properties, when the rescuing read *)
(* of a failed journal sync works.                                         *)
(***************************************************************************)

\* Rows and ciphertexts exist only for accepted messages; ids do not repeat.
Provenance ==
  /\ rejected \cap (accepted \cup LegacyMsg) = {} /\ accepted \cap LegacyMsg = {}
  /\ \A m \in Msg \ accepted : {disk.log[m], disk.torn[m], messages[m]} = {"absent"}
  /\ disk.journal \in accepted \cup {None}
  /\ \A e \in InFlight \cup orphan \cup handed : MsgOf[e] \in accepted
  /\ \A e \in outbox \cup disk.outbox : MsgOf[e] \in accepted \cup LegacyMsg

\* An intent is replayed over nothing newer than itself.
JournalIsYoung ==
  disk.journal # None =>
    /\ {disk.log[disk.journal], disk.torn[disk.journal]}
         \subseteq {"absent", BirthState(disk.journal)}
    /\ EntriesOf(disk.journal) \cap (InFlight \cup orphan \cup handed) = {}

\* A frame still to be rolled back is the replay of the intent, the mark of a
\* message that was handed over, or a deletion.
TornIsHarmless ==
  \A m \in Msg :
    \/ Cancelled(m) \/ disk.torn[m] = disk.log[m]
    \/ m = disk.journal
    \/ disk.log[m] = "queued" /\ disk.torn[m] = "sent"

\* The outbox in memory is what the next write stores: it holds every entry the
\* files hold.  Results exist only for loaded rows.
MemoryCoversDisk ==
  /\ open => Durable.outbox \subseteq outbox
  /\ InFlight # {} => loaded
  /\ loaded => open
  /\ Delivered \subseteq handed

IInv ==
  /\ TypeOK /\ Provenance /\ JournalIsYoung /\ TornIsHarmless
  /\ MemoryCoversDisk /\ MemoryMatchesDisk
  /\ HistoryBeforeNetwork /\ SentMeansHandedOff
  /\ QueuedKeepsCiphertext /\ AcceptedSurvives

\* The command thread, the files and the workers implement DurableSend, read off
\* the files as the next start would find them.
Promise == INSTANCE DurableSend WITH
  status   <- [m \in Msg |-> IF Cancelled(m) \/ Durable.log[m] = "absent" THEN "new"
                            ELSE Durable.log[m]],
  deleting <- cancelled,
  taken    <- handed

ImplementsPromise == Promise!Spec

(***************************************************************************)
(* Liveness.  The background loop calls sync again and again, every worker *)
(* ends (its calls carry timeouts), a vault that was locked is opened      *)
(* again, and a destination that is tried again and again is reached.      *)
(***************************************************************************)
Starts(e) == Sync /\ e \notin InFlight /\ worker'[e] = "running"

Collects == FlushCommits /\ NoFault

Fairness ==
  /\ WF_vars(~open /\ Configure /\ NoFault)
  /\ WF_vars(Collects)
  /\ \A e \in Entry :
       /\ SF_vars(Starts(e))
       /\ WF_vars(WorkerDelivers(e) \/ WorkerFails(e))
       /\ SF_vars(WorkerDelivers(e))

FairSpec == Spec /\ Fairness

\* Every accepted message is handed over for all its devices in the end and
\* leaves the queue, unless its conversation is deleted first.
EventuallySent ==
  \A m \in Msg :
    m \in accepted ~> Cancelled(m) \/ Durable.log[m] \in {"sent", "delivered"}
=============================================================================
