------------------------------ MODULE Inbound ------------------------------
(***************************************************************************)
(* The receiving half of the native core: what sync_inbound_messages does  *)
(* with the text packets of contacts, and the ratchet store it shares with *)
(* the sending half.                                                       *)
(*                                                                         *)
(* A packet is opened with a key the ratchet gives once.  The message is   *)
(* stored first and the use of the key is made durable after it, through   *)
(* a journal of its own: a failure in between takes the message back and   *)
(* leaves the key usable.                                                  *)
(*                                                                         *)
(* A command holds the command lock, so commands do not interleave; a      *)
(* packet takes several steps because the process may die between them.    *)
(* A kill inside a step is that step failed there, followed by Crash.      *)
(*                                                                         *)
(* Operators named _Slip are plausible mistakes in the code they stand     *)
(* before, used by the mutation runs only.                                 *)
(***************************************************************************)
EXTENDS Naturals, FiniteSets

CONSTANTS
  Peer,           \* contacts, each with one device
  Packet,         \* text packets of theirs, each with a key of its own
  PeerOf,         \* [Packet -> Peer]
  None,           \* no session, no journal, nothing in memory
  MaxSent,        \* bound: ciphertexts made for a peer
  MaxFaults,      \* bound: I/O errors in a behaviour
  MaxRestarts,    \* bound: locks and crashes in a behaviour
  ReadBackFails   \* whether the read that rescues a failed journal sync can fail

ASSUME InboundAssumption ==
  /\ PeerOf \in [Packet -> Peer]
  /\ {MaxSent, MaxFaults, MaxRestarts} \subseteq Nat
  /\ ReadBackFails \in BOOLEAN

VARIABLES
  waiting,    \* packets fetched, or to be fetched again, and not answered
  log,        \* message log: the packets it has a message of
  torn,       \* what the log would say after a crash before a pending rollback
  shown,      \* messages in memory
  contacts,   \* the contacts, in their file and in memory
  ratchet,    \* files of the ratchet store, see Ratchet
  runtime,    \* RuntimeStore: sessions and known identities, None before loading
  receiving,  \* the packet persist_inbound_payload is working on
  faults, restarts,
  answered,   \* history: packets acknowledged or refused
  cancelled,  \* history: packets whose conversation the user asked to delete
  erased,     \* history: those of them whose deletion and key were durable
  halved,     \* history: conversations whose deletion stopped half-way
  used        \* history: the last key given out for each peer

storeVars   == <<log, torn, shown, contacts>>
ratchetVars == <<ratchet, runtime>>
historyVars == <<answered, cancelled, erased, halved, used>>
vars == <<waiting, storeVars, ratchetVars, receiving, faults, restarts, historyVars>>

Fault == faults < MaxFaults /\ faults' = faults + 1
NoFault == faults' = faults
Restart == restarts < MaxRestarts /\ restarts' = restarts + 1

-----------------------------------------------------------------------------
(***************************************************************************)
(* The ratchet store.  A session is reduced to the number of the last key  *)
(* it gave out and to the keys of received packets it no longer has; the   *)
(* global store, to the peers whose identity it knows.  Sessions are read  *)
(* from their files when first needed; nothing changes the files of the    *)
(* others meanwhile, so here they are read together.                       *)
(***************************************************************************)
Session == [sent : 0 .. MaxSent, read : SUBSET Packet]

Runtime == [known : SUBSET Peer, session : [Peer -> Session \cup {None}]]

Journal == [peer : Peer, session : Session, known : (SUBSET Peer) \cup {None}]

Ratchet == [known   : SUBSET Peer,
            session : [Peer -> Session \cup {None}],
            journal : Journal \cup {None}]

\* The packet in work, whether its message is stored, and the store before it.
Receiving == [packet : Packet, stored : BOOLEAN, before : Runtime]

ASSUME NoneAssumption ==
  None \notin Session /\ None \notin Runtime /\ None \notin Journal /\ None \notin Receiving

NewSession == [sent |-> 0, read |-> {}]

(* recover_transaction.                                                    *)

WithSession(files) ==
  [files EXCEPT !.session[files.journal.peer] = files.journal.session]

WithGlobal(files) ==
  IF files.journal.known = None THEN files ELSE [files EXCEPT !.known = files.journal.known]

Recovered(files) ==
  IF files.journal = None THEN files
  ELSE [WithGlobal(WithSession(files)) EXCEPT !.journal = None]

\* The journal is removed before what it holds is in place.
RecoveryStops_Slip(files) ==
  IF files.journal = None THEN {files}
  ELSE {files, [files EXCEPT !.journal = None], [WithSession(files) EXCEPT !.journal = None]}

\* Where it may stop: the journal stays until both files are replaced.
RecoveryStops(files) ==
  IF files.journal = None THEN {files}
  ELSE {files, WithSession(files), WithGlobal(WithSession(files))}

(* ensure_loaded: recover, then read what is not in memory.                *)

\* The files are read before the journal is recovered.
Loaded_Slip ==
  IF runtime = None THEN [known |-> ratchet.known, session |-> ratchet.session] ELSE runtime

Loaded ==
  IF runtime = None
  THEN [known |-> Recovered(ratchet).known, session |-> Recovered(ratchet).session]
  ELSE runtime

KeysRead(state, p) == IF state.session[p] = None THEN {} ELSE state.session[p].read

Established(state, p) == IF state.session[p] = None THEN NewSession ELSE state.session[p]

\* A session of p changed; its identity is known from then on.
Updated(state, p, session) ==
  [state EXCEPT !.known = @ \cup {p}, !.session[p] = session]

Decrypted(state, k) ==
  LET p == PeerOf[k]
  IN  Updated(state, p, [Established(state, p) EXCEPT !.read = @ \cup {k}])

Encrypted(state, p) ==
  Updated(state, p, [Established(state, p) EXCEPT !.sent = @ + 1])

(* persist_transaction, for the session of p: before is the store it had.  *)

Journalled(files, before, after, p) ==
  [files EXCEPT !.journal =
     [peer |-> p, session |-> after.session[p],
      known |-> IF after.known = before.known THEN None ELSE after.known]]

\* The journal is durable: an error from here on does not revoke it.
Persists(before, after, p) ==
  LET journalled == Journalled(Recovered(ratchet), before, after, p) IN
  \/ NoFault /\ ratchet' = Recovered(journalled)
  \/ Fault /\ ratchet' \in RecoveryStops(journalled)

\* An error of the files the journal is copied to is returned as well.
PersistFails_Slip(before, after, p) ==
  /\ Fault
  /\ ratchet' \in RecoveryStops(ratchet)
                  \cup RecoveryStops(Journalled(Recovered(ratchet), before, after, p))

PersistFails(before, after, p) ==
  /\ Fault
  /\ \/ ratchet' \in RecoveryStops(ratchet) \cup {Recovered(ratchet)}
     \/ ReadBackFails /\ ratchet' = Journalled(Recovered(ratchet), before, after, p)

-----------------------------------------------------------------------------
(* append_log::append: roll back what an earlier append left, then write.  *)

Appended(rows) == log' = rows /\ torn' = rows

\* It stopped at the pending rollback, after it, or with the new frame written
\* but neither synced nor rolled back; or a full log was rewritten as a whole and
\* only the sync of its directory failed.
AppendFails(rows) ==
  \/ log' = log /\ torn' \in {torn, log, rows}
  \/ Appended(rows)

MessagesOf(p) == {k \in Packet : PeerOf[k] = p}

\* compact_message_log_if_needed writes the rows in memory as a new log.
MayCompact(rows, memory) == \/ Appended(rows)
                            \/ Appended(memory)

-----------------------------------------------------------------------------
(* persist_inbound_payload_with.                                           *)

Idle == receiving = None

\* A packet is fetched, for the first time or again.
Arrive(k) ==
  /\ k \notin waiting /\ waiting' = waiting \cup {k}
  /\ UNCHANGED <<storeVars, ratchetVars, receiving, faults, restarts, historyVars>>

Answer(k) == waiting' = waiting \ {k} /\ answered' = answered \cup {k}

\* The message is there already.
Duplicate(k) ==
  /\ Idle /\ k \in waiting /\ k \in shown
  /\ Answer(k)
  /\ UNCHANGED <<storeVars, ratchetVars, receiving, faults, restarts, cancelled, erased,
                 halved, used>>

\* Decrypt: the key is used up in memory only.
Open(k) ==
  /\ Idle /\ k \in waiting \ shown
  /\ k \notin KeysRead(Loaded, PeerOf[k])
  /\ ratchet' = Recovered(ratchet)
  /\ runtime' = Decrypted(Loaded, k)
  /\ receiving' = [packet |-> k, stored |-> FALSE, before |-> Loaded]
  /\ UNCHANGED <<waiting, storeVars, faults, restarts, historyVars>>

\* The error is taken for one that may pass.
Refuse_Slip(k) ==
  /\ Idle /\ k \in waiting \ shown
  /\ k \in KeysRead(Loaded, PeerOf[k])
  /\ ratchet' = Recovered(ratchet) /\ runtime' = Loaded
  /\ UNCHANGED <<waiting, storeVars, receiving, faults, restarts, historyVars>>

\* Its key was used before: it cannot be decrypted and never will.
Refuse(k) ==
  /\ Idle /\ k \in waiting \ shown
  /\ k \in KeysRead(Loaded, PeerOf[k])
  /\ ratchet' = Recovered(ratchet) /\ runtime' = Loaded
  /\ Answer(k)
  /\ UNCHANGED <<storeVars, receiving, faults, restarts, cancelled, erased, halved, used>>

\* The ratchet could not be recovered or read: the packet is left for later.
OpenFails(k) ==
  /\ Idle /\ k \in waiting \ shown /\ Fault
  /\ ratchet' \in RecoveryStops(ratchet) \cup {Recovered(ratchet)}
  /\ UNCHANGED <<waiting, storeVars, runtime, receiving, restarts, historyVars>>

Drop == receiving' = None /\ runtime' = receiving.before

Unstored == ~Idle /\ ~receiving.stored

\* The sender becomes a contact, and then the message is appended.
Save ==
  /\ Unstored
  /\ LET k == receiving.packet  p == PeerOf[k] IN
     /\ contacts' = [file |-> contacts.memory \cup {p}, memory |-> contacts.memory \cup {p}]
     /\ Appended(log \cup {k}) /\ shown' = shown \cup {k}
     /\ halved' = halved \ {p}
  /\ receiving' = [receiving EXCEPT !.stored = TRUE]
  /\ UNCHANGED <<waiting, ratchetVars, faults, restarts, answered, cancelled, erased, used>>

\* The message is appended although its contact could not be written.
SaveFailsAppends_Slip ==
  /\ Unstored /\ Fault
  /\ LET k == receiving.packet  p == PeerOf[k] IN
     /\ contacts' = [contacts EXCEPT !.memory = @ \cup {p}]
     /\ Appended(log \cup {k})
  /\ Drop
  /\ UNCHANGED <<waiting, ratchet, shown, restarts, historyVars>>

\* The packet is refused, as one that is invalid is.
SaveFailsRefuses_Slip ==
  /\ Unstored /\ Fault
  /\ Answer(receiving.packet)
  /\ Drop
  /\ UNCHANGED <<storeVars, ratchet, restarts, cancelled, erased, halved, used>>

\* The contact in memory stays, whichever write failed.
SaveFails ==
  /\ Unstored /\ Fault
  /\ LET k == receiving.packet  p == PeerOf[k] IN
     \/ /\ contacts' \in {[file |-> file, memory |-> contacts.memory \cup {p}] :
                            file \in {contacts.file, contacts.memory \cup {p}}}
        /\ UNCHANGED <<log, torn>>
     \/ /\ contacts' = [file |-> contacts.memory \cup {p}, memory |-> contacts.memory \cup {p}]
        /\ AppendFails(log \cup {k})
  /\ halved' = halved \ (contacts'.file \ contacts.file)
  /\ Drop
  /\ UNCHANGED <<waiting, ratchet, shown, restarts, answered, cancelled, erased, used>>

\* The use of the key is durable, and the packet is acknowledged.
Commit ==
  /\ ~Idle /\ receiving.stored
  /\ LET k == receiving.packet IN
     /\ Persists(receiving.before, runtime, PeerOf[k])
     /\ Answer(k)
  /\ receiving' = None
  /\ MayCompact(log, shown)
  /\ UNCHANGED <<shown, contacts, runtime, restarts, cancelled, erased, halved, used>>

\* rollback_message takes the message back, in memory even when the log fails.
CommitFails ==
  /\ ~Idle /\ receiving.stored
  /\ LET k == receiving.packet IN
     /\ PersistFails(receiving.before, runtime, PeerOf[k])
     /\ shown' = shown \ {k}
     /\ Appended(log \ {k}) \/ AppendFails(log \ {k})
  /\ Drop
  /\ UNCHANGED <<waiting, contacts, restarts, historyVars>>

-----------------------------------------------------------------------------
(* encrypt: a message to a contact.                                        *)

\* The ciphertext may be sent from now on.
Send(p) ==
  /\ Idle /\ p \in contacts.memory /\ Established(Loaded, p).sent < MaxSent
  /\ runtime' = Encrypted(Loaded, p)
  /\ Persists(Loaded, runtime', p)
  /\ used' = [used EXCEPT ![p] = runtime'.session[p].sent]
  /\ UNCHANGED <<waiting, storeVars, receiving, restarts, answered, cancelled, erased, halved>>

\* Nothing was sent and the store in memory is as before.
SendFails(p) ==
  /\ Idle /\ p \in contacts.memory /\ Established(Loaded, p).sent < MaxSent
  /\ PersistFails(Loaded, Encrypted(Loaded, p), p)
  /\ runtime' \in {runtime, Loaded}
  /\ UNCHANGED <<waiting, storeVars, receiving, restarts, historyVars>>

-----------------------------------------------------------------------------
(* delete_conversation: the contact first, then its messages.  The session *)
(* stays.                                                                  *)

Delete(p) ==
  /\ Idle /\ p \in contacts.memory
  /\ contacts' = [file |-> contacts.memory \ {p}, memory |-> contacts.memory \ {p}]
  /\ shown' = shown \ MessagesOf(p)
  /\ MayCompact(log \ MessagesOf(p), shown')
  /\ cancelled' = cancelled \cup ((log \cup shown) \cap MessagesOf(p))
  /\ erased' = erased \cup (shown \cap KeysRead(Recovered(ratchet), p))
  /\ halved' = halved \ {p}
  /\ UNCHANGED <<waiting, ratchetVars, receiving, faults, restarts, answered, used>>

DeleteFails(p) ==
  /\ Idle /\ p \in contacts.memory /\ Fault
  /\ \/ UNCHANGED <<log, torn>> \/ AppendFails(log \ MessagesOf(p))
  /\ contacts' = [contacts EXCEPT !.file = contacts.memory \ {p}]
  /\ cancelled' = cancelled \cup ((log \cup shown) \cap MessagesOf(p))
  /\ halved' = halved \cup {p}
  /\ UNCHANGED <<waiting, shown, ratchetVars, receiving, restarts, answered, erased, used>>

-----------------------------------------------------------------------------
\* What the process knows after it read its files again.
Reopened(rows) ==
  /\ Appended(rows) /\ shown' = rows
  /\ contacts' = [contacts EXCEPT !.memory = contacts.file]
  /\ runtime' = None

\* wipe_memory, and configure_storage at the next unlock: a pending rollback is
\* finished before the log is read.
Lock ==
  /\ Idle /\ Restart
  /\ Reopened(log)
  /\ UNCHANGED <<waiting, ratchet, receiving, faults, historyVars>>

\* The process ends at any step and starts again: a frame that a failed append left
\* is a message if all of it is there.
Crash ==
  /\ Restart
  /\ Reopened(log) \/ Reopened(torn)
  /\ receiving' = None
  /\ UNCHANGED <<waiting, ratchet, faults, historyVars>>

Init ==
  /\ waiting = {} /\ log = {} /\ torn = {} /\ shown = {}
  /\ contacts = [file |-> {}, memory |-> {}]
  /\ ratchet = [known |-> {}, session |-> [p \in Peer |-> None], journal |-> None]
  /\ runtime = None /\ receiving = None
  /\ faults = 0 /\ restarts = 0
  /\ answered = {} /\ cancelled = {} /\ erased = {} /\ halved = {}
  /\ used = [p \in Peer |-> 0]

Receive ==
  \/ \E k \in Packet : Duplicate(k) \/ Open(k) \/ Refuse(k) \/ OpenFails(k)
  \/ Save \/ SaveFails \/ Commit \/ CommitFails

Next ==
  \/ \E k \in Packet : Arrive(k)
  \/ Receive
  \/ \E p \in Peer : Send(p) \/ SendFails(p) \/ Delete(p) \/ DeleteFails(p)
  \/ Lock \/ Crash

Spec == Init /\ [][Next]_vars

-----------------------------------------------------------------------------
(* Properties.                                                             *)

TypeOK ==
  /\ waiting \subseteq Packet
  /\ log \subseteq Packet /\ torn \subseteq Packet /\ shown \subseteq Packet
  /\ contacts \in [file : SUBSET Peer, memory : SUBSET Peer]
  /\ ratchet \in Ratchet
  /\ runtime \in Runtime \cup {None}
  /\ receiving \in Receiving \cup {None}
  /\ faults \in 0 .. MaxFaults /\ restarts \in 0 .. MaxRestarts
  /\ answered \subseteq Packet /\ cancelled \subseteq Packet /\ erased \subseteq Packet
  /\ halved \subseteq Peer /\ used \in [Peer -> 0 .. MaxSent]

\* A packet that was answered, and will not be sent again, is in the history of the
\* files, whether or not the process dies now, or the user deleted it.
\* (sync_inbound_messages: only a saved packet is confirmed)
AnsweredIsKept == answered \subseteq (log \cap torn) \cup cancelled

\* A key is used up on disk only when its message is there: what can no longer be
\* decrypted was not lost.  (the order of append and commit_ratchet)
UsedKeyIsStored ==
  \A p \in Peer : KeysRead(Recovered(ratchet), p) \subseteq (log \cap torn) \cup cancelled

\* No key of a sending chain is used twice, whatever fails or restarts between two
\* messages.  (persist_transaction before the ciphertext is returned)
KeysAdvance == [][\A p \in Peer : used'[p] # used[p] => used'[p] > used[p]]_used

\* A message whose key was durable does not come back once the user deleted it, however
\* often its packet is delivered again.
DeletedStaysDeleted == (shown \cup log) \cap erased = {}

\* What is shown was written, and its sender is a contact.
\* (the order of persist_contacts and append_message_event)
HistoryHasContact ==
  /\ shown \subseteq log \cup cancelled
  /\ \A k \in shown : PeerOf[k] \in contacts.memory \cup halved
  /\ \A k \in log \cup torn : PeerOf[k] \in contacts.file \cup halved

(***************************************************************************)
(* Liveness: every sync goes through all the packets it drained.           *)
(***************************************************************************)
Fairness ==
  /\ \A k \in Packet : SF_vars(Duplicate(k) \/ Open(k) \/ Refuse(k))
  /\ WF_vars(Save) /\ WF_vars(Commit)

FairSpec == Spec /\ Fairness

\* A packet that waits is answered in the end: stored, or found never to be readable.
\* (sync_inbound_messages: a failed packet is retried, an invalid one discarded)
EventuallyAnswered == \A k \in Packet : k \in waiting ~> k \notin waiting
=============================================================================
