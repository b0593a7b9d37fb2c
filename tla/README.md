# A verification project for the Sylphy native core

Sylphy is a peer-to-peer messenger: a Flutter client over a Rust core
(`src/native/core`) that keeps everything in encrypted files and exchanges
ciphertexts over the Veilid network. This directory holds TLA+ models of the
core's stateful protocols, the TLC runs that check them on small instances and
proofs, checked by TLAPS, for instances of any size.

To repeat a check: `tlc -config MCOutbox.cfg MCOutbox`, and the same for every
other configuration (`PROJECT.json` lists the module of each); `tlapm
OutboxProofs.tla`, and the same for `OfflineMailboxProofs`, `OutboxScheduleProofs`, `AccountImportProofs`,
`InboundProofs`, `ReplicasProofs`, `GroupControlProofs` and `AttachmentsProofs`, for the proofs.

## 1. Inventory

All paths are below `src/native/core/src`. "Command" is a call of the client:
commands hold `COMMAND_LOCK` (`ffi.rs`) and never interleave with each other;
what runs beside them are delivery workers, uploads, the poll of mailboxes, the
acknowledgements it owes, a refresh of the contacts' directory, and the end of
the process.

| part | state | operations | what makes it correct |
|---|---|---|---|
| outgoing transaction, log, outbox (`messaging_adapter.rs`, `messaging_adapter/outgoing_transaction.rs`) | journal, message log, outbox and contact files; rows, entries and contacts in memory | send, sync, delete, lock, open | an accepted message is durable and delivered in full or still queued; a refused one is never transmitted |
| append log, atomic file (`append_log.rs`, `atomic_file.rs`) | offsets of appends that could not be rolled back | append, replace, recover | the file is a sequence of whole frames, and a failed one is never kept by accident |
| outbox scheduling (`messaging_adapter/outbox_schedule.rs`) | entries in flight, results, streak of fresh entries | poll, acknowledge | limits hold, nobody starves |
| direct and hedged delivery (`direct_delivery.rs`, `hedged_delivery.rs`) | none that lasts | race of a call and a deposit | the delivery succeeds if either does |
| offline mailbox (`offline_mailbox.rs`, `veilid_adapter.rs`) | a DHT record of slots; local copies, digests seen, packets in flight | deposit, poll, acknowledge | a deposit that returned Ok is not lost, slots are used again |
| offline watch (`veilid_adapter/offline_watch.rs`) | watches of records, dirty set | renew, changed | a change is noticed by the watch or by the next full poll |
| receiving, ratchet (`messaging_adapter.rs`, `ratchet_adapter.rs`) | log, contacts, ratchet store and its journal | receive, send, delete, lock | a key is used up only with its message stored, and never twice |
| receipts (`messaging_adapter/receipts.rs`) | acknowledgements per message and recipient, marker of the receipt last sent | receive, owe, send, merge | a tick is earned by every recipient, is never taken back, and a receipt owed is sent |
| groups (`messaging_adapter/groups.rs`) | members, roles, revision, links, requests, what the others are still owed | actions of the owner, requests of the others, snapshots, join, leave, hand over, close | members agree with the coordinator once all is delivered, a request counts once, who left is out |
| attachments, uploads (`messaging_adapter/attachments.rs`, `uploads.rs`, `blob_transport.rs`) | pending uploads, leases, blobs | start, poll, cancel | a blob lives exactly as long as its message needs it |
| device sync (`device_sync.rs`) | queue of events, journal of the account | queue, publish, read, apply | linked devices agree, and an old copy undoes nothing |
| identity and peers (`identity.rs`, `peer_identity.rs`, `bundle.rs`, `invitation.rs`, `envelope.rs`) | identity record, retired keys | open, rotate, publish, refresh | packets under a retired key stay readable as long as they are kept |
| vault, app lock (`vault.rs`, `app_security.rs`) | session secret, expiry, failed attempts | unlock, lock, expire | no command runs on a locked vault |
| backup and import (`account_backup.rs`) | journal, rollback and staging directories | import, recover, export | one whole account at any time |
| node, DHT, recovery (`veilid_adapter.rs`, `network_recovery.rs`, `identity_publication.rs`) | runtime, attachment | start, stop, reattach | an attach follows the end of the detach |
| activity events, counters (`activity_events.rs`, `performance.rs`) | a sequence number | notify, wait | no wakeup is missed |
| glue, views, client (`ffi.rs`, `android.rs`, `messaging_adapter/search.rs`, `notifications.rs`, `message_ids.rs`; `lib/`) | none of its own | marshalling, reads | |

How they interact. A send encrypts with the ratchet, writes an intent to the
journal, and materialises it in the log and the outbox; each sync first receives
(queue of fetched packets, then decryption, log and ratchet, then the
acknowledgement to the mailbox), then applies the results of workers, then polls
the schedule for entries to start. A worker takes the direct route, the mailbox,
or both. Deletion of a conversation cuts across all of it, and so does a lock,
which wipes memory while workers and acknowledgements run on.

What is hard here: writes to two or three files that make one change, with an
error or the end of the process between any two; errors that come *after* a
rename took effect; results of workers that outlive the account's memory; two
processes that share a DHT record without a lock; repeated delivery of a packet
to a ratchet that can open it once. `PROJECT.json` lists these hazards, each at
its line, with the properties that would notice it going wrong.

## 2. Plan

The order follows what users would lose: messages sent, messages on their way,
messages received, the account; then turns of workers; then the features on top.

| module | composes | status |
|---|---|---|
| `DurableSend`, `Outbox`, `MCOutbox`, `OutboxProofs` | journal, log, outbox, contacts, workers | done, proved; implements `DurableSend`, proved |
| `OfflineMailbox`, `MCMailbox`, `OfflineMailboxProofs` | sender, DHT record, recipient | done, proved |
| `OutboxSchedule`, `MCSchedule`, `OutboxScheduleProofs` | turns and limits of the workers | done, proved |
| `AccountImport`, `AccountImportProofs` | import, recovery, start | done, proved |
| `Inbound`, `MCInbound`, `InboundProofs` | log, contacts, ratchet store | done for text packets, proved |
| `Replicas`, `MCReplicas`, `ReplicasProofs` | receipts, device sync, message logs of all devices | done for messages, proved |
| `GroupControl`, `MCGroup`, `GroupControlProofs` | groups of all devices, their queues, copies between linked devices | done, proved |
| `Attachments`, `MCAttachments`, `AttachmentsProofs` | history, uploads, leases, blobs; downloads | done for one sender, proved |
| `HedgedDelivery` | direct call and deposit; implements the worker of `Outbox` | next |
| `AppendLog` | the table of pending rollbacks; to be used by `Outbox` and `Inbound` | next, with a proof |
| `OfflineWatch`, `NetworkRecovery`, `ActivityEvents` | small protocols with a concurrent party | later |
| `IdentityRotation` | retired keys against the retention of mailboxes | later |

Theorems still worth proving: those of `AppendLog`, once it is written. Every safety property and every action
property that a run checks is proved.

## 3. The modules and the code

Every module has its actions named after functions or steps of the source;
`PROJECT.json` gives the lines for each definition. Definitions that end in
`_Slip` are plausible mistakes put in the place of the real definition, to see
that a property notices them; nothing in the specifications uses them.

### Outbox and DurableSend

A message fans out into entries, one ciphertext per device. A command is one
action with two forms: `...Commits`, and `...Stops`, which leaves one of the disks
that the sequence of its writes can leave. This is sound because a command
holds the command lock and the lock of the store, so that nobody sees the middle
of it, and because a process killed inside a command leaves a disk that the
same command stopped by an error leaves too: the kill is `Stops` and then
`Crash`. `disk` has the journal, the log as it is (`log`) and as it would be read after a
crash before a pending rollback (`torn`), the outbox and the contacts.
`worker` is the transport of this generation, `orphan` the workers of an older
one. `DurableSend` has only a status for each message, the entries the network took
and the conversations being deleted; `ImplementsPromise` reads it off the files
as the next start would find them.

Left out: control packets, the replacement of an entry's route, uploads that
are still pending, a full message log (which `append` rewrites as a whole).

### OfflineMailbox

One sending and one receiving device and the record between them. The steps are
the operations on the DHT, since the processes share no lock: the search
of a slot (`Search`), the writes of the continuation and then of the first
segment, the confirmation by reading back; on the other side the pass over slots
that the report of `inspect` shows as changed, the queue, the decision
(persist, discard, retry) and the acknowledgement with its own re-read. Any
operation may fail, time out after it took effect, or be superseded. Frames expire.

Abstracted: encryption of records, chunks, the network itself (marked external:
a read sees the newest value or fails).

### OutboxSchedule

`select` with its greedy loop, the streak of fresh entries, the three limits, and
the events around it: arrivals, answers, retries that fall due, cancellation, and
`network_recovered` and a reroute, which make every retry, or those of one device, due at once and
before all others. An attempt by a route that was replaced meanwhile (`rerouted`) is due at once when it fails.
Time is only the order in which retries fall due. A queue is a set and an order of it, and the loop is a function
from the number of turns taken to what they picked (`Loop`), with the copy of the streak by which `select` chooses
and the streak that the starts leave, which differ when a thread cannot be spawned. A reroute whose write fails
splits the entries of a device in two destinations where it has no mailbox; that is left out.

### AccountImport

The two directories of an account, the rollback directory and the journal, with
one action per rename, removal and journal write, of `import` and of
`recover_pending_import`, which can itself stop anywhere. A directory is reduced
to the account it belongs to. `ensure_identity` and `configure_storage` are there
because the client calls them at a start.

### Inbound

The text packets of contacts: `Open` (decrypt in memory), `Save` (contact,
then message), `Commit` (the ratchet's journal, then the acknowledgement), with the failure of
each and its rollback, `Refuse` for a key that was used before, `Duplicate` for a
message already there, `Send` for the other user of the ratchet store, `Delete`,
`Lock` and `Crash`. The ratchet is reduced to what matters here: which keys of
received packets are gone, how many sending keys were given out, and which
identities are known, which lives in the other file that a transaction replaces.

Left out: control packets, legacy placeholders of attachments, limits on
sessions and messages (a full store is one more failure that may pass), and the
setting that refuses unknown senders. Packets that are invalid are in `OfflineMailbox`.

### Replicas

The message logs of all devices of an author and of his recipients, and what
moves ticks between them. A recipient owes a receipt when it has a message and, if its
user shares that, when it was read (`Flush`: the receipt to the outbox, then the
marker of each message); every device of the author merges it (`OnReceipt`). A change of a
message is queued for the linked devices; a worker tries their routes and puts
the copy in the account's journal when one is not reached. Copies and receipts come late, in any
order, or twice. A command is the state after its last durable write, with the
states after the earlier ones, where it may end (`stops`). `net` holds what was handed to the transport, which `Outbox` keeps until it is sent.

Left out: a message of a group without members, which has no packets and counts as delivered when it is written
(`ReplicasAssumption` asks for a device that is not the author's); copies of contacts and profiles, the limit on the length of the queue, two linked devices
that write the same slot of the journal at once (the record's own rules decide that),
a device that stays away longer than journals are kept.

### GroupControl

One group on every device that has to do with it. The coordinator, a device of the
owner, applies an action, counts a revision and owes every member a snapshot of the whole
group; another member's action is a `Request` to it. `outbound` is what the stored group
owes the others, `Transferred` moves it to the outbox, and from the outboxes packets arrive in any order
and, if a command dies on the way, more than once. A command is what it ends in (`done`) and the states
after its earlier writes, where it may end (`stops`); `Then` puts two parts in a row. A member leaves with a `Departure`; an owner who leaves names a successor and
waits for him. An invitation is answered with a `Join`, and a link of an older
generation is refused. Linked devices exchange their copies. Three things are history and nothing in the code: `told`, the
snapshots that a device's saved group came to owe, `answered`, those a device has dealt with, and
`quit`, the accounts a device of which has left.

Abstracted: name, policy, pins, channels and notices are one value, `info`. Left out: rate limits,
media limits, and roles beyond the rights that the actions ask for.

### Attachments

A file, from the device that sends to the one that shows it. The upload worker publishes
a blob and then waits while the command thread commits the message, with the lease that
later deletes the blob, and answers; each side may be overtaken by suspension,
deletion of the message, lock or death. `Polled` is the whole of `uploads::poll`: it takes the
results, refuses or commits each, with what a failure leaves, cancels what nobody wants any more, and
then starts the uploads that are due, in the order of the history, as far as the permits go (`Startable`).
Files are numbers in that order; a blob is a file and the number of its upload. The other half is the
download with its worker, whose result may come after nobody waits for it.

One permit stands for the two of the code; several files compete for it
because a job that was locked away keeps its worker. Left out: several senders, the limit of four transfers,
and the records a blob is made of.

## 4. The runs

| run | question | bounds |
|---|---|---|
| `outbox_safety` | Do files, memory and network stay consistent, and implement `DurableSend`, through sends, syncs, deletions, locks, crashes? | 3 messages (one to two devices, one to one, one left without history by an old release), 2 errors, 2 restarts |
| `outbox_liveness` | Does every accepted message leave the queue? | 2 messages, 1 error, 1 restart |
| `mailbox_safety` | Can a confirmed packet be lost, or a frame overwritten before it was dealt with? | 2 packets, one of two segments and one invalid, 2 slots, 1 fault, 1 restart, 1 expiry |
| `mailbox_delivery` | Is a confirmed packet handled in the end, and its slot given back? | 3 packets (of two segments, of one, invalid) for 1 slot, 1 fault, 1 restart |
| `schedule_safety` | Turns of fresh entries and retries; limits that hold, with no worker idle below them | 4 entries, 3 workers, bursts of 1, cancellations, 1 recovery or reroute |
| `schedule_fairness` | Does an entry wait only for its own message and destination? | 3 entries, 1 worker, bursts of 2, 2 recoveries or reroutes |
| `import_safety` | Is one account always whole, and are results true? | 4 accounts, any faults and crashes |
| `import_mixed` | Is an identity never next to the messages of another? *No*, see findings | no faults, a crash |
| `inbound_safety` | Is no message lost to a used key, no sending key used twice, every packet answered? | 2 packets of 2 contacts, 2 keys for each, 2 errors, 1 restart |
| `replicas` | Are ticks true, kept and the same on all devices, and receipts never lost? | 1 message, 2 devices of its author, 2 recipients of whom one shares reading, 1 slot, 1 death or repetition |
| `groups` | Do members agree when all is delivered, is a request applied once, is everyone told, does who left stay out? | an owner, a member with two devices and a third account that only comes in by the link; 5 requests, a message, 1 death, 3 events |
| `attachments` | Does a sent file exist, is no blob left behind, is a late result harmless, does every file settle? | 1 file, 1 permit, 2 failures, suspensions, locks or deaths (hence 3 uploads) |

Why these bounds are enough. The protocols treat messages, slots, peers and accounts alike,
and a step touches at most two of them, so that two or three of each
meet in all the ways the code tells apart: two entries of one message,
two messages to one device, two packets for one slot, two sessions for
one journal. Errors matter when one hits the recovery of another, hence two where
the code has a recovery of its own and the state space allows it; one restart with an error before and after it
reaches every path of recovery, and where recovery has steps of its own (`AccountImport`)
errors and restarts are not bounded at all. Two slots with one packet of two segments is the
least in which a frame spans slots; one journal slot the least in which copies displace each other;
two devices of one account the least in which copies meet receipts or snapshots. In `groups`
an admission by link, or a delegate's request after the grant of its right, takes two events, so that 3 let either meet
a death, a deletion, a departure or the end of the group; that more events, accounts and devices add nothing is what the theorems are for. Bounds named in the modules
(`MaxFaults`, `MaxCuts`, `MaxEvents`, `MaxRestarts`, `MaxExpired`, `MaxSent`, `MaxRecoveries`, `MaxAccounts`)
are not in the code; `MaxOutbox`, `MaxInFlight`, `MaxPerMessage`, `MaxPerDest`,
`MaxInbox`, `MaxSeen`, `SlotCount`, `FreshBurst` are constants of the code with small values.

`replicas`, `groups` and `attachments` do not look for deadlocks: there everything may be
delivered, done or given up, and the system stops. That such a state is a good one is what
`QuietMeansAgreed` and `EventuallySettled` say. `TypeOK` is checked where it says more than ranges
(`Replicas`, `Attachments`); it is proved for all modules but `GroupControl`, where
it is written down for the reader.

### Fairness

* The client's background isolate calls sync again and again: weak fairness of
  the step that applies results, strong fairness of starting an entry, since
  others may hold the workers in between. A sync goes through all the packets it drained:
  strong fairness for each packet in `Inbound`, which errors and restarts interrupt.
* Every worker's calls have time limits, so each worker ends; a destination
  tried again and again is reached once. This is an assumption about
  the network, made only by `outbox_liveness` and `mailbox_delivery`.
* A mutex of the runtime hands itself over in order: a deposit or a poll that
  waits for the record's lock gets it (strong fairness of `StartDeposit`, `StartPoll` and
  `ReadForAck`).
* `Attachments`: weak fairness of the polls (`Poll`, `PollDownloads`), of the workers
  (`Work`, `Fetch`), whose calls have time limits, and of the clock (`Tick`). `GroupControl` and
  `Replicas` claim nothing about time: their properties speak of states in which nothing is under way.
* There is none for crashes, errors, expiry or deletion, and errors are bounded.
* In `OutboxSchedule` the network or a device comes back a bounded number of times. Without
  that bound entries early in the outbox would be made due again and again
  before the others.

## 5. The proofs

The proofs hold for any sets of messages, devices, files and accounts, any limits and any number of
faults and restarts: they use nothing of the constants but the assumptions named in the modules
(`OutboxAssumption` and its like, which TLC evaluates in every run, and `NoneAssumption` of `Inbound`: the
value that stands for a store not loaded is no store). Hypotheses beyond these are in the
statements of the theorems, and there is one: `~ReadBackFails`, explained below.

**`OutboxProofs`** proves that every reachable state satisfies `IInv` and `RejectedNeverSent`,
and from it type correctness and the six safety properties of the module.
They assume `~ReadBackFails`: that the read which decides whether a journal whose
write failed is nevertheless there does work. The code cannot do without it: with it failing, a
send reports an error and happens all the same.

The properties are not inductive. `QueuedKeepsCiphertext` speaks of the files as
recovered, so one must know that replaying the intent overwrites nothing newer
(`JournalIsYoung`), that a frame still to be rolled back is harmless
(`TornIsHarmless`), that rows and entries exist only for accepted messages
(`Provenance`), and that the outbox in memory, which the next write stores, covers
the one in the files (`MemoryCoversDisk`). The proof splits this in a part about
one disk (`DiskSound`), shown for every disk a command can stop at, because each
write moves the disk by one of few `Moves`, and a part about memory.

Its second part proves that `Outbox` implements `DurableSend` (`ImplementsPromise`), under
`~ReadBackFails`. Every step shows in the promise as one of four things, by what it does to the rows
of the files as recovered: nothing, rows that become sent (all their ciphertexts were
taken), the first row of a message, or the start of a deletion. The invariant says which; the frames that
are only rolled back, replayed or written again are stutters because the mapping reads the files as the next
start would.

**`OfflineMailboxProofs`** proves that a deposit that returned Ok is not lost, that an acknowledged frame
was dealt with and that only such frames are overwritten. The invariant adds what the sender's
lock gives it (`Writing`): from the search of a slot to the last write, a frame that lives in the slot it chose has
been dealt with, although the recipient goes on in between.

**`OutboxScheduleProofs`** proves type correctness, that retries get their turn (`BurstIsBounded`) and that the
limits are kept and used up (`LimitsAreTight`), for any burst, limits and number of entries. Between polls it needs
only that no retry was passed over more often than the streak says, and that what has a worker is `Capped`. The
work is in the loop of `select`, which may take any number of turns: `TurnSound` says what holds after each of them, and
`LoopSound` that it holds after all, since there would otherwise be a first turn after which it does not (`Least`).
The same argument gives that a turn exists (`TurnsExist`), that an order has a first entry (`FirstIsIn`) and that a thread
that cannot be spawned does not change what is picked (`PickedSame`).

**`AccountImportProofs`** proves all six properties of the module for any
number of accounts. Its invariant says where each old directory is: `Saving` while
the journal says begun, `Replaced` once it says committed, `Settled` without one,
`Steps` for what each step of import or recovery finds, `Newest` so that the new account is
told from the old one, and `Outcome` for what the caller is told. `ReturnsTheTruth` holds with every
operation failing. An error may be untrue in one case, which `ResultIsTrue` names: the write of the commit
made its rename and failed to sync the directory, so recovery keeps the new account; the invariant then has
that account whole (`KeptByCommit`).

**`InboundProofs`** proves the five safety properties of the module. `KeysAdvance` needs only that no copy of a
session, in memory, on disk or kept for a rollback, is behind the last key given out (`SentSound`), and
assumes nothing; the other four assume `~ReadBackFails`, as the code's own rollback does. `RatchetSound` and
`WorkSound` relate the three copies of the ratchet store during a packet: memory is the copy kept for the rollback
with the packet's key used up, disk has not used it yet. `StoreSound` then gives what matters, a key is used up
on disk only with the message in the log, whether or not a frame is still to be rolled back.

**`ReplicasProofs`** proves type correctness, that ticks are earned, never fall back, and that no
receipt is lost. The invariant says of everything that can still be merged or delivered (an entry of a
log, a queued or journaled copy, a packet in an outbox or in the network) what the
properties say of the logs, and is shown for each state a command may stop at. `Kept` is the part about loss: a
marker is set only once a receipt of that account, of that rank or higher, is on its way or has been merged.

That the linked devices end up with the same ticks (`QuietAgrees`) needs a second invariant, `Agreeing`, which holds as long
as no command has died. It follows single receipts, not copies: what a device of the author shows of one
recipient, each of the others shows too or has a `Source` for, a copy in the queue of another device or one in the journal
that it has not read. A source may change its form, from queue to journal to log, and the lemma `SourcesStay` says
that none is lost when every event that leaves a queue or is read was heard or put in the journal (`QueuesKept`,
`JournalKept`). Rows that are still queued are the exception, for a message is announced only with its last packet: they have texts left to
hand over (`Waits`). `Exact` adds that a tick is the one its receipts give, so that the same receipts mean the same tick. When
nothing is under way every source is a log, and the devices agree; that the writer's knowledge is the recipients' follows from
`Kept` and the truth of ticks alone, whatever died.

**`AttachmentsProofs`** proves type correctness and the four safety properties. A poll takes the
sender through several states in one step, so the invariant is stated of a record (`Sound`), kept by each of
the three parts of a poll, `Collected`, `Withdrawn` and `Started`. Its heart is who may still remove a
blob: a job on the list has had no answer, a worker with an answer is off the list, and the blob of a
sent message belongs to a job that is over or was told to keep it (`Safe`). For the recipient, `Asked` says that
whoever is fetched for or waits was asked for, unless the worker was locked away or the wish withdrawn. The permits are
counted with the cardinality of the workers that live, hence the lemmas on finite sets.

**`GroupControlProofs`** proves that a group one left stays left, that everyone is told, and that a request
is applied once. The first is a property of a step, but what a late packet may do to a group depends
on what it carries, so the invariant speaks of every group in the system: stored, in a snapshot or an invitation,
or in a copy for a linked device (`StateSound`, `PacketSound`, `GroupSound`). Three things hold of all of
them. A group one has left counts the account as removed, so that nothing is written, applied or received in it.
Until the creator's account has left, each names the creator as owner and coordinator (`Ruled`), and no
departure comes from his account; hence only he tells, a snapshot that arrives cannot replace his own
copy, and the requests he knows are never forgotten. What was told is in the group's `outbound`, in the outbox, or
dealt with, and its requests are known (`ToldSound`), so a second revision for one of them is impossible. Each
command is shown to keep this in every state where it may stop (`Fine`), part by part with `ThenFine`.

Its second part proves `QuietMeansAgreed`, which needs an account of every snapshot, request, invitation and copy that was
ever made. The invariant `Agreeing` says that, until the authority is handed over, there is a chronicle `c` that accounts for them
(`Told`): what the group of the creator says and at which revision (`rev`), the last revision that everybody was told of
(`since`), and who has left (`quit`). Of every group, stored or carried by any packet, it says that it is no newer than
`rev`, and that one of revision `since` or later says what the chronicle says (`Dated`, `Says`). Between the two lie the revisions
that nobody else is told of: a departure counts one without a snapshot, and changes only the role and the membership of the account that departed,
which is why `Says` leaves out the departed. A group that is closed takes no more
snapshots, so it must already be of revision `since`. On the other side stand those who must catch up: a member that has not
left has revision `since`, or is still owed a snapshot of exactly that revision (`Reached`, which with
`ToldSound` of the first part cannot be lost); a linked device of the creator has it or is still owed a copy
(`Copied`), which holds only as long as nothing died. `Onto` is the order of chronicles: a step either leaves what is said as it is,
and may add to the departed, or says something new to everybody at a higher revision, and the lemmas ending in `Later`
carry every group from a chronicle to the next. Each command is followed write by write, as in the first part, in
every state where it may stop (`Heeds`, `AllHeed`): an action of the coordinator turns the chronicle (`Turned`), everything else
stays under the one there is (`Onward`). `Purified` is the half about texts: a device that is alone in its account keeps no text its group
counts as deleted, unless the deletion is still due (`effect`). When nothing is under way nobody is owed anything,
so everyone has revision `since` or later and says what the creator's group says.

`QuietMeansAgreed` has four exceptions, each for something the code does (section 6, Groups): accounts that left before, the roles
and membership of the departed, linked devices of the coordinator after a death, and the texts of devices
that are not alone. The invariant was tried with TLC before it was proved, on a complete run of three devices, three events
and one death, and on random runs of five devices.

Only model-checked, because the prover cannot do it: liveness, which needs fairness and ENABLED
(`schedule_fairness`, `outbox_liveness`, `mailbox_delivery`, `EventuallySettled`, and what `inbound_safety` says of
answers). `TypeOK` of `GroupControl` needs what
filtering a sequence (`SelectSeq`) returns, and the prover has no definition of that operator to start from.

## 6. What was found

* `import_mixed`: the recovery of an interrupted import runs only at the next
  import. A start in between opens or creates an identity beside the messages of another account.
  `account_backup.rs` and `specs/reliability.md` say it runs before.

No run states the following. They were met while modelling; the modules show
each by setting a constant, or state the exception in the property concerned, or leave
the case out as said.

Sending and receiving:

* `delete_conversation` empties the outbox before its other writes.
  If one of them fails the messages stay, and one partly delivered is then marked sent, where
  `specs/offline-delivery.md` says it stays queued (`SentMeansHandedOff` excepts a conversation whose
  deletion began).
* `outbox_schedule.rs` counts only the busy entries that are still in the outbox. Workers of a
  deleted conversation run on uncounted, so one destination can take all of them, where
  `specs/performance.md` says one slot is always left (`LimitsAreTight` is about entries in the outbox).
* With `ReadBackFails` a send that returned an error is transmitted.
* An import may return an error and have replaced the account. One failed sync of the directory after the
  rename of the commit is enough (`save_journal` in `import`, `atomic_file::replace`): recovery finds a journal that says
  committed, keeps the new account and removes the old one, and the error is returned all the same. The comment before the
  last recovery says of a failed cleanup that it "must not make the caller believe that the import itself failed";
  here the failed sync does. `MCImport.cfg` includes the fault, and `ResultIsTrue` excepts
  this case alone: the last call of recovery was the one after the commit, and the new account is whole.
* A packet whose message was stored by a process that died before the key
  was durable can be read again: if the user deletes the conversation in between,
  it comes back (`DeletedStaysDeleted` speaks of the others).
* A deletion that failed after the contacts were written leaves, after a restart,
  messages without a contact, which cannot be deleted again (`halved` in `Inbound`).
* A slot has three subkeys: first segment, continuation, acknowledgement. A long packet whose first segment is there
  and whose continuation is not, as when the write of it was superseded, can be read by no poll, so nobody acknowledges it
  and no sender overwrites it: it keeps its slot until it expires (`Orphaned` in `OfflineMailbox`).
* `ensure_loaded` counts the ratchet store as loaded before its first write.

Linked devices:

* A death between the write of the outbox and the queueing of the device-sync events loses the
  announcement until the message changes again (`cuts = 0` in `QuietMeansAgreed`).
* A message written in a group without members is not announced either (`queue_outgoing` queues no event, and
  there is no packet whose delivery would); the proof of `QuietAgrees` cannot do without a recipient.
* A copy of a contact replaces the whole contact, so that an old one takes back, for instance, that it
  was verified; deletions in a direct chat are not announced, so that an old copy of a message brings it back.

Attachments:

* A death between publication and lease leaves a blob that nothing deletes, and so does a deletion
  that failed, since its result is dropped (`leaks` in `NothingIsLeaked`).

Groups:

* A `Departure` carries no revision: one that comes late hides a member who joined again, against
  the comment that departures are kept until the owner's snapshot excludes the member. One that comes before the
  member is known is dropped. The coordinator counts a revision for a departure and sends
  no snapshot of it, so what a departure did to a role or a membership may differ from device to device for good, when it came after
  one snapshot here and before it there, or never came because the leaver did not know the member.
  `QuietMeansAgreed` therefore leaves out the role and the membership of accounts that one of the two counts as departed.
* A device that leaves and joins again by link before its departure went out may stay behind: snapshots that
  came while it had left are consumed and ignored, and an older one that comes after the `Join` admits it again
  (`QuietMeansAgreed` is about accounts of which no device ever left).
* A linked device of the coordinator learns of a change by the copy alone, which `apply_request` queues after all its
  other writes. A death before that leaves it behind until the next change (`cuts = 0` in `QuietMeansAgreed`).
* `preserve_local_queues` takes the incoming copy's `pending_effect` for its own (`groups.rs`, from line 313; it sets one only if
  the copy differs in what is deleted or closed). A second copy in the same pass, or a copy after a death that
  came between the save of a snapshot and its effects, thus removes the mark, and the deleted text stays in the history file of
  a linked device, though no listing shows it. `specs/group-management.md`, line 121, says the effects are recorded so that
  they can be repeated after an interruption (`Alone` in `QuietMeansAgreed`).
* `process_requests` may take back a revision it has saved. When `apply_request` fails with `LimitExceeded` after its
  `save` (a file that grows beyond its byte limit, in `complete_effect` or `transfer_outbound`), the copy of the group made before the
  change is saved over it, with a rejection: the new revision is gone, and so are the packets still owed for it, while
  those that went out stay out. `Worked` has a request applied, or stopped at one of its writes, or rejected before any;
  limits in bytes are left out (section 7).
* A request that the coordinator drops stays pending with the delegate who made it.
* A successor may take over with an older revision than the last snapshot; if his account has two devices,
  both may come to coordinate (`HandedOver` excepts a group once a device of the owner has left).
* A `Join` is swallowed while the owner still lists the member, and the first text of a new member is
  dropped where the snapshot has not arrived.
* A late copy from a linked device makes one leave again a group one joined again.
* A death between the change of a group and the deletion of its history leaves the history of a group one
  left; a death while a group is created leaves one whose invitations are never sent; a death between the
  deletion of a text for everyone and the outbox leaves its ciphertext there, which is not dispatched any more.

## 7. What is not modelled

Cryptography and formats, which are functions of values; the Veilid library, of which
only what the code relies on is stated; loss of power, where writes that
were synced, or renames whose directory was not, are lost (a crash here is the end of the process, and an
error of a directory's sync counts as a rename that happened); storage limits other than the number of entries in the
outbox, and with them the refusals they cause half-way (section 6, `process_requests`); in `Attachments`, a delayed
retry that could not be written to the log; client and hosts.

Hazards that no property covers: the race of a direct call with a deposit (`hedged_delivery.rs`; `Outbox`
gives its worker every outcome, so that what it may do wrong is to answer wrongly); the result of a watch that is
stored under a key which meanwhile holds a newer one (`offline_watch.rs`); the retirement of keys
(`identity.rs`), which depends on the age of packets against that of keys, in real time; the first write of the
ratchet store. The parts planned in section 2, and those no module has, are listed in `PROJECT.json` as
not modelled, each with its reason.
