----------------------------- MODULE Attachments -----------------------------
(***************************************************************************)
(* A file from the device that sends it to the device that shows it:       *)
(* messaging_adapter/uploads.rs, attachments.rs, blob_transport.rs and the *)
(* leases of messaging_adapter.rs.                                         *)
(*                                                                         *)
(* The sender keeps the file in its history while a worker publishes the   *)
(* ciphertext as a blob of the network.  The worker then waits: the        *)
(* command thread commits the message, with a lease for the blob, and      *)
(* answers whether the blob is to be kept.  Meanwhile the upload may be    *)
(* suspended, its message deleted, the vault locked, the process killed.   *)
(* The recipient fetches the blob with a worker of its own, whose result   *)
(* may come after the request was withdrawn.                               *)
(*                                                                         *)
(* Commands of a device exclude each other (COMMAND_LOCK); workers do not. *)
(***************************************************************************)
EXTENDS Naturals, FiniteSets

CONSTANTS
  File,        \* files, numbered in the order of the history
  MaxActive,   \* workers at a time
  MaxPending,  \* uploads not suspended
  MaxFaults    \* bound: failures, suspensions, locks and deaths

ASSUME AttachmentsAssumption ==
  /\ File \subseteq Nat \ {0} /\ IsFiniteSet(File)
  /\ MaxActive \in Nat \ {0} /\ MaxPending \in Nat \ {0} /\ MaxFaults \in Nat

VARIABLES
  note,    \* [File -> what the history of the sender says], durable
  lease,   \* blobs to be deleted once they expire, durable
  up,      \* [Blob -> the upload job and its worker]
  blob,    \* blobs in the network
  expired, \* blobs past their retention
  has,     \* [File -> what the history of the recipient says], durable
  down,    \* the queue of the recipient, its worker, and failures
  asked,   \* files the user of the recipient waits for
  faults, leaks  \* of them, deaths and deletions that failed

sender == <<note, lease, up, blob, expired>>
recipient == <<has, down, asked>>
vars == <<sender, recipient, faults, leaks>>

\* One for each upload: all but the first of a file follow a fault.
Blob == File \X (1 .. MaxFaults + 1)
NoBlob == <<>>
NoFile == 0

FileOf(k) == k[1]

MoreFaults == faults < MaxFaults
Fault(happens) == (happens => MoreFaults) /\ faults' = IF happens THEN faults + 1 ELSE faults

-----------------------------------------------------------------------------
\* The sender, as a record of what its command thread changes.
Sender == [note |-> note, lease |-> lease, up |-> up]

Unused == [stage |-> "none", ok |-> FALSE, listed |-> FALSE,
           cancelled |-> FALSE, answer |-> "none"]

Unwritten == [state |-> "none", blob |-> NoBlob, due |-> FALSE]
Pending   == [state |-> "pending", blob |-> NoBlob, due |-> TRUE]

Live(s) == {k \in Blob : s.up[k].stage \in {"publishing", "told"}}
Listed(s, f) == {k \in Blob : s.up[k].listed /\ FileOf(k) = f}
PendingFiles(s) == {f \in File : s.note[f].state = "pending"}

\* A listed job whose worker has sent its result, whatever the worker did since.
Completed(s) == {k \in Blob : s.up[k].listed /\ s.up[k].stage \in {"told", "over"}}

Committable_Slip(s, k) == k \in Completed(s) /\ s.up[k].ok /\ ~s.up[k].cancelled

\* The checks of commit that depend on the state; a lock empties the list of jobs
\* as it raises the generation, so a job of the list has that of the store.
Committable(s, k) ==
  /\ k \in Completed(s) /\ s.up[k].ok /\ ~s.up[k].cancelled
  /\ s.note[FileOf(k)].state = "pending"

Leased(s, ks) == s.lease \cup ks
Unleased(s, k) == s.lease \ {k}

SentAs(k) == [state |-> "sent", blob |-> k, due |-> FALSE]

\* commit: the lease, then the messages with their ciphertexts (Outbox).
Committed(s, ks) ==
  [f \in File |-> IF \E k \in ks : FileOf(k) = f
                  THEN SentAs(CHOOSE k \in ks : FileOf(k) = f) ELSE s.note[f]]

\* retry: an error that will not pass suspends the upload.
Retried(s, ks, fatal) ==
  [f \in File |-> IF /\ s.note[f].state = "pending"
                     /\ \E k \in ks : FileOf(k) = f /\ ~s.up[k].cancelled
                  THEN [s.note[f] EXCEPT !.due = FALSE,
                                         !.state = IF fatal THEN "paused" ELSE @]
                  ELSE s.note[f]]

Answered_Slip(job, keep) ==
  [job EXCEPT !.answer = IF job.ok THEN "keep" ELSE "drop", !.listed = FALSE]

Answered(job, keep) ==
  [job EXCEPT !.answer = IF keep THEN "keep" ELSE "drop", !.listed = FALSE]

\* The results of a poll: the jobs of the list are of different files, so their
\* order does not matter.  Commits may be refused, for now or for good.
Accepted(s, refused) == {k \in Completed(s) : Committable(s, k) /\ ~refused}

Collected(s, refused, fatal) ==
  LET kept == Accepted(s, refused)
      t    == [s EXCEPT !.note = Committed(s, kept)]
  IN  [note  |-> Retried(t, Completed(s) \ kept, fatal),
       lease |-> Leased(s, kept),
       up    |-> [k \in Blob |-> IF k \in Completed(s) THEN Answered(s.up[k], k \in kept)
                                 ELSE s.up[k]]]

\* An upload whose message is gone, or was sent, is cancelled.
Withdrawn(s) ==
  [s EXCEPT !.up = [k \in Blob |->
     IF @[k].listed /\ s.note[FileOf(k)].state \notin {"pending", "paused"}
     THEN [@[k] EXCEPT !.cancelled = TRUE] ELSE @[k]]]

Permits_Slip(s) == MaxActive

Permits(s) == MaxActive - Cardinality(Live(s))

Fresh(s, f) == {k \in Blob : FileOf(k) = f /\ s.up[k] = Unused}

\* Uploads that wait for a worker.
Due(s) ==
  {f \in File : /\ s.note[f].state = "pending" /\ s.note[f].due
                /\ Listed(s, f) = {} /\ Fresh(s, f) # {}}

\* The first of them, in the order of the history, as long as permits last.
Startable(s) ==
  {fs \in SUBSET Due(s) :
     /\ \A f \in fs, g \in Due(s) : g < f => g \in fs
     /\ fs = Due(s) \/ Cardinality(fs) = Permits(s)
     /\ Cardinality(fs) <= Permits(s)}

Started(s, fs) ==
  [s EXCEPT !.up = [k \in Blob |->
     IF FileOf(k) \in fs /\ k = (CHOOSE i \in Fresh(s, FileOf(k)) : TRUE)
     THEN [Unused EXCEPT !.stage = "publishing", !.listed = TRUE] ELSE @[k]]]

Becomes(s) == note' = s.note /\ lease' = s.lease /\ up' = s.up

Polled(s, refused, fatal) ==
  LET t == Withdrawn(Collected(s, refused, fatal))
  IN  \E fs \in Startable(t) : Becomes(Started(t, fs))

\* The end of every command that changes an upload, and a pass of sync.
ThenPoll(s) ==
  \E refused, fatal \in BOOLEAN :
    /\ (refused \/ fatal) => Completed(s) # {}
    /\ Fault(refused \/ fatal) /\ Polled(s, refused, fatal)
    /\ UNCHANGED <<blob, expired, recipient, leaks>>

Poll == ThenPoll(Sender)

\* send_attachment
SendFile(f) ==
  /\ note[f].state = "none" /\ Cardinality(PendingFiles(Sender)) < MaxPending
  /\ ThenPoll([Sender EXCEPT !.note[f] = Pending])

\* uploads::request: a suspension also tells the worker.
Suspend(f) ==
  /\ note[f].state = "pending" /\ MoreFaults
  /\ LET s == [Sender EXCEPT !.note[f] = [@ EXCEPT !.state = "paused", !.due = TRUE],
                             !.up = [k \in Blob |-> IF k \in Listed(Sender, f)
                                       THEN [@[k] EXCEPT !.cancelled = TRUE] ELSE @[k]]]
     IN  Polled(s, FALSE, FALSE)
  /\ faults' = faults + 1
  /\ UNCHANGED <<blob, expired, recipient, leaks>>

Resume(f) ==
  /\ note[f].state = "paused" /\ Cardinality(PendingFiles(Sender)) < MaxPending
  /\ ThenPoll([Sender EXCEPT !.note[f] = Pending])

\* delete_conversation; its message may already be with the recipient.
DeleteSent(f) ==
  /\ note[f].state \in {"pending", "paused", "sent"}
  /\ note' = [note EXCEPT ![f] = [Unwritten EXCEPT !.state = "gone"]]
  /\ UNCHANGED <<lease, up, blob, expired, recipient, faults, leaks>>

\* The delay of a retry is over.
Tick(f) ==
  /\ note[f].state = "pending" /\ ~note[f].due
  /\ note' = [note EXCEPT ![f].due = TRUE]
  /\ UNCHANGED <<lease, up, blob, expired, recipient, faults, leaks>>

\* uploads::reset, when the vault is locked or another account opened.
Lock ==
  /\ MoreFaults /\ faults' = faults + 1
  /\ up' = [k \in Blob |-> IF up[k].listed
              THEN [up[k] EXCEPT !.cancelled = TRUE, !.listed = FALSE] ELSE up[k]]
  /\ UNCHANGED <<note, lease, blob, expired, recipient, leaks>>

\* The process ends, perhaps between two writes of a commit.
Die ==
  /\ MoreFaults /\ faults' = faults + 1 /\ leaks' = leaks + 1
  /\ \E ks \in {{}} \cup {{k} : k \in Accepted(Sender, FALSE)} :
       /\ lease' = Leased(Sender, ks) /\ note' \in {note, Committed(Sender, ks)}
  /\ up' = [k \in Blob |-> IF k \in Live(Sender)
              THEN [up[k] EXCEPT !.stage = "over", !.listed = FALSE] ELSE up[k]]
  /\ UNCHANGED <<blob, expired, recipient>>

\* A blob is a few records: all are written, or those that were are removed again,
\* unless that fails too (left).
Uploaded(k, ok, left) == IF ok \/ left THEN blob \cup {k} ELSE blob

\* The worker of k has published, or given up.
Publish(k, ok) ==
  /\ up[k].stage = "publishing"
  /\ up' = [up EXCEPT ![k].stage = "told", ![k].ok = ok]
  /\ \E left \in BOOLEAN :
       /\ left => ~ok
       /\ blob' = Uploaded(k, ok, left)
       /\ leaks' = IF left THEN leaks + 1 ELSE leaks
       /\ Fault(left \/ (~ok /\ ~up[k].cancelled))
  /\ UNCHANGED <<note, lease, expired, recipient>>

Answer_Slip(k) == IF up[k].answer = "keep" THEN "keep" ELSE "drop"

Answer_Late(k) == up[k].answer

\* What recv returns: a job that is no longer listed nor answered was dropped.
Answer(k) == IF up[k].answer # "none" THEN up[k].answer
             ELSE IF up[k].listed THEN "none" ELSE "drop"

\* The worker leaves, and removes a blob that nobody wants.
Leave(k) ==
  /\ up[k].stage = "told" /\ Answer(k) # "none"
  /\ up' = [up EXCEPT ![k].stage = "over"]
  /\ \E fails \in BOOLEAN :
       /\ fails => Answer(k) = "drop" /\ up[k].ok
       /\ blob' = IF Answer(k) = "drop" /\ ~fails THEN blob \ {k} ELSE blob
       /\ Fault(fails) /\ leaks' = IF fails THEN leaks + 1 ELSE leaks
  /\ UNCHANGED <<note, lease, expired, recipient>>

Expire(k) ==
  /\ k \in lease \ expired
  /\ expired' = expired \cup {k}
  /\ UNCHANGED <<note, lease, up, blob, recipient, faults, leaks>>

\* cleanup_expired_attachments: the lease stays until the blob is gone.
Cleanup(k) ==
  /\ k \in lease \cap expired
  /\ blob' = blob \ {k} /\ lease' = Unleased(Sender, k)
  /\ UNCHANGED <<note, up, expired, recipient, faults, leaks>>

-----------------------------------------------------------------------------
\* The recipient.  A message of it is the pointer to a blob, until it is fetched.
Idle == [file |-> NoFile, blob |-> NoBlob, stale |-> FALSE, cancelled |-> FALSE, result |-> "none"]

\* Queued files start one at a time; a worker keeps its slot until it is polled.
Begun(h, d) ==
  IF d.job # Idle \/ d.queue = {} THEN d
  ELSE LET f == CHOOSE f \in d.queue : TRUE
       IN  [d EXCEPT !.job = [Idle EXCEPT !.file = f, !.blob = h[f].blob],
                     !.queue = @ \ {f}]

Current(d) == d.queue \cup (IF d.job # Idle /\ ~d.job.stale THEN {d.job.file} ELSE {})

\* The packet of a message of the sender is handled (Inbound).
Deliver(f) ==
  /\ note[f].state = "sent" /\ has[f].state = "none"
  /\ has' = [has EXCEPT ![f] = [state |-> "pointer", blob |-> note[f].blob]]
  /\ UNCHANGED <<sender, down, asked, faults, leaks>>

\* attachments::request: one transfer of a sender at a time, even a cancelled one.
Request(f) ==
  /\ has[f].state = "pointer" /\ Current(down) = {}
  /\ down' = Begun(has, [down EXCEPT !.queue = @ \cup {f}, !.failed = @ \ {f}])
  /\ asked' = asked \cup {f}
  /\ UNCHANGED <<sender, has, faults, leaks>>

Withdraw(f) ==
  /\ f \in asked
  /\ down' = [down EXCEPT !.queue = @ \ {f},
                          !.job = IF @.file = f /\ ~@.stale THEN [@ EXCEPT !.cancelled = TRUE] ELSE @,
                          !.failed = @ \ {f}]
  /\ asked' = asked \ {f}
  /\ UNCHANGED <<sender, has, faults, leaks>>

DeleteReceived(f) ==
  /\ has[f].state \in {"pointer", "ready"}
  /\ has' = [has EXCEPT ![f].state = "gone"]
  /\ asked' = asked \ {f}
  /\ UNCHANGED <<sender, down, faults, leaks>>

\* All records of the blob are there.
Readable(job) == job.blob \in blob

\* The worker, which notices a cancellation only between two parts.
Fetch(ok) ==
  /\ down.job # Idle /\ down.job.result = "none"
  /\ ok => Readable(down.job)
  /\ down' = [down EXCEPT !.job.result = IF ok THEN "fetched" ELSE "failed"]
  /\ Fault(~ok /\ ~down.job.cancelled /\ Readable(down.job))
  /\ UNCHANGED <<sender, has, asked, leaks>>

Wanted_Slip(job) == ~job.stale

\* Whether the result of the worker is still wanted.
Wanted(job) == ~job.stale /\ ~job.cancelled /\ has[job.file].state = "pointer"

\* attachments::poll: a result that is wanted is stored, or the failure noted.
PollDownloads ==
  LET job    == down.job
      done   == job # Idle /\ job.result # "none"
      kept   == done /\ Wanted(job)
      stored == kept /\ job.result = "fetched"
      halted == job # Idle /\ (job.stale \/ has[job.file].state = "gone")
  IN  /\ has' = IF stored THEN [has EXCEPT ![job.file].state = "ready"] ELSE has
      /\ down' = Begun(has', [
           queue  |-> {f \in down.queue : has'[f].state = "pointer"},
           failed |-> IF kept /\ ~stored THEN down.failed \cup {job.file} ELSE down.failed,
           job    |-> IF done THEN Idle
                      ELSE IF halted THEN [job EXCEPT !.cancelled = TRUE] ELSE job])
      /\ asked' = IF kept THEN asked \ {job.file} ELSE asked
      /\ UNCHANGED <<sender, faults, leaks>>

\* attachments::reset: the worker stays in its slot, for a generation that is over.
LockRecipient ==
  /\ MoreFaults /\ faults' = faults + 1
  /\ down' = [queue |-> {}, failed |-> {},
              job |-> IF down.job = Idle THEN Idle
                      ELSE [down.job EXCEPT !.stale = TRUE, !.cancelled = TRUE,
                              !.result = IF @ = "fetched" THEN "failed" ELSE @]]
  /\ asked' = {}
  /\ UNCHANGED <<sender, has, leaks>>

-----------------------------------------------------------------------------
Init ==
  /\ note = [f \in File |-> Unwritten]
  /\ lease = {} /\ up = [k \in Blob |-> Unused] /\ blob = {} /\ expired = {}
  /\ has = [f \in File |-> [state |-> "none", blob |-> NoBlob]]
  /\ down = [queue |-> {}, job |-> Idle, failed |-> {}]
  /\ asked = {} /\ faults = 0 /\ leaks = 0

Work(k) == (\E ok \in BOOLEAN : Publish(k, ok)) \/ Leave(k)

Next ==
  \/ Poll \/ Lock \/ Die
  \/ \E f \in File : SendFile(f) \/ Suspend(f) \/ Resume(f) \/ DeleteSent(f) \/ Tick(f)
  \/ \E k \in Blob : Work(k) \/ Expire(k) \/ Cleanup(k)
  \/ \E f \in File : Deliver(f) \/ Request(f) \/ Withdraw(f) \/ DeleteReceived(f)
  \/ (\E ok \in BOOLEAN : Fetch(ok)) \/ PollDownloads \/ LockRecipient

\* Each device is synchronized every few seconds, and its workers end (the network
\* calls have time limits); a delay passes.
Fairness ==
  /\ WF_vars(Poll) /\ WF_vars(\E k \in Blob : Work(k))
  /\ WF_vars(\E f \in File : Tick(f))
  /\ WF_vars(PollDownloads) /\ WF_vars(\E ok \in BOOLEAN : Fetch(ok))

Spec == Init /\ [][Next]_vars /\ Fairness

-----------------------------------------------------------------------------
Note == [state : {"none", "pending", "paused", "sent", "gone"},
         blob : Blob \cup {NoBlob}, due : BOOLEAN]

Job == [stage : {"none", "publishing", "told", "over"}, ok : BOOLEAN, listed : BOOLEAN,
        cancelled : BOOLEAN, answer : {"none", "keep", "drop"}]

Pointer == [state : {"none", "pointer", "ready", "gone"}, blob : Blob \cup {NoBlob}]

Transfer == [file : File \cup {NoFile}, blob : Blob \cup {NoBlob}, stale : BOOLEAN,
             cancelled : BOOLEAN, result : {"none", "fetched", "failed"}]

\* The variables range over what the code can store; there are never more workers
\* than permits, whatever is locked or suspended, and one job of a file at a time.
TypeOK ==
  /\ note \in [File -> Note] /\ up \in [Blob -> Job]
  /\ lease \cup blob \cup expired \subseteq Blob
  /\ Cardinality(Live(Sender)) <= MaxActive
  /\ \A f \in File : Cardinality(Listed(Sender, f)) <= 1
  /\ has \in [File -> Pointer]
  /\ down \in [queue : SUBSET File, failed : SUBSET File, job : Transfer]
  /\ Cardinality(down.queue) <= 1
  /\ asked \subseteq File /\ faults \in 0 .. MaxFaults /\ leaks \in 0 .. faults

\* "No timeout may delete a file while the command thread still needs it"
\* (uploads.rs:174): what a message points to, at the sender or at the recipient, is
\* in the network until its retention is over.
SentFileExists ==
  \A f \in File :
    /\ note[f].state = "sent" => note[f].blob \in blob \cup expired
    /\ has[f].state = "pointer" => has[f].blob \in blob \cup expired

\* Every blob has a worker that will remove it, or a lease, unless the process died
\* or a deletion failed.
NothingIsLeaked ==
  leaks = 0 => blob \subseteq lease \cup Live(Sender)

\* Only an upload that is pending is ever sent: a late result of an earlier job
\* neither replaces the blob of a message that was sent, nor sends one that was
\* suspended or deleted meanwhile, before or after a lock or a restart.
LateResultsAreHarmless ==
  [][\A f \in File : note'[f].state = "sent" => note[f].state = "pending" \/ note'[f] = note[f]]_vars

\* "Never resurrect a deleted message or commit a previous account's result"
\* (attachments.rs:193): a file is stored only while the user waits for it.
OnlyWhatWasAsked ==
  [][\A f \in File : has[f].state # "ready" /\ has'[f].state = "ready" => f \in asked]_vars

\* An upload ends: sent, suspended or deleted; and so does every download.
EventuallySettled ==
  \A f \in File :
    /\ note[f].state = "pending" ~> note[f].state # "pending"
    /\ f \in asked ~> f \notin asked
==============================================================================
