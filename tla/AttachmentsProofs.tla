-------------------------- MODULE AttachmentsProofs --------------------------
(***************************************************************************)
(* Proofs about Attachments, for any number of files, permits and faults.  *)
(***************************************************************************)
EXTENDS Attachments, FiniteSetTheorems, TLAPS

(***************************************************************************)
(* The inductive invariant.  That of the sender is stated of a record      *)
(* s = [note, lease, up], for a poll takes the sender through several of   *)
(* them in one step; b and x are the blobs in the network, and the expired.*)
(***************************************************************************)
Store == [note : [File -> Note], lease : SUBSET Blob, up : [Blob -> Job]]

\* What is known of a job: who is on the list has not been answered; a file that
\* was published stays until an answer; a blob that is kept has its lease.
JobSound(s, b, x, k) ==
  LET job == s.up[k]
  IN  /\ job.listed => /\ job.stage \in {"publishing", "told"} /\ job.answer = "none"
                       /\ s.note[FileOf(k)].state # "none"
                       /\ s.note[FileOf(k)].state = "paused" => job.cancelled
      /\ job.answer # "none" => ~job.listed /\ job.stage \in {"told", "over"}
      /\ job.stage = "told" /\ job.ok => k \in b \cup x
      /\ job.answer = "keep" /\ k \in b => k \in s.lease

JobsSound(s, b, x) == \A k \in Blob : JobSound(s, b, x, k)

Single(s) == \A j, k \in Blob :
  s.up[j].listed /\ s.up[k].listed /\ FileOf(j) = FileOf(k) => j = k

\* A blob that no worker will remove before its retention is over.
Safe(s, b, x, k) ==
  /\ k \in Blob /\ k \in b \cup x
  /\ ~s.up[k].listed /\ s.up[k].stage \in {"told", "over"}
  /\ s.up[k].stage = "told" => s.up[k].answer = "keep"

NotesSafe(s, b, x) ==
  \A f \in File : s.note[f].state = "sent" => Safe(s, b, x, s.note[f].blob)

Fits(s) == Cardinality(Live(s)) <= MaxActive

Sound(s, b, x) == s \in Store /\ JobsSound(s, b, x) /\ Single(s) /\ NotesSafe(s, b, x) /\ Fits(s)

PointersSafe == \A f \in File :
  has[f].state = "pointer" => Safe(Sender, blob, expired, has[f].blob)

\* A transfer d, of messages h, with the files a that the user waits for: whoever is
\* fetched for, or waits, is asked for; only a worker that was locked away keeps
\* others waiting.
Asked(h, d, a) ==
  LET job == d.job
  IN  /\ job # Idle => job.file \in File /\ h[job.file].state # "none"
      /\ job # Idle /\ ~job.stale /\ ~job.cancelled /\ h[job.file].state = "pointer"
           => job.file \in a
      /\ \A f \in d.queue : h[f].state # "none" /\ (h[f].state = "pointer" => f \in a)
      /\ d.queue # {} => job # Idle /\ job.stale
      /\ \A f, g \in d.queue : f = g

Queues == [queue : SUBSET File, failed : SUBSET File, job : Transfer]

RecipientInv ==
  /\ has \in [File -> Pointer] /\ down \in Queues /\ asked \in SUBSET File
  /\ Asked(has, down, asked)

(***************************************************************************)
(* A poll of the sender: the results are collected, uploads nobody wants   *)
(* are cancelled, others started.                                          *)
(***************************************************************************)
LEMMA BlobFacts == IsFiniteSet(Blob) /\ IsFiniteSet(File) /\ \A k \in Blob : FileOf(k) \in File
<1>1. IsFiniteSet(File) /\ IsFiniteSet(1 .. MaxFaults + 1)
  BY FS_Interval, AttachmentsAssumption
<1>2. IsFiniteSet(Blob)
  BY <1>1, FS_Product DEF Blob
<1>3. \A k \in Blob : FileOf(k) \in File
  BY DEF Blob, FileOf
<1> QED BY <1>1, <1>2, <1>3

LEMMA LiveFinite == ASSUME NEW s PROVE IsFiniteSet(Live(s)) /\ Cardinality(Live(s)) \in Nat
BY BlobFacts, FS_Subset, FS_CardinalityType DEF Live

\* A retry touches a note that is pending, of a job nobody cancelled.
LEMMA RetriedAt ==
  ASSUME NEW r, NEW ks, NEW fatal \in BOOLEAN, NEW f \in File, NEW n, n = r.note[f], n \in Note,
         NEW q, q = Retried(r, ks, fatal)
  PROVE  /\ q[f] \in Note
         /\ \/ /\ q[f].state \in {"pending", "paused"} /\ n.state = "pending"
               /\ \E k \in ks : FileOf(k) = f
            \/ q[f] = n
<1>1. CASE n.state = "pending" /\ \E k \in ks : FileOf(k) = f /\ ~r.up[k].cancelled
  <2>1. q[f] = [n EXCEPT !.due = FALSE, !.state = IF fatal THEN "paused" ELSE n.state]
    BY <1>1 DEF Retried
  <2>2. PICK v : v = IF fatal THEN "paused" ELSE n.state
    OBVIOUS
  <2>3. v \in {"pending", "paused"} /\ q[f] = [n EXCEPT !.due = FALSE, !.state = v]
    BY <1>1, <2>1, <2>2
  <2> QED BY <1>1, <2>3 DEF Note
<1>2. CASE ~(n.state = "pending" /\ \E k \in ks : FileOf(k) = f /\ ~r.up[k].cancelled)
  BY <1>2 DEF Retried
<1> QED BY <1>1, <1>2

\* What the collection does to a job and to the note of a file.
LEMMA CollectedParts ==
  ASSUME NEW s \in Store, NEW refused \in BOOLEAN, NEW fatal \in BOOLEAN,
         NEW t, t = Collected(s, refused, fatal)
  PROVE  /\ t \in Store
         /\ \A k \in Blob : t.up[k] = IF k \in Completed(s)
                                      THEN Answered(s.up[k], k \in Accepted(s, refused))
                                      ELSE s.up[k]
         /\ t.lease = s.lease \cup Accepted(s, refused)
         /\ \A f \in File :
              \/ /\ t.note[f].state = "sent" /\ t.note[f].blob \in Accepted(s, refused)
                 /\ FileOf(t.note[f].blob) = f
              \/ /\ t.note[f].state = "paused" /\ s.note[f].state = "pending"
                 /\ \E k \in Completed(s) : FileOf(k) = f
              \/ t.note[f].state = "pending" /\ s.note[f].state = "pending"
              \/ t.note[f] = s.note[f]
<1> DEFINE kept == Accepted(s, refused)
<1>0. PICK m, r : m = Committed(s, kept) /\ r = [s EXCEPT !.note = m]
  OBVIOUS
<1>1. kept \subseteq Completed(s) /\ Completed(s) \subseteq Blob
  BY DEF Accepted, Completed
<1>2. ASSUME NEW f \in File
      PROVE  /\ m[f] \in Note
             /\ \/ /\ m[f].state = "sent" /\ m[f].blob \in kept /\ FileOf(m[f].blob) = f
                \/ m[f] = s.note[f]
  <2>1. CASE \E k \in kept : FileOf(k) = f
    <3>1. PICK k : k = CHOOSE i \in kept : FileOf(i) = f
      OBVIOUS
    <3>2. k \in kept /\ FileOf(k) = f
      BY <2>1, <3>1
    <3>3. m[f] = SentAs(k)
      BY <1>0, <2>1, <3>1 DEF Committed
    <3> QED BY <1>1, <3>2, <3>3 DEF SentAs, Note
  <2>2. CASE ~\E k \in kept : FileOf(k) = f
    BY <1>0, <2>2 DEF Committed, Store
  <2> QED BY <2>1, <2>2
<1>3. r.note = m /\ r.up = s.up
  BY <1>0 DEF Store
<1>4. t.note = Retried(r, Completed(s) \ kept, fatal)
  BY <1>0 DEF Collected
<1>5. ASSUME NEW f \in File
      PROVE  /\ t.note[f] \in Note
             /\ \/ /\ t.note[f].state \in {"pending", "paused"} /\ m[f].state = "pending"
                   /\ \E k \in Completed(s) : FileOf(k) = f
                \/ t.note[f] = m[f]
  <2>1. m[f] \in Note /\ m[f] = r.note[f]
    BY <1>2, <1>3
  <2>2. PICK ks : ks = Completed(s) \ kept
    OBVIOUS
  <2>3. t.note = Retried(r, ks, fatal)
    BY <1>4, <2>2
  <2> QED BY <2>1, <2>2, <2>3, RetriedAt
<1>6. \A k \in Blob : t.up[k] = IF k \in Completed(s) THEN Answered(s.up[k], k \in kept)
                                ELSE s.up[k]
  BY DEF Collected
<1>7. t.lease = s.lease \cup kept
  BY DEF Collected, Leased
<1>8. t \in Store
  <2>1. ASSUME NEW k \in Blob PROVE t.up[k] \in Job
    <3>1. s.up[k] \in Job
      BY DEF Store
    <3> QED BY <1>6, <3>1 DEF Answered, Job
  <2>2. DOMAIN t.up = Blob /\ t.up = [k \in Blob |-> t.up[k]]
    BY DEF Collected
  <2>3. t.note = [f \in File |-> t.note[f]]
    BY <1>4 DEF Retried
  <2>4. t = [note |-> t.note, lease |-> t.lease, up |-> t.up]
    BY DEF Collected
  <2>5. t.note \in [File -> Note] /\ t.up \in [Blob -> Job] /\ t.lease \in SUBSET Blob
    BY <1>1, <1>5, <1>7, <2>1, <2>2, <2>3 DEF Store
  <2> QED BY <2>4, <2>5 DEF Store
<1>9. ASSUME NEW f \in File
      PROVE  \/ /\ t.note[f].state = "sent" /\ t.note[f].blob \in kept /\ FileOf(t.note[f].blob) = f
             \/ /\ t.note[f].state = "paused" /\ s.note[f].state = "pending"
                /\ \E k \in Completed(s) : FileOf(k) = f
             \/ t.note[f].state = "pending" /\ s.note[f].state = "pending"
             \/ t.note[f] = s.note[f]
  <2> QED BY <1>2, <1>5
<1> QED BY <1>6, <1>7, <1>8, <1>9

LEMMA CollectedSound ==
  ASSUME NEW s, NEW b, NEW x, Sound(s, b, x),
         NEW refused \in BOOLEAN, NEW fatal \in BOOLEAN,
         NEW t, t = Collected(s, refused, fatal)
  PROVE  /\ Sound(t, b, x) /\ Live(t) = Live(s) /\ s.lease \subseteq t.lease
         /\ \A k : Safe(s, b, x, k) => Safe(t, b, x, k)
         /\ \A f \in File : t.note[f].state = "sent" =>
              \/ t.note[f] = s.note[f]
              \/ \E k \in Blob : Committable(s, k) /\ FileOf(k) = f
<1> DEFINE kept == Accepted(s, refused)
<1>1. s \in Store
  BY DEF Sound
<1>2. /\ t \in Store /\ t.lease = s.lease \cup kept
      /\ \A k \in Blob : t.up[k] = IF k \in Completed(s) THEN Answered(s.up[k], k \in kept)
                                   ELSE s.up[k]
      /\ \A f \in File :
           \/ /\ t.note[f].state = "sent" /\ t.note[f].blob \in kept
              /\ FileOf(t.note[f].blob) = f
           \/ /\ t.note[f].state = "paused" /\ s.note[f].state = "pending"
              /\ \E k \in Completed(s) : FileOf(k) = f
           \/ t.note[f].state = "pending" /\ s.note[f].state = "pending"
           \/ t.note[f] = s.note[f]
  BY <1>1, CollectedParts
<1>3. \A k \in kept : Committable(s, k) /\ k \in Completed(s) /\ k \in Blob
  BY DEF Accepted, Completed
<1>4. ASSUME NEW k \in Blob
      PROVE  /\ s.up[k] \in Job
             /\ t.up[k].stage = s.up[k].stage /\ t.up[k].ok = s.up[k].ok
             /\ t.up[k].cancelled = s.up[k].cancelled
             /\ k \in Completed(s) => /\ ~t.up[k].listed
                                      /\ t.up[k].answer = IF k \in kept THEN "keep" ELSE "drop"
             /\ k \notin Completed(s) => t.up[k] = s.up[k]
             /\ k \in Completed(s) => s.up[k].listed /\ s.up[k].stage = "told"
  <2>1. s.up[k] \in Job /\ JobSound(s, b, x, k)
    BY <1>1 DEF Store, Sound, JobsSound
  <2> QED BY <1>2, <2>1 DEF Answered, Job, Completed, JobSound
<1>5. Live(t) = Live(s)
  BY <1>4 DEF Live
<1>6. ASSUME NEW k, Safe(s, b, x, k) PROVE Safe(t, b, x, k)
  <2>1. k \in Blob /\ k \notin Completed(s)
    BY <1>6 DEF Safe, Completed
  <2> QED BY <1>4, <1>6, <2>1 DEF Safe
<1>7. Single(t)
  BY <1>4 DEF Sound, Single
<1>8. ASSUME NEW k \in kept PROVE Safe(t, b, x, k)
  <2>1. JobSound(s, b, x, k) /\ s.up[k].ok /\ k \in Completed(s) /\ k \in Blob
    BY <1>3 DEF Sound, JobsSound, Committable
  <2>2. k \in b \cup x
    BY <1>4, <2>1 DEF JobSound
  <2> QED BY <1>4, <1>8, <2>1, <2>2 DEF Safe
<1>9. NotesSafe(t, b, x)
  <2>1. SUFFICES ASSUME NEW f \in File, t.note[f].state = "sent"
                 PROVE  Safe(t, b, x, t.note[f].blob)
    BY DEF NotesSafe
  <2>2. \/ t.note[f].blob \in kept
        \/ t.note[f] = s.note[f]
    BY <1>2, <2>1
  <2>3. CASE t.note[f] = s.note[f]
    BY <1>6, <2>1, <2>3 DEF Sound, NotesSafe
  <2> QED BY <1>8, <2>2, <2>3
<1>10. JobsSound(t, b, x)
  <2>1. SUFFICES ASSUME NEW k \in Blob PROVE JobSound(t, b, x, k)
    BY DEF JobsSound
  <2>2. JobSound(s, b, x, k)
    BY DEF Sound, JobsSound
  <2>3. CASE k \in Completed(s)
    BY <1>2, <1>4, <2>2, <2>3 DEF JobSound
  <2>4. CASE k \notin Completed(s)
    <3>1. ASSUME s.up[k].listed
          PROVE  t.note[FileOf(k)] = s.note[FileOf(k)] \/ t.note[FileOf(k)].state = "pending"
                 \/ t.note[FileOf(k)].state = "sent"
      <4>1. FileOf(k) \in File
        BY BlobFacts
      <4>2. ~\E j \in Completed(s) : FileOf(j) = FileOf(k)
        BY <2>4, <3>1 DEF Sound, Single, Completed
      <4> QED BY <1>2, <4>1, <4>2
    <3>2. t.up[k] = s.up[k] /\ s.lease \subseteq t.lease
      BY <1>2, <1>4, <2>4
    <3> QED BY <2>2, <3>1, <3>2 DEF JobSound
  <2> QED BY <2>3, <2>4
<1>11. ASSUME NEW f \in File, t.note[f].state = "sent"
       PROVE  \/ t.note[f] = s.note[f]
              \/ \E k \in Blob : Committable(s, k) /\ FileOf(k) = f
  BY <1>2, <1>3, <1>11
<1>12. Fits(t)
  BY <1>5 DEF Sound, Fits
<1>13. Sound(t, b, x)
  BY <1>2, <1>7, <1>9, <1>10, <1>12 DEF Sound
<1> QED BY <1>2, <1>5, <1>6, <1>11, <1>13

LEMMA WithdrawnSound ==
  ASSUME NEW s, NEW b, NEW x, Sound(s, b, x), NEW t, t = Withdrawn(s)
  PROVE  /\ Sound(t, b, x) /\ Live(t) = Live(s) /\ t.lease = s.lease /\ t.note = s.note
         /\ \A k : Safe(s, b, x, k) => Safe(t, b, x, k)
<1>1. s \in Store
  BY DEF Sound
<1> DEFINE gone(k) == s.up[k].listed /\ s.note[FileOf(k)].state \notin {"pending", "paused"}
           u == [k \in Blob |-> IF gone(k) THEN [s.up[k] EXCEPT !.cancelled = TRUE] ELSE s.up[k]]
<1>2. t = [s EXCEPT !.up = u]
  BY DEF Withdrawn
<1>3. \A k \in Blob : s.up[k] \in Job
  BY <1>1 DEF Store
<1>4. \A k \in Blob : u[k] \in Job
  BY <1>3 DEF Job
<1>5. u \in [Blob -> Job]
  BY <1>4
<1>6. \A k \in Blob :
        /\ u[k].stage = s.up[k].stage /\ u[k].ok = s.up[k].ok /\ u[k].listed = s.up[k].listed
        /\ u[k].answer = s.up[k].answer
        /\ s.up[k].cancelled => u[k].cancelled
  BY <1>3 DEF Job
<1> HIDE DEF u
<1>7. t \in Store /\ t.up = u /\ t.note = s.note /\ t.lease = s.lease
  BY <1>1, <1>2, <1>5 DEF Store
<1>8. Live(t) = Live(s)
  BY <1>6, <1>7 DEF Live
<1>9. ASSUME NEW k, Safe(s, b, x, k) PROVE Safe(t, b, x, k)
  BY <1>6, <1>7, <1>9 DEF Safe
<1>10. NotesSafe(t, b, x)
  BY <1>7, <1>9 DEF Sound, NotesSafe
<1>11. Single(t)
  BY <1>6, <1>7 DEF Sound, Single
<1>12. ASSUME NEW k \in Blob PROVE JobSound(t, b, x, k)
  <2>1. JobSound(s, b, x, k)
    BY DEF Sound, JobsSound
  <2> QED BY <1>6, <1>7, <2>1 DEF JobSound
<1> QED BY <1>7, <1>8, <1>9, <1>10, <1>11, <1>12 DEF Sound, JobsSound, Fits

LEMMA StartedSound ==
  ASSUME NEW s, NEW b, NEW x, Sound(s, b, x),
         NEW fs, fs \in Startable(s), NEW t, t = Started(s, fs)
  PROVE  /\ Sound(t, b, x) /\ Live(s) \subseteq Live(t) /\ t.lease = s.lease /\ t.note = s.note
         /\ \A k : Safe(s, b, x, k) => Safe(t, b, x, k)
<1>1. s \in Store
  BY DEF Sound
<1> DEFINE first(f) == CHOOSE i \in Fresh(s, f) : TRUE
           new  == {k \in Blob : FileOf(k) \in fs /\ k = first(FileOf(k))}
           job  == [Unused EXCEPT !.stage = "publishing", !.listed = TRUE]
           u == [k \in Blob |-> IF k \in new THEN job ELSE s.up[k]]
<1>2. t = [s EXCEPT !.up = u]
  BY DEF Started
<1>3. /\ job \in Job /\ job.stage = "publishing" /\ job.listed /\ job.answer = "none"
      /\ ~job.ok
  BY DEF Job, Unused
<1>4. \A k \in Blob : u[k] \in Job
  BY <1>1, <1>3 DEF Store
<1>5. u \in [Blob -> Job]
  BY <1>4
<1>6. fs \subseteq Due(s) /\ Cardinality(fs) <= Permits(s)
  BY DEF Startable
<1>7. ASSUME NEW f \in fs PROVE /\ first(f) \in Blob /\ FileOf(first(f)) = f
                                /\ s.up[first(f)] = Unused
  BY <1>6 DEF Due, Fresh
<1>8. \A k \in new : s.up[k] = Unused /\ FileOf(k) \in fs /\ k = first(FileOf(k))
  BY <1>7
<1>9. \A k \in Blob : u[k] = IF k \in new THEN job ELSE s.up[k]
  OBVIOUS
<1>10. new \subseteq Blob
  OBVIOUS
<1>11. IsFiniteSet(new) /\ Cardinality(new) <= Cardinality(fs)
  <2>1. IsFiniteSet(fs)
    BY <1>6, BlobFacts, FS_Subset DEF Due
  <2>2. PICK h : h = [f \in fs |-> first(f)]
    OBVIOUS
  <2>3. \A f \in fs : h[f] \in new
    BY <1>7, <2>2
  <2>4. \A k \in new : \E f \in fs : h[f] = k
    BY <1>8, <2>2
  <2>5. h \in Surjection(fs, new)
    BY <2>2, <2>3, <2>4 DEF Surjection
  <2> QED BY <2>1, <2>5, FS_Surjection
<1> HIDE DEF u, new, job, first
<1>12. t \in Store /\ t.up = u /\ t.note = s.note /\ t.lease = s.lease
  BY <1>1, <1>2, <1>5 DEF Store
<1>13. Live(t) = Live(s) \cup new
  BY <1>3, <1>8, <1>9, <1>10, <1>12 DEF Live, Unused
<1>14. Fits(t)
  <2>1. /\ IsFiniteSet(Live(s)) /\ Cardinality(Live(s)) \in Nat /\ Cardinality(new) \in Nat
        /\ Cardinality(Live(s) \cap new) \in Nat /\ Cardinality(fs) \in Nat
    BY <1>6, <1>11, LiveFinite, BlobFacts, FS_Subset, FS_Intersection, FS_CardinalityType DEF Due
  <2>2. Cardinality(Live(t)) = Cardinality(Live(s)) + Cardinality(new)
                                 - Cardinality(Live(s) \cap new)
    BY <1>11, <1>13, <2>1, FS_Union
  <2>3. Cardinality(fs) <= MaxActive - Cardinality(Live(s)) /\ MaxActive \in Nat
    BY <1>6, AttachmentsAssumption DEF Permits
  <2> QED BY <1>11, <2>1, <2>2, <2>3 DEF Fits
<1>15. ASSUME NEW k, Safe(s, b, x, k) PROVE Safe(t, b, x, k)
  BY <1>8, <1>9, <1>12, <1>15 DEF Safe, Unused
<1>16. NotesSafe(t, b, x)
  BY <1>12, <1>15 DEF Sound, NotesSafe
<1>17. ASSUME NEW k \in new PROVE FileOf(k) \in File /\ s.note[FileOf(k)].state = "pending"
                                  /\ Listed(s, FileOf(k)) = {}
  BY <1>6, <1>8 DEF Due
<1>18. Single(t)
  <2>1. SUFFICES ASSUME NEW j \in Blob, NEW k \in Blob, u[j].listed, u[k].listed,
                        FileOf(j) = FileOf(k)
                 PROVE  j = k
    BY <1>12 DEF Single
  <2>2. CASE j \in new /\ k \in new
    BY <1>8, <2>1, <2>2
  <2>3. CASE j \in new /\ k \notin new
    BY <1>9, <1>17, <2>1, <2>3 DEF Listed
  <2>4. CASE j \notin new /\ k \in new
    BY <1>9, <1>17, <2>1, <2>4 DEF Listed
  <2>5. CASE j \notin new /\ k \notin new
    BY <1>9, <2>1, <2>5 DEF Sound, Single
  <2> QED BY <2>2, <2>3, <2>4, <2>5
<1>19. ASSUME NEW k \in Blob PROVE JobSound(t, b, x, k)
  <2>1. CASE k \in new
    BY <1>3, <1>9, <1>12, <1>17, <2>1 DEF JobSound
  <2>2. CASE k \notin new
    <3>1. JobSound(s, b, x, k)
      BY DEF Sound, JobsSound
    <3> QED BY <1>9, <1>12, <2>2, <3>1 DEF JobSound
  <2> QED BY <2>1, <2>2
<1> QED BY <1>12, <1>13, <1>14, <1>15, <1>16, <1>18, <1>19 DEF Sound, JobsSound

\* The three together, on any state s that the commands before the poll leave.
LEMMA PollSound ==
  ASSUME NEW s, NEW b, NEW x, Sound(s, b, x),
         NEW refused \in BOOLEAN, NEW fatal \in BOOLEAN, Polled(s, refused, fatal)
  PROVE  /\ Sound(Sender', b, x) /\ Live(s) \subseteq Live(Sender)' /\ s.lease \subseteq lease'
         /\ \A k : Safe(s, b, x, k) => Safe(Sender', b, x, k)
         /\ \A f \in File : note'[f].state = "sent" =>
              \/ note'[f] = s.note[f]
              \/ \E k \in Blob : Committable(s, k) /\ FileOf(k) = f
<1>1. PICK c : c = Collected(s, refused, fatal)
  OBVIOUS
<1>2. PICK w : w = Withdrawn(c)
  OBVIOUS
<1>3. PICK fs \in Startable(w) : Becomes(Started(w, fs))
  BY <1>1, <1>2 DEF Polled
<1>4. PICK t : t = Started(w, fs)
  OBVIOUS
<1>5. /\ Sound(c, b, x) /\ Live(c) = Live(s) /\ s.lease \subseteq c.lease
      /\ \A k : Safe(s, b, x, k) => Safe(c, b, x, k)
      /\ \A f \in File : c.note[f].state = "sent" =>
           \/ c.note[f] = s.note[f]
           \/ \E k \in Blob : Committable(s, k) /\ FileOf(k) = f
  BY <1>1, CollectedSound
<1>6. /\ Sound(w, b, x) /\ Live(w) = Live(c) /\ w.lease = c.lease /\ w.note = c.note
      /\ \A k : Safe(c, b, x, k) => Safe(w, b, x, k)
  BY <1>2, <1>5, WithdrawnSound
<1>7. /\ Sound(t, b, x) /\ Live(w) \subseteq Live(t) /\ t.lease = w.lease /\ t.note = w.note
      /\ \A k : Safe(w, b, x, k) => Safe(t, b, x, k)
  BY <1>3, <1>4, <1>6, StartedSound
<1>8. note' = t.note /\ lease' = t.lease /\ up' = t.up
  BY <1>3, <1>4 DEF Becomes
<1>9. t = [note |-> t.note, lease |-> t.lease, up |-> t.up]
  BY <1>7 DEF Sound, Store
<1>10. Sender' = t
  BY <1>8, <1>9 DEF Sender
<1>11. Live(Sender)' = Live(t)
  BY <1>8 DEF Live, Sender
<1> QED BY <1>5, <1>6, <1>7, <1>8, <1>10, <1>11

(***************************************************************************)
(* The actions of the sender.                                              *)
(***************************************************************************)
SenderInv ==
  /\ blob \cup expired \subseteq Blob /\ faults \in 0 .. MaxFaults /\ leaks \in 0 .. faults
  /\ Sound(Sender, blob, expired) /\ NothingIsLeaked

\* What a step of the sender promises the recipient.
KeepsBlobs ==
  \A k : Safe(Sender, blob, expired, k) => Safe(Sender', blob', expired', k)

LateHarmless == \A f \in File :
  note'[f].state = "sent" => note[f].state = "pending" \/ note'[f] = note[f]

LEMMA SenderFields == Sender.note = note /\ Sender.lease = lease /\ Sender.up = up
BY DEF Sender

LEMMA SenderTypes ==
  ASSUME SenderInv
  PROVE  /\ note \in [File -> Note] /\ lease \in SUBSET Blob /\ up \in [Blob -> Job]
         /\ faults \in Nat /\ leaks \in Nat /\ MaxFaults \in Nat
         /\ \A k \in Blob : JobSound(Sender, blob, expired, k) /\ FileOf(k) \in File
<1>1. Sender \in Store
  BY DEF SenderInv, Sound
<1>2. note \in [File -> Note] /\ lease \in SUBSET Blob /\ up \in [Blob -> Job]
  BY <1>1 DEF Sender, Store
<1> QED BY <1>2, AttachmentsAssumption, BlobFacts DEF SenderInv, Sound, JobsSound

LEMMA Counts ==
  ASSUME faults \in 0 .. MaxFaults, leaks \in 0 .. faults,
         (leaks' = leaks /\ faults' = faults) \/
           (faults < MaxFaults /\ faults' = faults + 1 /\ leaks' \in {leaks, leaks + 1})
  PROVE  faults' \in 0 .. MaxFaults /\ leaks' \in 0 .. faults'
BY AttachmentsAssumption

\* A poll after the command has left the sender in s.
LEMMA ThenPollStep ==
  ASSUME SenderInv, NEW s, Sound(s, blob, expired), s.lease = lease, Live(s) = Live(Sender),
         \A k : Safe(Sender, blob, expired, k) => Safe(s, blob, expired, k),
         \A f \in File : s.note[f].state = "sent" => s.note[f] = note[f],
         \A k \in Blob : Committable(s, k) => note[FileOf(k)].state = "pending",
         NEW refused \in BOOLEAN, NEW fatal \in BOOLEAN, Polled(s, refused, fatal),
         faults' = faults \/ (faults < MaxFaults /\ faults' = faults + 1),
         UNCHANGED <<blob, expired, leaks>>
  PROVE  SenderInv' /\ KeepsBlobs /\ LateHarmless
<1>1. /\ Sound(Sender', blob, expired) /\ Live(s) \subseteq Live(Sender)' /\ s.lease \subseteq lease'
      /\ \A k : Safe(s, blob, expired, k) => Safe(Sender', blob, expired, k)
      /\ \A f \in File : note'[f].state = "sent" =>
           \/ note'[f] = s.note[f]
           \/ \E k \in Blob : Committable(s, k) /\ FileOf(k) = f
  BY PollSound
<1>2. Sound(Sender, blob, expired)'
  BY <1>1
<1>3. NothingIsLeaked'
  BY <1>1 DEF SenderInv, NothingIsLeaked
<1>4. /\ (blob \cup expired \subseteq Blob)' /\ faults' \in 0 .. MaxFaults
      /\ leaks' \in 0 .. faults'
  BY SenderTypes DEF SenderInv
<1>5. KeepsBlobs
  BY <1>1 DEF KeepsBlobs
<1>6. LateHarmless
  BY <1>1 DEF LateHarmless
<1> QED BY <1>2, <1>3, <1>4, <1>5, <1>6 DEF SenderInv

LEMMA PollStep == ASSUME SenderInv, Poll PROVE SenderInv' /\ KeepsBlobs /\ LateHarmless
<1>1. PICK refused \in BOOLEAN, fatal \in BOOLEAN :
        /\ Fault(refused \/ fatal) /\ Polled(Sender, refused, fatal)
        /\ UNCHANGED <<blob, expired, leaks>>
  BY DEF Poll, ThenPoll
<1>2. faults' = faults \/ (faults < MaxFaults /\ faults' = faults + 1)
  BY <1>1 DEF Fault, MoreFaults
<1>3. \A k \in Blob : Committable(Sender, k) => note[FileOf(k)].state = "pending"
  BY SenderFields DEF Committable
<1>4. PICK s : s = Sender
  OBVIOUS
<1>5. /\ Sound(s, blob, expired) /\ s.lease = lease /\ Live(s) = Live(Sender)
      /\ \A k : Safe(Sender, blob, expired, k) => Safe(s, blob, expired, k)
      /\ \A f \in File : s.note[f].state = "sent" => s.note[f] = note[f]
  BY <1>4, SenderFields DEF SenderInv
<1> QED BY <1>1, <1>2, <1>3, <1>4, <1>5, ThenPollStep

\* A file is to be uploaded, for the first time or again; no job of it can be sent.
LEMMA PendingSound ==
  ASSUME SenderInv, NEW f \in File, note[f].state \in {"none", "paused"},
         NEW s, s = [Sender EXCEPT !.note[f] = Pending]
  PROVE  /\ Sound(s, blob, expired) /\ s.lease = lease /\ Live(s) = Live(Sender)
         /\ \A k : Safe(Sender, blob, expired, k) => Safe(s, blob, expired, k)
         /\ \A g \in File : s.note[g].state = "sent" => s.note[g] = note[g]
         /\ \A k \in Blob : Committable(s, k) => note[FileOf(k)].state = "pending"
<1>1. PICK n : n = [note EXCEPT ![f] = Pending]
  OBVIOUS
<1>2. Pending \in Note /\ Pending.state = "pending"
  BY DEF Pending, Note
<1>3. n \in [File -> Note] /\ \A g \in File : n[g] = IF g = f THEN Pending ELSE note[g]
  BY <1>1, <1>2, SenderTypes
<1>4. s = [note |-> n, lease |-> lease, up |-> up]
  BY <1>1 DEF Sender
<1>5. s \in Store /\ s.note = n /\ s.up = up /\ s.lease = lease
  <2>1. n \in [File -> Note] /\ lease \in SUBSET Blob /\ up \in [Blob -> Job]
    BY <1>3, SenderTypes
  <2>2. [note |-> n, lease |-> lease, up |-> up] \in Store
    BY <2>1 DEF Store
  <2>3. s.note = n /\ s.up = up /\ s.lease = lease
    BY <1>4
  <2> QED BY <1>4, <2>2, <2>3
<1>6. Live(s) = Live(Sender)
  BY <1>5, SenderFields DEF Live
<1>7. \A k : Safe(Sender, blob, expired, k) => Safe(s, blob, expired, k)
  BY <1>5, SenderFields DEF Safe
<1>8. \A g \in File : s.note[g].state = "sent" => s.note[g] = note[g]
  BY <1>2, <1>3, <1>5
<1>9. NotesSafe(s, blob, expired)
  BY <1>7, <1>8, SenderFields DEF SenderInv, Sound, NotesSafe
<1>10. Single(s) /\ Fits(s)
  BY <1>5, <1>6, SenderFields DEF SenderInv, Sound, Single, Fits
<1>11. ASSUME NEW k \in Blob PROVE JobSound(s, blob, expired, k)
  BY <1>2, <1>3, <1>5, SenderFields, SenderTypes DEF JobSound
<1>12. ASSUME NEW k \in Blob, Committable(s, k) PROVE note[FileOf(k)].state = "pending"
  BY <1>3, <1>5, <1>12, SenderFields, SenderTypes DEF Committable, Completed, JobSound
<1> QED BY <1>5, <1>6, <1>7, <1>8, <1>9, <1>10, <1>11, <1>12 DEF Sound, JobsSound

LEMMA UploadStep ==
  ASSUME SenderInv, NEW f \in File, SendFile(f) \/ Resume(f)
  PROVE  SenderInv' /\ KeepsBlobs /\ LateHarmless
<1>1. PICK s : s = [Sender EXCEPT !.note[f] = Pending]
  OBVIOUS
<1>2. note[f].state \in {"none", "paused"} /\ ThenPoll(s)
  BY <1>1 DEF SendFile, Resume
<1>3. PICK refused \in BOOLEAN, fatal \in BOOLEAN :
        /\ Fault(refused \/ fatal) /\ Polled(s, refused, fatal)
        /\ UNCHANGED <<blob, expired, leaks>>
  BY <1>2 DEF ThenPoll
<1>4. faults' = faults \/ (faults < MaxFaults /\ faults' = faults + 1)
  BY <1>3 DEF Fault, MoreFaults
<1>5. /\ Sound(s, blob, expired) /\ s.lease = lease /\ Live(s) = Live(Sender)
      /\ \A k : Safe(Sender, blob, expired, k) => Safe(s, blob, expired, k)
      /\ \A g \in File : s.note[g].state = "sent" => s.note[g] = note[g]
      /\ \A k \in Blob : Committable(s, k) => note[FileOf(k)].state = "pending"
  BY <1>1, <1>2, PendingSound
<1> QED BY <1>3, <1>4, <1>5, ThenPollStep

LEMMA SuspendStep ==
  ASSUME SenderInv, NEW f \in File, Suspend(f)
  PROVE  SenderInv' /\ KeepsBlobs /\ LateHarmless
<1> DEFINE m == [note[f] EXCEPT !.state = "paused", !.due = TRUE]
           told(k) == IF k \in Listed(Sender, f) THEN [up[k] EXCEPT !.cancelled = TRUE] ELSE up[k]
<1>1. PICK s : s = [Sender EXCEPT !.note[f] = m, !.up = [k \in Blob |->
                      IF k \in Listed(Sender, f) THEN [@[k] EXCEPT !.cancelled = TRUE] ELSE @[k]]]
  OBVIOUS
<1>2. /\ note[f].state = "pending" /\ faults < MaxFaults /\ faults' = faults + 1
      /\ Polled(s, FALSE, FALSE) /\ UNCHANGED <<blob, expired, leaks>>
  BY <1>1, SenderFields DEF Suspend, MoreFaults, Sender
<1>3. PICK n : n = [note EXCEPT ![f] = m]
  OBVIOUS
<1>4. PICK u : u = [k \in Blob |-> told(k)]
  OBVIOUS
<1>5. m \in Note /\ m.state = "paused"
  BY SenderTypes DEF Note
<1>6. n \in [File -> Note] /\ \A g \in File : n[g] = IF g = f THEN m ELSE note[g]
  BY <1>3, <1>5, SenderTypes
<1>7. ASSUME NEW k \in Blob
      PROVE  /\ u[k] \in Job /\ u[k].stage = up[k].stage /\ u[k].ok = up[k].ok
             /\ u[k].listed = up[k].listed /\ u[k].answer = up[k].answer
             /\ k \in Listed(Sender, f) => u[k].cancelled
             /\ k \notin Listed(Sender, f) => u[k] = up[k]
  <2>1. up[k] \in Job
    BY SenderTypes
  <2> QED BY <1>4, <2>1 DEF Job
<1>8. u \in [Blob -> Job]
  BY <1>4, <1>7
<1>9. s = [note |-> n, lease |-> lease, up |-> u]
  BY <1>1, <1>3, <1>4 DEF Sender
<1> HIDE DEF m, told
<1>10. s \in Store /\ s.note = n /\ s.up = u /\ s.lease = lease
  <2>1. lease \in SUBSET Blob
    BY SenderTypes
  <2>2. [note |-> n, lease |-> lease, up |-> u] \in Store
    BY <1>6, <1>8, <2>1 DEF Store
  <2>3. s.note = n /\ s.up = u /\ s.lease = lease
    BY <1>9
  <2> QED BY <1>9, <2>2, <2>3
<1>11. Live(s) = Live(Sender)
  BY <1>7, <1>10, SenderFields DEF Live
<1>12. \A k : Safe(Sender, blob, expired, k) => Safe(s, blob, expired, k)
  BY <1>7, <1>10, SenderFields DEF Safe
<1>13. \A g \in File : s.note[g].state = "sent" => s.note[g] = note[g]
  BY <1>5, <1>6, <1>10
<1>14. NotesSafe(s, blob, expired)
  BY <1>12, <1>13, SenderFields DEF SenderInv, Sound, NotesSafe
<1>15. Single(s) /\ Fits(s)
  BY <1>7, <1>10, <1>11, SenderFields DEF SenderInv, Sound, Single, Fits
<1>16. ASSUME NEW k \in Blob PROVE JobSound(s, blob, expired, k)
  <2>1. JobSound(Sender, blob, expired, k) /\ FileOf(k) \in File
    BY SenderTypes
  <2>2. FileOf(k) = f /\ up[k].listed => k \in Listed(Sender, f)
    BY SenderFields DEF Listed
  <2> QED BY <1>5, <1>6, <1>7, <1>10, <2>1, <2>2, SenderFields DEF JobSound
<1>17. ASSUME NEW k \in Blob, Committable(s, k) PROVE note[FileOf(k)].state = "pending"
  BY <1>5, <1>6, <1>10, <1>17, SenderTypes DEF Committable
<1>18. Sound(s, blob, expired)
  BY <1>10, <1>14, <1>15, <1>16 DEF Sound, JobsSound
<1> QED BY <1>2, <1>10, <1>11, <1>12, <1>13, <1>17, <1>18, ThenPollStep

\* A step that changes neither list nor stages, and no note into one that was sent.
LEMMA NoteStep ==
  ASSUME SenderInv, NEW f \in File, DeleteSent(f) \/ Tick(f)
  PROVE  SenderInv' /\ KeepsBlobs /\ LateHarmless
<1>1. PICK m : note' = [note EXCEPT ![f] = m] /\ m \in Note /\ m.state \in {"gone", "pending"}
               /\ (m.state = "pending" => note[f].state = "pending") /\ note[f].state # "none"
  <2>1. CASE DeleteSent(f)
    <3>1. [Unwritten EXCEPT !.state = "gone"] \in Note
      BY DEF Unwritten, Note
    <3> QED BY <2>1, <3>1 DEF DeleteSent, Unwritten
  <2>2. CASE Tick(f)
    <3>1. note[f] \in Note
      BY SenderTypes
    <3>2. note' = [note EXCEPT ![f] = [note[f] EXCEPT !.due = TRUE]]
      BY <2>2 DEF Tick
    <3>3. [note[f] EXCEPT !.due = TRUE] \in Note /\ [note[f] EXCEPT !.due = TRUE].state = "pending"
      BY <2>2, <3>1 DEF Note, Tick
    <3> QED BY <2>2, <3>2, <3>3 DEF Tick
  <2> QED BY <2>1, <2>2
<1>2. UNCHANGED <<lease, up, blob, expired, faults, leaks>>
  BY DEF DeleteSent, Tick
<1>3. note' \in [File -> Note] /\ \A g \in File : note'[g] = IF g = f THEN m ELSE note[g]
  BY <1>1, SenderTypes
<1>4. Sender' = [note |-> note', lease |-> lease, up |-> up]
  BY <1>2 DEF Sender
<1>5. Sender'.note = note' /\ Sender'.lease = lease /\ Sender'.up = up
  BY <1>4
<1>6. Sender' \in Store
  <2>1. lease \in SUBSET Blob /\ up \in [Blob -> Job]
    BY SenderTypes
  <2> QED BY <1>3, <1>4, <2>1 DEF Store
<1>7. Live(Sender') = Live(Sender)
  BY <1>5, SenderFields DEF Live
<1>8. \A k : Safe(Sender, blob, expired, k) => Safe(Sender', blob, expired, k)
  BY <1>5, SenderFields DEF Safe
<1>9. NotesSafe(Sender', blob, expired)
  BY <1>1, <1>3, <1>5, <1>8, SenderFields DEF SenderInv, Sound, NotesSafe
<1>10. Single(Sender') /\ Fits(Sender')
  BY <1>5, <1>7, SenderFields DEF SenderInv, Sound, Single, Fits
<1>11. ASSUME NEW k \in Blob PROVE JobSound(Sender', blob, expired, k)
  <2>1. JobSound(Sender, blob, expired, k) /\ FileOf(k) \in File
    BY SenderTypes
  <2> QED BY <1>1, <1>3, <1>5, <2>1, SenderFields DEF JobSound
<1>12. Sound(Sender', blob, expired)
  BY <1>6, <1>9, <1>10, <1>11 DEF Sound, JobsSound
<1>13. NothingIsLeaked'
  BY <1>2, <1>7 DEF SenderInv, NothingIsLeaked
<1>14. LateHarmless
  BY <1>1, <1>3 DEF LateHarmless
<1>15. KeepsBlobs
  BY <1>2, <1>8 DEF KeepsBlobs
<1>16. Sound(Sender, blob, expired)'
  BY <1>2, <1>12
<1> QED BY <1>2, <1>13, <1>14, <1>15, <1>16 DEF SenderInv

LEMMA LockStep == ASSUME SenderInv, Lock PROVE SenderInv' /\ KeepsBlobs /\ LateHarmless
<1>1. UNCHANGED <<note, lease, blob, expired, leaks>>
  BY DEF Lock
<1>2. ASSUME NEW k \in Blob
      PROVE  /\ up'[k] \in Job /\ up'[k].stage = up[k].stage /\ up'[k].ok = up[k].ok
             /\ ~up'[k].listed /\ up'[k].answer = up[k].answer
  <2>1. up[k] \in Job
    BY SenderTypes
  <2>2. up'[k] = IF up[k].listed THEN [up[k] EXCEPT !.cancelled = TRUE, !.listed = FALSE] ELSE up[k]
    BY DEF Lock
  <2> QED BY <2>1, <2>2 DEF Job
<1>3. up' \in [Blob -> Job]
  <2>1. up' = [k \in Blob |-> up'[k]]
    BY DEF Lock
  <2> QED BY <1>2, <2>1
<1>4. Sender' = [note |-> note, lease |-> lease, up |-> up']
  BY <1>1 DEF Sender
<1>5. Sender'.note = note /\ Sender'.lease = lease /\ Sender'.up = up'
  BY <1>4
<1>6. Sender' \in Store
  <2>1. lease \in SUBSET Blob /\ note \in [File -> Note]
    BY SenderTypes
  <2> QED BY <1>3, <1>4, <2>1 DEF Store
<1>7. Live(Sender') = Live(Sender)
  BY <1>2, <1>5, SenderFields DEF Live
<1>8. \A k : Safe(Sender, blob, expired, k) => Safe(Sender', blob, expired, k)
  BY <1>2, <1>5, SenderFields DEF Safe
<1>9. NotesSafe(Sender', blob, expired)
  BY <1>5, <1>8, SenderFields DEF SenderInv, Sound, NotesSafe
<1>10. Single(Sender') /\ Fits(Sender')
  BY <1>2, <1>5, <1>7, SenderFields DEF SenderInv, Sound, Single, Fits
<1>11. ASSUME NEW k \in Blob PROVE JobSound(Sender', blob, expired, k)
  BY <1>2, <1>5, SenderTypes, SenderFields DEF JobSound
<1>12. Sound(Sender, blob, expired)'
  BY <1>1, <1>6, <1>9, <1>10, <1>11 DEF Sound, JobsSound
<1>13. NothingIsLeaked'
  BY <1>1, <1>7 DEF SenderInv, NothingIsLeaked
<1>14. LateHarmless /\ KeepsBlobs
  BY <1>1, <1>8 DEF LateHarmless, KeepsBlobs
<1>15. /\ (blob \cup expired \subseteq Blob)' /\ faults' \in 0 .. MaxFaults
       /\ leaks' \in 0 .. faults'
  <2>1. faults < MaxFaults /\ faults' = faults + 1
    BY DEF Lock, MoreFaults
  <2> QED BY <1>1, <2>1, Counts DEF SenderInv
<1> QED BY <1>12, <1>13, <1>14, <1>15 DEF SenderInv

LEMMA DieStep == ASSUME SenderInv, Die PROVE SenderInv' /\ KeepsBlobs /\ LateHarmless
<1>1. PICK ks \in {{}} \cup {{k} : k \in Accepted(Sender, FALSE)} :
        lease' = Leased(Sender, ks) /\ note' \in {note, Committed(Sender, ks)}
  BY DEF Die
<1>2. faults < MaxFaults /\ faults' = faults + 1 /\ leaks' = leaks + 1
      /\ UNCHANGED <<blob, expired>>
  BY DEF Die, MoreFaults
<1>3. \A k \in ks : k \in Blob /\ Committable(Sender, k)
  BY <1>1 DEF Accepted, Completed
<1>4. ASSUME NEW k \in Blob
      PROVE  /\ up'[k] \in Job /\ up'[k].ok = up[k].ok /\ up'[k].answer = up[k].answer
             /\ ~up'[k].listed /\ up'[k].stage \in {up[k].stage, "over"}
             /\ up'[k].stage \notin {"publishing", "told"}
             /\ up[k].stage \in {"told", "over"} => up'[k].stage = "over"
  <2>1. up[k] \in Job /\ JobSound(Sender, blob, expired, k)
    BY SenderTypes
  <2>2. up'[k] = IF k \in Live(Sender) THEN [up[k] EXCEPT !.stage = "over", !.listed = FALSE]
                 ELSE up[k]
    BY DEF Die
  <2>3. k \in Live(Sender) <=> up[k].stage \in {"publishing", "told"}
    BY SenderFields DEF Live
  <2>4. up[k].listed => k \in Live(Sender)
    BY <2>1, <2>3, SenderFields DEF JobSound
  <2> QED BY <2>1, <2>2, <2>3, <2>4 DEF Job
<1>5. up' \in [Blob -> Job]
  <2>1. up' = [k \in Blob |-> up'[k]]
    BY DEF Die
  <2> QED BY <1>4, <2>1
<1>6. ASSUME NEW f \in File
      PROVE  /\ note'[f] \in Note
             /\ \/ note'[f] = note[f]
                \/ /\ note'[f].state = "sent" /\ note'[f].blob \in ks
                   /\ note[f].state = "pending"
  <2>1. CASE note' = note \/ ~\E k \in ks : FileOf(k) = f
    BY <1>1, <2>1, SenderTypes, SenderFields DEF Committed
  <2>2. CASE note' = Committed(Sender, ks) /\ \E k \in ks : FileOf(k) = f
    <3>1. PICK k : k = CHOOSE i \in ks : FileOf(i) = f
      OBVIOUS
    <3>2. k \in ks /\ FileOf(k) = f /\ note'[f] = SentAs(k)
      BY <2>2, <3>1 DEF Committed
    <3> QED BY <1>3, <3>2, SenderFields DEF SentAs, Note, Committable
  <2> QED BY <1>1, <2>1, <2>2
<1>7. note' \in [File -> Note]
  <2>1. note' = [f \in File |-> note'[f]]
    BY <1>1, SenderTypes DEF Committed
  <2> QED BY <1>6, <2>1
<1>8. lease' = lease \cup ks
  BY <1>1, SenderFields DEF Leased
<1>9. Sender' = [note |-> note', lease |-> lease', up |-> up']
  BY DEF Sender
<1>10. Sender'.note = note' /\ Sender'.lease = lease' /\ Sender'.up = up'
  BY <1>9
<1>11. Sender' \in Store
  <2>1. lease' \in SUBSET Blob
    BY <1>3, <1>8, SenderTypes
  <2> QED BY <1>5, <1>7, <1>9, <2>1 DEF Store
<1>12. ASSUME NEW k, Safe(Sender, blob, expired, k) PROVE Safe(Sender', blob, expired, k)
  BY <1>4, <1>10, <1>12, SenderFields DEF Safe
<1>13. ASSUME NEW k \in ks PROVE Safe(Sender', blob, expired, k)
  <2>1. JobSound(Sender, blob, expired, k) /\ up[k].listed /\ up[k].ok /\ k \in Blob
    BY <1>3, SenderTypes, SenderFields DEF Committable, Completed
  <2>2. up[k].stage = "told"
    BY <1>3, <1>13, <2>1, SenderFields DEF JobSound, Committable, Completed
  <2>3. k \in blob \cup expired
    BY <2>1, <2>2, SenderFields DEF JobSound
  <2> QED BY <1>4, <1>10, <2>1, <2>2, <2>3 DEF Safe
<1>14. NotesSafe(Sender', blob, expired)
  BY <1>6, <1>10, <1>12, <1>13, SenderFields DEF SenderInv, Sound, NotesSafe
<1>15. Single(Sender')
  BY <1>4, <1>10 DEF Single
<1>16. Fits(Sender')
  <2>1. Live(Sender') = {}
    BY <1>4, <1>10 DEF Live
  <2> QED BY <2>1, FS_EmptySet, AttachmentsAssumption DEF Fits
<1>17. ASSUME NEW k \in Blob PROVE JobSound(Sender', blob, expired, k)
  BY <1>4, <1>8, <1>10, SenderTypes, SenderFields DEF JobSound
<1>18. Sound(Sender, blob, expired)'
  BY <1>2, <1>11, <1>14, <1>15, <1>16, <1>17 DEF Sound, JobsSound
<1>19. /\ (blob \cup expired \subseteq Blob)' /\ faults' \in 0 .. MaxFaults
       /\ leaks' \in 0 .. faults'
  BY <1>2, Counts DEF SenderInv
<1>20. NothingIsLeaked'
  <2>1. leaks' # 0
    BY <1>2, SenderTypes
  <2> QED BY <2>1 DEF NothingIsLeaked
<1>21. LateHarmless /\ KeepsBlobs
  BY <1>2, <1>6, <1>12 DEF LateHarmless, KeepsBlobs
<1> QED BY <1>18, <1>19, <1>20, <1>21 DEF SenderInv

\* A worker: its job, and the blob.
LEMMA WorkStep ==
  ASSUME SenderInv, NEW j \in Blob, NEW job \in Job, up' = [up EXCEPT ![j] = job],
         UNCHANGED <<note, lease, expired>>, blob' \subseteq blob \cup {j}, blob \ {j} \subseteq blob',
         job.listed = up[j].listed, job.cancelled = up[j].cancelled, job.answer = up[j].answer,
         up[j].stage \in {"publishing", "told"}, job.stage \in {"told", "over"},
         job.stage = "over" => ~job.listed,
         job.stage = "told" => up[j].stage = "publishing" /\ (job.ok => j \in blob'),
         Safe(Sender, blob, expired, j) => j \in blob' \cup expired,
         job.answer = "keep" => (j \in blob' => j \in blob),
         leaks' = 0 => leaks = 0 /\ (job.stage = "over" => j \notin blob' \/ job.answer = "keep"),
         faults' \in 0 .. MaxFaults, leaks' \in 0 .. faults'
  PROVE  SenderInv' /\ KeepsBlobs /\ LateHarmless
<1>1. up' \in [Blob -> Job] /\ \A k \in Blob : up'[k] = IF k = j THEN job ELSE up[k]
  BY SenderTypes
<1>2. Sender' = [note |-> note, lease |-> lease, up |-> up']
  BY DEF Sender
<1>3. Sender'.note = note /\ Sender'.lease = lease /\ Sender'.up = up'
  BY <1>2
<1>4. Sender' \in Store
  <2>1. lease \in SUBSET Blob /\ note \in [File -> Note]
    BY SenderTypes
  <2> QED BY <1>1, <1>2, <2>1 DEF Store
<1>5. Live(Sender') \subseteq Live(Sender) /\ Live(Sender) \subseteq Live(Sender') \cup {j}
      /\ (job.stage = "told" => j \in Live(Sender'))
  BY <1>1, <1>3, SenderFields DEF Live
<1>6. Fits(Sender')
  <2>1. /\ Cardinality(Live(Sender')) <= Cardinality(Live(Sender))
        /\ Cardinality(Live(Sender')) \in Nat /\ Cardinality(Live(Sender)) \in Nat
    BY <1>5, LiveFinite, FS_Subset
  <2>2. Cardinality(Live(Sender)) <= MaxActive
    BY DEF SenderInv, Sound, Fits
  <2> QED BY <2>1, <2>2, AttachmentsAssumption DEF Fits
<1>7. ASSUME NEW k, Safe(Sender, blob, expired, k) PROVE Safe(Sender', blob', expired, k)
  <2>1. CASE k = j
    <3>1. up[j].stage = "told" /\ ~up[j].listed
      BY <1>7, <2>1, SenderFields DEF Safe
    <3> QED BY <1>1, <1>3, <1>7, <2>1, <3>1, SenderFields DEF Safe
  <2>2. CASE k # j
    BY <1>1, <1>3, <1>7, <2>2, SenderFields DEF Safe
  <2> QED BY <2>1, <2>2
<1>8. NotesSafe(Sender', blob', expired)
  BY <1>3, <1>7, SenderFields DEF SenderInv, Sound, NotesSafe
<1>9. Single(Sender')
  BY <1>1, <1>3, SenderFields DEF SenderInv, Sound, Single
<1>10. ASSUME NEW k \in Blob PROVE JobSound(Sender', blob', expired, k)
  <2>1. JobSound(Sender, blob, expired, k) /\ JobSound(Sender, blob, expired, j)
    BY SenderTypes
  <2>2. CASE k = j
    BY <1>1, <1>3, <2>1, <2>2, SenderFields DEF JobSound
  <2>3. CASE k # j
    BY <1>1, <1>3, <2>1, <2>3, SenderFields DEF JobSound
  <2> QED BY <2>2, <2>3
<1>11. Sound(Sender, blob, expired)'
  BY <1>4, <1>6, <1>8, <1>9, <1>10 DEF Sound, JobsSound
<1>12. NothingIsLeaked'
  <2>1. SUFFICES ASSUME leaks' = 0, NEW k \in blob' PROVE k \in lease \cup Live(Sender')
    BY DEF NothingIsLeaked
  <2>2. blob \subseteq lease \cup Live(Sender)
    BY <2>1 DEF SenderInv, NothingIsLeaked
  <2>3. CASE k # j
    BY <1>5, <2>2, <2>3
  <2>4. CASE k = j /\ job.stage = "told"
    BY <1>5, <2>4
  <2>5. CASE k = j /\ job.stage = "over"
    <3>1. JobSound(Sender, blob, expired, j) /\ up[j].answer = "keep" /\ j \in blob
      BY <2>1, <2>5, SenderTypes
    <3> QED BY <2>5, <3>1, SenderFields DEF JobSound
  <2> QED BY <2>3, <2>4, <2>5
<1>13. blob' \cup expired' \subseteq Blob
  BY DEF SenderInv
<1>14. LateHarmless /\ KeepsBlobs
  BY <1>7 DEF LateHarmless, KeepsBlobs
<1> QED BY <1>11, <1>12, <1>13, <1>14 DEF SenderInv

LEMMA PublishStep ==
  ASSUME SenderInv, NEW j \in Blob, NEW ok \in BOOLEAN, Publish(j, ok)
  PROVE  SenderInv' /\ KeepsBlobs /\ LateHarmless
<1>1. PICK left \in BOOLEAN :
        /\ left => ~ok
        /\ blob' = Uploaded(j, ok, left) /\ leaks' = IF left THEN leaks + 1 ELSE leaks
        /\ Fault(left \/ (~ok /\ ~up[j].cancelled))
  BY DEF Publish
<1>2. PICK job : job = [up[j] EXCEPT !.stage = "told", !.ok = ok]
  OBVIOUS
<1>3. up[j] \in Job /\ up[j].stage = "publishing"
  BY SenderTypes DEF Publish
<1>4. /\ job \in Job /\ job.stage = "told" /\ job.ok = ok /\ job.listed = up[j].listed
      /\ job.cancelled = up[j].cancelled /\ job.answer = up[j].answer
  BY <1>2, <1>3 DEF Job
<1>5. up' = [up EXCEPT ![j] = job] /\ UNCHANGED <<note, lease, expired>>
  BY <1>2, SenderTypes DEF Publish
<1>6. blob' \subseteq blob \cup {j} /\ blob \subseteq blob' /\ (ok => j \in blob')
  BY <1>1 DEF Uploaded
<1>7. job.answer # "keep" /\ ~Safe(Sender, blob, expired, j)
  BY <1>3, <1>4, SenderTypes, SenderFields DEF JobSound, Safe
<1>8. \/ leaks' = leaks /\ faults' = faults
      \/ faults < MaxFaults /\ faults' = faults + 1 /\ leaks' \in {leaks, leaks + 1}
  BY <1>1 DEF Fault, MoreFaults
<1>9. faults' \in 0 .. MaxFaults /\ leaks' \in 0 .. faults' /\ (leaks' = 0 => leaks = 0)
  BY <1>8, Counts, SenderTypes DEF SenderInv
<1>10. "told" # "over"
  OBVIOUS
<1> QED BY <1>3, <1>4, <1>5, <1>6, <1>7, <1>9, <1>10, WorkStep

LEMMA LeaveStep ==
  ASSUME SenderInv, NEW j \in Blob, Leave(j)
  PROVE  SenderInv' /\ KeepsBlobs /\ LateHarmless
<1>1. PICK fails \in BOOLEAN :
        /\ blob' = IF Answer(j) = "drop" /\ ~fails THEN blob \ {j} ELSE blob
        /\ Fault(fails) /\ leaks' = IF fails THEN leaks + 1 ELSE leaks
  BY DEF Leave
<1>2. PICK job : job = [up[j] EXCEPT !.stage = "over"]
  OBVIOUS
<1>3. up[j] \in Job /\ up[j].stage = "told" /\ JobSound(Sender, blob, expired, j)
  BY SenderTypes DEF Leave
<1>4. /\ job \in Job /\ job.stage = "over" /\ job.ok = up[j].ok /\ job.listed = up[j].listed
      /\ job.cancelled = up[j].cancelled /\ job.answer = up[j].answer
  BY <1>2, <1>3 DEF Job
<1>5. up' = [up EXCEPT ![j] = job] /\ UNCHANGED <<note, lease, expired>>
  BY <1>2, SenderTypes DEF Leave
<1>6. /\ Answer(j) \in {"keep", "drop"} /\ ~up[j].listed
      /\ Answer(j) = "keep" <=> up[j].answer = "keep"
  BY <1>3, SenderFields DEF Leave, Answer, Job, JobSound
<1>7. /\ blob' \subseteq blob \cup {j} /\ blob \ {j} \subseteq blob' /\ (j \in blob' => j \in blob)
  BY <1>1
<1>8. Safe(Sender, blob, expired, j) => j \in blob' \cup expired
  BY <1>1, <1>3, <1>6, SenderFields DEF Safe
<1>9. \/ leaks' = leaks /\ faults' = faults
      \/ faults < MaxFaults /\ faults' = faults + 1 /\ leaks' \in {leaks, leaks + 1}
  BY <1>1 DEF Fault, MoreFaults
<1>10. faults' \in 0 .. MaxFaults /\ leaks' \in 0 .. faults' /\ (leaks' = 0 => leaks = 0)
  BY <1>9, Counts, SenderTypes DEF SenderInv
<1>11. leaks' = 0 => j \notin blob' \/ job.answer = "keep"
  BY <1>1, <1>4, <1>6, SenderTypes
<1> QED BY <1>3, <1>4, <1>5, <1>6, <1>7, <1>8, <1>10, <1>11, WorkStep

\* A blob expires, or is removed once it did.
LEMMA RetentionStep ==
  ASSUME SenderInv, NEW j \in Blob, Expire(j) \/ Cleanup(j)
  PROVE  SenderInv' /\ KeepsBlobs /\ LateHarmless
<1>1. /\ UNCHANGED <<note, up, faults, leaks>>
      /\ expired \subseteq expired' /\ expired' \subseteq expired \cup {j}
      /\ blob' \subseteq blob /\ blob \subseteq blob' \cup {j}
      /\ lease' \subseteq lease /\ lease \subseteq lease' \cup {j}
      /\ \/ blob' = blob /\ lease' = lease
         \/ j \notin blob' /\ j \in expired
  BY SenderFields DEF Expire, Cleanup, Unleased
<1>2. Sender' = [note |-> note, lease |-> lease', up |-> up]
  BY <1>1 DEF Sender
<1>3. Sender'.note = note /\ Sender'.lease = lease' /\ Sender'.up = up
  BY <1>2
<1>4. Sender' \in Store
  <2>1. lease' \in SUBSET Blob /\ note \in [File -> Note] /\ up \in [Blob -> Job]
    BY <1>1, SenderTypes
  <2> QED BY <1>2, <2>1 DEF Store
<1>5. Live(Sender') = Live(Sender)
  BY <1>3, SenderFields DEF Live
<1>6. ASSUME NEW k, Safe(Sender, blob, expired, k) PROVE Safe(Sender', blob', expired', k)
  BY <1>1, <1>3, <1>6, SenderFields DEF Safe
<1>7. NotesSafe(Sender', blob', expired')
  BY <1>3, <1>6, SenderFields DEF SenderInv, Sound, NotesSafe
<1>8. Single(Sender') /\ Fits(Sender')
  BY <1>3, <1>5, SenderFields DEF SenderInv, Sound, Single, Fits
<1>9. ASSUME NEW k \in Blob PROVE JobSound(Sender', blob', expired', k)
  BY <1>1, <1>3, SenderTypes, SenderFields DEF JobSound
<1>10. Sound(Sender, blob, expired)'
  BY <1>4, <1>7, <1>8, <1>9 DEF Sound, JobsSound
<1>11. NothingIsLeaked'
  BY <1>1, <1>5 DEF SenderInv, NothingIsLeaked
<1>12. LateHarmless /\ KeepsBlobs
  BY <1>1, <1>6 DEF LateHarmless, KeepsBlobs
<1> QED BY <1>1, <1>10, <1>11, <1>12 DEF SenderInv

SenderSteps ==
  \/ Poll \/ Lock \/ Die
  \/ \E f \in File : SendFile(f) \/ Suspend(f) \/ Resume(f) \/ DeleteSent(f) \/ Tick(f)
  \/ \E k \in Blob : Work(k) \/ Expire(k) \/ Cleanup(k)

LEMMA SenderStep ==
  ASSUME SenderInv, SenderSteps
  PROVE  SenderInv' /\ KeepsBlobs /\ LateHarmless
BY PollStep, LockStep, DieStep, UploadStep, SuspendStep, NoteStep, PublishStep, LeaveStep,
   RetentionStep DEF SenderSteps, Work

LEMMA SenderKeepsRecipient == SenderSteps => UNCHANGED recipient
BY DEF SenderSteps, Poll, ThenPoll, Lock, Die, SendFile, Suspend, Resume, DeleteSent, Tick, Work,
       Publish, Leave, Expire, Cleanup

LEMMA SenderInit == Init => SenderInv
<1> SUFFICES ASSUME Init PROVE SenderInv
  OBVIOUS
<1>1. \A k \in Blob : up[k] = Unused
  BY DEF Init
<1>2. \A f \in File : note[f].state = "none"
  BY DEF Init, Unwritten
<1>3. Unused \in Job /\ Unwritten \in Note
  BY DEF Unused, Job, Unwritten, Note
<1>4. Sender \in Store
  <2>1. note \in [File -> Note] /\ up \in [Blob -> Job] /\ lease \in SUBSET Blob
    BY <1>3 DEF Init
  <2> QED BY <2>1 DEF Sender, Store
<1>5. JobsSound(Sender, blob, expired) /\ Single(Sender)
  BY <1>1, SenderFields DEF JobsSound, JobSound, Single, Unused
<1>6. NotesSafe(Sender, blob, expired)
  BY <1>2, SenderFields DEF NotesSafe
<1>7. Fits(Sender)
  <2>1. Live(Sender) = {}
    BY <1>1, SenderFields DEF Live, Unused
  <2> QED BY <2>1, FS_EmptySet, AttachmentsAssumption DEF Fits
<1>8. NothingIsLeaked /\ blob \cup expired \subseteq Blob
  BY DEF NothingIsLeaked, Init
<1>9. faults \in 0 .. MaxFaults /\ leaks \in 0 .. faults
  BY AttachmentsAssumption DEF Init
<1> QED BY <1>4, <1>5, <1>6, <1>7, <1>8, <1>9 DEF SenderInv, Sound

(***************************************************************************)
(* The actions of the recipient.                                           *)
(***************************************************************************)
\* What a step of the recipient does to its messages.
KeepsPointers == \A f \in File :
  has'[f].state = "pointer" =>
    \/ has'[f] = has[f]
    \/ note[f].state = "sent" /\ has'[f].blob = note[f].blob

OnlyAsked == \A f \in File : has[f].state # "ready" /\ has'[f].state = "ready" => f \in asked

LEMMA BegunParts ==
  ASSUME NEW h \in [File -> Pointer], NEW d \in Queues, NEW a,
         \A f \in d.queue : h[f].state # "none" /\ (h[f].state = "pointer" => f \in a),
         \A f, g \in d.queue : f = g,
         d.job # Idle => /\ d.job.file \in File /\ h[d.job.file].state # "none"
                         /\ ~d.job.stale /\ ~d.job.cancelled /\ h[d.job.file].state = "pointer"
                              => d.job.file \in a
                         /\ d.queue # {} => d.job.stale,
         NEW e, e = Begun(h, d)
  PROVE  e \in Queues /\ Asked(h, e, a)
<1>2. CASE d.job # Idle \/ d.queue = {}
  <2>1. e = d
    BY <1>2 DEF Begun
  <2> QED BY <1>2, <2>1 DEF Asked
<1>3. CASE d.job = Idle /\ d.queue # {}
  <2>1. PICK f : f = CHOOSE g \in d.queue : TRUE
    OBVIOUS
  <2>2. f \in d.queue /\ f \in File /\ f # 0
    BY <1>3, <2>1, AttachmentsAssumption DEF Queues
  <2>3. PICK job : job = [Idle EXCEPT !.file = f, !.blob = h[f].blob]
    OBVIOUS
  <2>4. h[f].blob \in Blob \cup {NoBlob}
    BY <2>2 DEF Pointer
  <2>5. job \in Transfer /\ job.file = f /\ ~job.stale /\ job # Idle
    BY <2>2, <2>3, <2>4 DEF Idle, Transfer, NoFile
  <2>6. e = [d EXCEPT !.job = job, !.queue = d.queue \ {f}]
    BY <1>3, <2>1, <2>3 DEF Begun
  <2>7. e \in Queues /\ e.job = job /\ e.queue = {}
    BY <2>2, <2>5, <2>6 DEF Queues
  <2> QED BY <2>2, <2>5, <2>7 DEF Asked
<1> QED BY <1>2, <1>3

LEMMA RecipientParts ==
  ASSUME RecipientInv
  PROVE  /\ down.queue \in SUBSET File /\ down.failed \in SUBSET File /\ down.job \in Transfer
         /\ down = [queue |-> down.queue, failed |-> down.failed, job |-> down.job]
         /\ 0 \notin File
         /\ Idle \in Transfer /\ Idle.file = 0 /\ ~Idle.stale /\ ~Idle.cancelled
BY AttachmentsAssumption DEF RecipientInv, Queues, Idle, Transfer, NoFile

LEMMA RequestStep ==
  ASSUME RecipientInv, NEW f \in File, Request(f)
  PROVE  RecipientInv' /\ KeepsPointers /\ OnlyAsked
<1>1. /\ has[f].state = "pointer" /\ down.queue = {} /\ (down.job # Idle => down.job.stale)
      /\ asked' = asked \cup {f} /\ has' = has
  BY DEF Request, Current
<1>2. PICK d : d = [down EXCEPT !.queue = @ \cup {f}, !.failed = @ \ {f}]
  OBVIOUS
<1>4. PICK e : e = Begun(has, d)
  OBVIOUS
<1>5. down' = e
  BY <1>2, <1>4 DEF Request
<1>6. d \in Queues /\ d.queue = {f} /\ d.job = down.job
  BY <1>1, <1>2 DEF RecipientInv, Queues
<1>7. has \in [File -> Pointer]
  BY DEF RecipientInv
<1>8. d.job # Idle => d.job.file \in File /\ has[d.job.file].state # "none" /\ d.job.stale
  BY <1>1, <1>6 DEF RecipientInv, Asked
<1>9. \A g \in d.queue : has[g].state # "none" /\ (has[g].state = "pointer" => g \in asked')
  BY <1>1, <1>6
<1>10. \A g, h \in d.queue : g = h
  BY <1>6
<1>11. e \in Queues /\ Asked(has, e, asked')
  BY <1>4, <1>6, <1>7, <1>8, <1>9, <1>10, BegunParts
<1>12. asked' \in SUBSET File
  BY <1>1 DEF RecipientInv
<1> QED BY <1>1, <1>5, <1>7, <1>11, <1>12 DEF RecipientInv, KeepsPointers, OnlyAsked

LEMMA WithdrawStep ==
  ASSUME RecipientInv, NEW f \in File, Withdraw(f)
  PROVE  RecipientInv' /\ KeepsPointers /\ OnlyAsked
<1>1. PICK job : job = IF down.job.file = f /\ ~down.job.stale
                       THEN [down.job EXCEPT !.cancelled = TRUE] ELSE down.job
  OBVIOUS
<1>2. /\ job \in Transfer /\ job.file = down.job.file /\ job.stale = down.job.stale
      /\ (job.file = f => job.stale \/ job.cancelled)
      /\ (down.job.cancelled => job.cancelled)
      /\ (down.job = Idle <=> job = Idle)
  BY <1>1, RecipientParts DEF Transfer
<1>3. down' = [queue |-> down.queue \ {f}, failed |-> down.failed \ {f}, job |-> job]
  BY <1>1, RecipientParts DEF Withdraw
<1>4. down'.queue = down.queue \ {f} /\ down'.job = job
  BY <1>3
<1>5. down' \in Queues
  BY <1>2, <1>3, RecipientParts DEF Queues
<1>6. asked' = asked \ {f} /\ has' = has
  BY DEF Withdraw
<1>7. Asked(has, down', asked')
  BY <1>2, <1>4, <1>6 DEF RecipientInv, Asked
<1> QED BY <1>5, <1>6, <1>7 DEF RecipientInv, KeepsPointers, OnlyAsked

LEMMA MessageStep ==
  ASSUME RecipientInv, NEW f \in File, Deliver(f) \/ DeleteReceived(f),
         note[f].blob \in Blob \cup {NoBlob}
  PROVE  RecipientInv' /\ KeepsPointers /\ OnlyAsked
<1>1. has[f] \in Pointer
  BY DEF RecipientInv
<1>2. PICK p \in Pointer :
        /\ has' = [has EXCEPT ![f] = p] /\ p.state \in {"pointer", "gone"} /\ down' = down
        /\ \/ p.state = "pointer" /\ has[f].state = "none" /\ asked' = asked
                /\ note[f].state = "sent" /\ p.blob = note[f].blob
           \/ p.state = "gone" /\ asked' = asked \ {f}
  <2>1. CASE Deliver(f)
    <3>1. [state |-> "pointer", blob |-> note[f].blob] \in Pointer
      BY DEF Pointer
    <3> QED BY <2>1, <3>1 DEF Deliver
  <2>2. CASE DeleteReceived(f)
    <3>1. [has[f] EXCEPT !.state = "gone"] \in Pointer
      BY <1>1 DEF Pointer
    <3>2. has' = [has EXCEPT ![f] = [has[f] EXCEPT !.state = "gone"]]
      BY <2>2 DEF DeleteReceived
    <3>3. [has[f] EXCEPT !.state = "gone"].state = "gone"
      BY <1>1 DEF Pointer
    <3> QED BY <2>2, <3>1, <3>2, <3>3 DEF DeleteReceived
  <2> QED BY <2>1, <2>2
<1>3. has' \in [File -> Pointer] /\ \A g \in File : has'[g] = IF g = f THEN p ELSE has[g]
  BY <1>2 DEF RecipientInv
<1>4. Asked(has', down, asked')
  <2>1. down.queue \subseteq File
    BY RecipientParts
  <2> QED BY <1>2, <1>3, <2>1 DEF RecipientInv, Asked
<1> QED BY <1>2, <1>3, <1>4 DEF RecipientInv, KeepsPointers, OnlyAsked

LEMMA FetchStep ==
  ASSUME RecipientInv, NEW ok \in BOOLEAN, Fetch(ok)
  PROVE  RecipientInv' /\ KeepsPointers /\ OnlyAsked
<1>1. PICK job : job = [down.job EXCEPT !.result = IF ok THEN "fetched" ELSE "failed"]
  OBVIOUS
<1>2. /\ job \in Transfer /\ job.file = down.job.file /\ job.stale = down.job.stale
      /\ job.cancelled = down.job.cancelled /\ job.result # "none"
  BY <1>1, RecipientParts DEF Transfer
<1>3. down' = [queue |-> down.queue, failed |-> down.failed, job |-> job]
  BY <1>1, RecipientParts DEF Fetch
<1>4. down'.queue = down.queue /\ down'.job = job /\ down.job # Idle /\ job # Idle
      /\ has' = has /\ asked' = asked
  BY <1>2, <1>3 DEF Fetch, Idle
<1>5. down' \in Queues
  BY <1>2, <1>3, RecipientParts DEF Queues
<1>6. Asked(has, down', asked)
  BY <1>2, <1>4 DEF RecipientInv, Asked
<1> QED BY <1>4, <1>5, <1>6 DEF RecipientInv, KeepsPointers, OnlyAsked

LEMMA LockRecipientStep ==
  ASSUME RecipientInv, LockRecipient
  PROVE  RecipientInv' /\ KeepsPointers /\ OnlyAsked
<1>1. PICK job : job = IF down.job = Idle THEN Idle
                       ELSE [down.job EXCEPT !.stale = TRUE, !.cancelled = TRUE,
                               !.result = IF @ = "fetched" THEN "failed" ELSE @]
  OBVIOUS
<1>2. job \in Transfer /\ (job # Idle => down.job # Idle /\ job.stale /\ job.file = down.job.file)
  BY <1>1, RecipientParts DEF Transfer
<1>3. down' = [queue |-> {}, failed |-> {}, job |-> job]
  BY <1>1 DEF LockRecipient
<1>4. down' \in Queues /\ down'.queue = {} /\ down'.job = job
  BY <1>2, <1>3 DEF Queues
<1>5. has' = has /\ asked' = {}
  BY DEF LockRecipient
<1>6. Asked(has, down', asked')
  BY <1>2, <1>4 DEF RecipientInv, Asked
<1> QED BY <1>4, <1>5, <1>6 DEF RecipientInv, KeepsPointers, OnlyAsked

LEMMA PollDownloadsStep ==
  ASSUME RecipientInv, PollDownloads
  PROVE  RecipientInv' /\ KeepsPointers /\ OnlyAsked
<1> DEFINE job == down.job
           done == job # Idle /\ job.result # "none"
           kept == done /\ Wanted(job)
           stored == kept /\ job.result = "fetched"
           halted == job # Idle /\ (job.stale \/ has[job.file].state = "gone")
           next == IF done THEN Idle
                   ELSE IF halted THEN [job EXCEPT !.cancelled = TRUE] ELSE job
           failed == IF kept /\ ~stored THEN down.failed \cup {job.file} ELSE down.failed
           queue == {f \in down.queue : has'[f].state = "pointer"}
<1>1. /\ has' = IF stored THEN [has EXCEPT ![job.file].state = "ready"] ELSE has
      /\ down' = Begun(has', [queue |-> queue, failed |-> failed, job |-> next])
      /\ asked' = IF kept THEN asked \ {job.file} ELSE asked
  BY DEF PollDownloads
<1>2. /\ job \in Transfer /\ down.queue \in SUBSET File /\ down.failed \in SUBSET File
      /\ has \in [File -> Pointer] /\ asked \in SUBSET File
      /\ Idle \in Transfer /\ ~Idle.stale
      /\ job # Idle => job.file \in File /\ has[job.file].state # "none"
      /\ job # Idle /\ ~job.stale /\ ~job.cancelled /\ has[job.file].state = "pointer"
           => job.file \in asked
      /\ \A f \in down.queue : has[f].state # "none" /\ (has[f].state = "pointer" => f \in asked)
      /\ down.queue # {} => job # Idle /\ job.stale
      /\ \A f, g \in down.queue : f = g
  BY RecipientParts DEF RecipientInv, Asked
<1>3. kept => /\ job # Idle /\ job.file \in File /\ ~job.stale /\ ~job.cancelled
              /\ has[job.file].state = "pointer" /\ job.file \in asked
  BY <1>2 DEF Wanted
<1>4. next \in Transfer /\ (next # Idle => /\ ~done /\ job # Idle /\ next.file = job.file
                                           /\ next.stale = job.stale
                                           /\ (job.cancelled => next.cancelled))
  BY <1>2 DEF Transfer
<1>5. PICK h : h = has'
  OBVIOUS
<1>6. PICK q : q = queue
  OBVIOUS
<1>7. PICK n : n = next
  OBVIOUS
<1>8. PICK l : l = failed
  OBVIOUS
<1>9. l \in SUBSET File
  BY <1>2, <1>3, <1>8
<1>10. PICK p \in Pointer : stored => /\ has' = [has EXCEPT ![job.file] = p]
                                      /\ p.state = "ready"
  <2>1. CASE stored
    <3>1. has[job.file] \in Pointer
      BY <1>2, <1>3, <2>1
    <3>2. PICK r : r = [has[job.file] EXCEPT !.state = "ready"]
      OBVIOUS
    <3>3. r \in Pointer /\ r.state = "ready"
      BY <3>1, <3>2 DEF Pointer
    <3>4. has' = [has EXCEPT ![job.file] = r]
      BY <1>1, <2>1, <3>2
    <3> QED BY <3>3, <3>4
  <2>2. CASE ~stored
    <3>1. [state |-> "none", blob |-> NoBlob] \in Pointer
      BY DEF Pointer
    <3> QED BY <2>2, <3>1
  <2> QED BY <2>1, <2>2
<1>11. h \in [File -> Pointer] /\ \A f \in File : h[f] = has[f] \/
                                     (stored /\ f = job.file /\ h[f].state = "ready")
  BY <1>1, <1>2, <1>3, <1>5, <1>10
<1>12. asked' \in SUBSET File /\ asked \ {job.file} \subseteq asked'
       /\ (kept \/ asked' = asked)
  BY <1>1, <1>2
<1>13. q \subseteq down.queue /\ \A f \in q : h[f].state = "pointer"
  BY <1>5, <1>6
<1>14. kept => q = {}
  BY <1>2, <1>3, <1>13
<1>15. n \in Transfer /\ (n # Idle => /\ ~done /\ job # Idle /\ n.file = job.file
                                      /\ n.stale = job.stale
                                      /\ (job.cancelled => n.cancelled))
  BY <1>4, <1>7
<1>16. ~done => ~kept /\ ~stored
  OBVIOUS
<1>17. PICK d : d = [queue |-> q, failed |-> l, job |-> n]
  OBVIOUS
<1>18. d.queue = q /\ d.job = n
  BY <1>17
<1>19. d \in Queues
  BY <1>2, <1>9, <1>13, <1>15, <1>17 DEF Queues
<1>20. down' = Begun(h, d)
  BY <1>1, <1>5, <1>6, <1>7, <1>8, <1>17
<1> HIDE DEF kept, stored, done, next, failed, queue, halted
<1>21. \A f \in d.queue : h[f].state # "none" /\ (h[f].state = "pointer" => f \in asked')
  BY <1>2, <1>11, <1>12, <1>13, <1>14, <1>18
<1>22. \A f, g \in d.queue : f = g
  BY <1>2, <1>13, <1>18
<1>23. d.job # Idle => /\ d.job.file \in File /\ h[d.job.file].state # "none"
                       /\ ~d.job.stale /\ ~d.job.cancelled /\ h[d.job.file].state = "pointer"
                            => d.job.file \in asked'
                       /\ d.queue # {} => d.job.stale
  BY <1>2, <1>11, <1>12, <1>13, <1>15, <1>16, <1>18
<1>24. down' \in Queues /\ Asked(h, down', asked')
  BY <1>11, <1>19, <1>20, <1>21, <1>22, <1>23, BegunParts
<1>25. RecipientInv'
  BY <1>5, <1>11, <1>12, <1>24 DEF RecipientInv
<1>26. KeepsPointers
  BY <1>5, <1>11 DEF KeepsPointers
<1>27. OnlyAsked
  <2>1. stored => kept
    BY DEF stored
  <2> QED BY <1>3, <1>5, <1>11, <2>1 DEF OnlyAsked
<1> QED BY <1>25, <1>26, <1>27

(***************************************************************************)
(* The theorems.                                                           *)
(***************************************************************************)
IInv == SenderInv /\ RecipientInv /\ PointersSafe

RecipientSteps ==
  \/ \E f \in File : Deliver(f) \/ Request(f) \/ Withdraw(f) \/ DeleteReceived(f)
  \/ (\E ok \in BOOLEAN : Fetch(ok)) \/ PollDownloads \/ LockRecipient

LEMMA NextParts == Next <=> SenderSteps \/ RecipientSteps
BY DEF Next, SenderSteps, RecipientSteps

LEMMA RecipientStep ==
  ASSUME SenderInv, RecipientInv, RecipientSteps
  PROVE  RecipientInv' /\ KeepsPointers /\ OnlyAsked
<1>1. \A f \in File : note[f].blob \in Blob \cup {NoBlob}
  BY SenderTypes DEF Note
<1> QED BY <1>1, RequestStep, WithdrawStep, MessageStep, FetchStep, PollDownloadsStep,
           LockRecipientStep DEF RecipientSteps

\* The sender is only disturbed by the faults of the recipient.
LEMMA RecipientKeepsSender ==
  ASSUME SenderInv, RecipientSteps
  PROVE  SenderInv' /\ UNCHANGED sender
<1>1. UNCHANGED <<note, lease, up, blob, expired, leaks>>
  BY DEF RecipientSteps, Deliver, Request, Withdraw, DeleteReceived, Fetch, PollDownloads,
         LockRecipient, sender
<1>2. \/ leaks' = leaks /\ faults' = faults
      \/ faults < MaxFaults /\ faults' = faults + 1 /\ leaks' \in {leaks, leaks + 1}
  <2>1. faults' = faults \/ (faults < MaxFaults /\ faults' = faults + 1)
    BY DEF RecipientSteps, Deliver, Request, Withdraw, DeleteReceived, Fetch, PollDownloads,
           LockRecipient, Fault, MoreFaults
  <2> QED BY <1>1, <2>1
<1>3. faults' \in 0 .. MaxFaults /\ leaks' \in 0 .. faults'
  BY <1>2, Counts DEF SenderInv
<1>4. Sender' = Sender /\ Live(Sender)' = Live(Sender)
  BY <1>1 DEF Sender, Live
<1>5. Sound(Sender, blob, expired)' <=> Sound(Sender, blob, expired)
  BY <1>1, <1>4
<1>6. NothingIsLeaked'
  BY <1>1, <1>4 DEF SenderInv, NothingIsLeaked
<1> QED BY <1>1, <1>3, <1>5, <1>6 DEF SenderInv, sender

LEMMA InvInit == Init => IInv
<1> SUFFICES ASSUME Init PROVE IInv
  OBVIOUS
<1>1. SenderInv
  BY SenderInit
<1>2. RecipientInv
  <2>1. [state |-> "none", blob |-> NoBlob] \in Pointer
    BY DEF Pointer
  <2>2. Idle \in Transfer
    BY DEF Idle, Transfer
  <2>3. down.queue = {} /\ down.job = Idle /\ down \in Queues
    BY <2>2 DEF Init, Queues
  <2> QED BY <2>1, <2>3 DEF Init, RecipientInv, Asked
<1>3. PointersSafe
  BY DEF Init, PointersSafe
<1> QED BY <1>1, <1>2, <1>3 DEF IInv

LEMMA InvNext == IInv /\ [Next]_vars => IInv'
<1> SUFFICES ASSUME IInv, [Next]_vars PROVE IInv'
  OBVIOUS
<1>1. CASE SenderSteps
  <2>1. SenderInv' /\ KeepsBlobs /\ UNCHANGED <<has, down, asked>>
    BY <1>1, SenderStep, SenderKeepsRecipient DEF IInv, recipient
  <2>2. RecipientInv'
    BY <2>1 DEF IInv, RecipientInv
  <2>3. PointersSafe'
    BY <2>1 DEF IInv, PointersSafe, KeepsBlobs
  <2> QED BY <2>1, <2>2, <2>3 DEF IInv
<1>2. CASE RecipientSteps
  <2>1. SenderInv' /\ RecipientInv' /\ KeepsPointers /\ UNCHANGED <<note, lease, up, blob, expired>>
    BY <1>2, RecipientStep, RecipientKeepsSender DEF IInv, sender
  <2>2. \A k : Safe(Sender, blob, expired, k) <=> Safe(Sender', blob', expired', k)
    BY <2>1 DEF Sender
  <2>3. NotesSafe(Sender, blob, expired)
    BY DEF IInv, SenderInv, Sound
  <2>4. ASSUME NEW f \in File, has'[f].state = "pointer"
        PROVE  Safe(Sender, blob, expired, has'[f].blob)
    BY <2>1, <2>3, <2>4, SenderFields DEF IInv, PointersSafe, KeepsPointers, NotesSafe
  <2>5. PointersSafe'
    BY <2>2, <2>4 DEF PointersSafe
  <2> QED BY <2>1, <2>5 DEF IInv
<1>3. CASE UNCHANGED vars
  <2>1. UNCHANGED <<note, lease, up, blob, expired, has, down, asked, faults, leaks>>
    BY <1>3 DEF vars, sender, recipient
  <2>2. Sender' = Sender /\ Live(Sender)' = Live(Sender)
    BY <2>1 DEF Sender, Live
  <2>3. SenderInv' /\ RecipientInv'
    BY <2>1, <2>2 DEF IInv, SenderInv, RecipientInv, NothingIsLeaked
  <2>4. PointersSafe'
    BY <2>1, <2>2 DEF IInv, PointersSafe
  <2> QED BY <2>3, <2>4 DEF IInv
<1> QED BY <1>1, <1>2, <1>3, NextParts

\* In every reachable state the jobs, the answers they got, the blobs and the leases
\* agree, and only files the user asked for are fetched or wait.
THEOREM InvariantHolds == Spec => []IInv
BY InvInit, InvNext, PTL DEF Spec

\* One job of a file: at most one element of the list.
LEMMA AtMostOne ==
  ASSUME NEW S, \A x, y \in S : x = y
  PROVE  Cardinality(S) <= 1
<1>1. CASE S = {}
  BY <1>1, FS_EmptySet
<1>2. CASE S # {}
  <2>1. PICK x : x \in S
    BY <1>2
  <2>2. S = {x}
    BY <2>1
  <2> QED BY <2>2, FS_Singleton
<1> QED BY <1>1, <1>2

\* The variables range over what the code can store; there are never more workers
\* than permits, one job of a file at a time, and one file waits at most.
THEOREM TypeCorrect == Spec => []TypeOK
<1>1. IInv => TypeOK
  <2> SUFFICES ASSUME IInv PROVE TypeOK
    OBVIOUS
  <2>1. /\ note \in [File -> Note] /\ lease \in SUBSET Blob /\ up \in [Blob -> Job]
    BY SenderTypes DEF IInv
  <2>2. Cardinality(Live(Sender)) <= MaxActive
    BY DEF IInv, SenderInv, Sound, Fits
  <2>3. ASSUME NEW f \in File PROVE Cardinality(Listed(Sender, f)) <= 1
    <3>1. \A j, k \in Listed(Sender, f) : j = k
      BY DEF IInv, SenderInv, Sound, Single, Listed
    <3> QED BY <3>1, AtMostOne
  <2>4. Cardinality(down.queue) <= 1
    <3>1. \A f, g \in down.queue : f = g
      BY DEF IInv, RecipientInv, Asked
    <3> QED BY <3>1, AtMostOne
  <2>5. lease \cup blob \cup expired \subseteq Blob /\ faults \in 0 .. MaxFaults /\ leaks \in 0 .. faults
    BY <2>1 DEF IInv, SenderInv
  <2>6. has \in [File -> Pointer] /\ down \in Queues /\ asked \subseteq File
    BY DEF IInv, RecipientInv
  <2> QED BY <2>1, <2>2, <2>3, <2>4, <2>5, <2>6 DEF TypeOK, Queues
<1> QED BY <1>1, InvariantHolds, PTL

\* What a message points to, at the sender or at the recipient, is in the network
\* until its retention is over, whatever timeouts, locks and deaths came between.
THEOREM SentFilesExist == Spec => []SentFileExists
<1>1. IInv => SentFileExists
  BY SenderFields DEF IInv, SenderInv, Sound, NotesSafe, PointersSafe, Safe, SentFileExists
<1> QED BY <1>1, InvariantHolds, PTL

\* Every blob has a worker that will remove it, or a lease, unless the process died
\* or a deletion failed.
THEOREM NoLeaks == Spec => []NothingIsLeaked
<1>1. IInv => NothingIsLeaked
  BY DEF IInv, SenderInv
<1> QED BY <1>1, InvariantHolds, PTL

\* Only an upload that is pending is ever sent, whatever results come late.
THEOREM LateResultsHarmless == Spec => LateResultsAreHarmless
<1>1. IInv /\ [Next]_vars =>
        [\A f \in File : note'[f].state = "sent" => note[f].state = "pending" \/ note'[f] = note[f]]_vars
  <2> SUFFICES ASSUME IInv, Next
               PROVE  \A f \in File : note'[f].state = "sent" =>
                        note[f].state = "pending" \/ note'[f] = note[f]
    OBVIOUS
  <2>1. CASE SenderSteps
    BY <2>1, SenderStep DEF IInv, LateHarmless
  <2>2. CASE RecipientSteps
    BY <2>2, RecipientKeepsSender DEF IInv, sender
  <2> QED BY <2>1, <2>2, NextParts
<1> QED BY <1>1, InvariantHolds, PTL DEF Spec, LateResultsAreHarmless

\* A file is stored only while the user waits for it.
THEOREM StoredWhenAsked == Spec => OnlyWhatWasAsked
<1>1. IInv /\ [Next]_vars =>
        [\A f \in File : has[f].state # "ready" /\ has'[f].state = "ready" => f \in asked]_vars
  <2> SUFFICES ASSUME IInv, Next
               PROVE  \A f \in File : has[f].state # "ready" /\ has'[f].state = "ready" => f \in asked
    OBVIOUS
  <2>1. CASE SenderSteps
    BY <2>1, SenderKeepsRecipient DEF recipient
  <2>2. CASE RecipientSteps
    BY <2>2, RecipientStep DEF IInv, OnlyAsked
  <2> QED BY <2>1, <2>2, NextParts
<1> QED BY <1>1, InvariantHolds, PTL DEF Spec, OnlyWhatWasAsked

==============================================================================
