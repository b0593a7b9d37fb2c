--------------------------- MODULE InboundProofs ---------------------------
(***************************************************************************)
(* Proofs about Inbound, for any contacts, packets and bounds.             *)
(***************************************************************************)
EXTENDS Inbound, TLAPS

\* The ratchet store the next start would find.
Durable == Recovered(ratchet)

\* The packets whose keys are used up on disk.
Spent == {k \in Packet : k \in KeysRead(Durable, PeerOf[k])}

(***************************************************************************)
(* The inductive invariant, in parts.                                      *)
(***************************************************************************)

\* The store in memory is the one before the packet in work, and its key used up.
WorkSound ==
  ~Idle => runtime = Decrypted(receiving.before, receiving.packet)

\* Memory and files have the same sessions, but for the key of the packet in work.
RatchetSound ==
  /\ \A p \in Peer : KeysRead(Durable, p) \subseteq MessagesOf(p)
  /\ Idle => runtime = None \/ runtime.session = Durable.session
  /\ ~Idle => /\ receiving.before.session = Durable.session
              /\ receiving.packet \notin Spent

\* What was answered or can no longer be decrypted is in memory, and what is in
\* memory is in the log, with or without the frame still to be rolled back.
StoreSound ==
  /\ answered \cup Spent \subseteq shown \cup cancelled
  /\ shown \subseteq (log \cap torn) \cup cancelled
  /\ ~Idle => /\ receiving.packet \notin answered \ cancelled
              /\ receiving.stored => receiving.packet \in shown

\* A message erased with its key is nowhere, and its key stays used.
EraseSound ==
  /\ erased \subseteq Spent
  /\ (shown \cup log \cup torn) \cap erased = {}

\* Every message has its contact in the file, and the file is not ahead of memory.
ContactsSound ==
  /\ contacts.file \subseteq contacts.memory
  /\ \A k \in shown \cup log \cup torn : PeerOf[k] \in contacts.file \cup halved

IInv ==
  /\ TypeOK /\ WorkSound /\ RatchetSound
  /\ StoreSound /\ EraseSound /\ ContactsSound

\* The last key given out is not ahead of any copy of its session.
SentSound ==
  \A p \in Peer :
    /\ used[p] <= Established(Durable, p).sent
    /\ runtime # None => used[p] <= Established(runtime, p).sent
    /\ ~Idle => used[p] <= Established(receiving.before, p).sent

(***************************************************************************)
(* The ratchet store.                                                      *)
(***************************************************************************)

\* Copying the journal to the file of its session changes that session only.
LEMMA WithSessionFields ==
  ASSUME NEW files \in Ratchet, files.journal # None
  PROVE  /\ WithSession(files) \in Ratchet
         /\ WithSession(files).session =
              [files.session EXCEPT ![files.journal.peer] = files.journal.session]
         /\ WithSession(files).journal = files.journal
BY DEF Ratchet, Journal, WithSession

\* Copying it to the global file changes no session.
LEMMA WithGlobalFields ==
  ASSUME NEW files \in Ratchet, files.journal # None
  PROVE  /\ WithGlobal(files) \in Ratchet
         /\ WithGlobal(files).session = files.session
         /\ WithGlobal(files).journal = files.journal
<1>1. files.journal.known = None \/ files.journal.known \in SUBSET Peer
  BY DEF Ratchet, Journal
<1> QED BY <1>1 DEF Ratchet, WithGlobal

\* The sessions a recovery installs.
SessionsOf(files) ==
  IF files.journal = None THEN files.session
  ELSE [files.session EXCEPT ![files.journal.peer] = files.journal.session]

\* recover_transaction installs the session of the journal.
LEMMA RecoveredFields ==
  ASSUME NEW files \in Ratchet
  PROVE  /\ Recovered(files) \in Ratchet
         /\ Recovered(files).journal = None
         /\ Recovered(files).session = SessionsOf(files)
<1>1. CASE files.journal = None
  BY <1>1 DEF Recovered, SessionsOf
<1>2. CASE files.journal # None
  <2> DEFINE w == WithGlobal(WithSession(files))
  <2>1. /\ w \in Ratchet
        /\ w.session = [files.session EXCEPT ![files.journal.peer] = files.journal.session]
    BY <1>2, WithSessionFields, WithGlobalFields
  <2>2. Recovered(files) = [w EXCEPT !.journal = None]
    BY <1>2 DEF Recovered
  <2> HIDE DEF w
  <2> QED BY <1>2, <2>1, <2>2 DEF Ratchet, SessionsOf
<1> QED BY <1>1, <1>2

\* Wherever it stops, it ends in the same sessions when it is run again.
LEMMA RecoveryStopsFields ==
  ASSUME NEW files \in Ratchet, NEW x \in RecoveryStops(files)
  PROVE  x \in Ratchet /\ SessionsOf(x) = SessionsOf(files)
<1>1. CASE files.journal = None
  BY <1>1 DEF RecoveryStops
<1>2. CASE files.journal # None
  <2> DEFINE s == WithSession(files)
             g == WithGlobal(s)
  <2>1. /\ s \in Ratchet /\ s.journal = files.journal
        /\ s.session = [files.session EXCEPT ![files.journal.peer] = files.journal.session]
    BY <1>2, WithSessionFields
  <2>2. g \in Ratchet /\ g.journal = files.journal /\ g.session = s.session
    BY <1>2, <2>1, WithGlobalFields
  <2>3. x \in {files, s, g}
    BY <1>2 DEF RecoveryStops
  <2> HIDE DEF s, g
  <2>4. files.session \in [Peer -> Session \cup {None}] /\ files.journal.peer \in Peer
    BY <1>2 DEF Ratchet, Journal
  <2>5. SessionsOf(s) = SessionsOf(files) /\ SessionsOf(g) = SessionsOf(files)
    BY <1>2, <2>1, <2>2, <2>4 DEF SessionsOf
  <2> QED BY <2>1, <2>2, <2>3, <2>5
<1> QED BY <1>1, <1>2

\* The journal of a transaction stands for the new session of its peer.
LEMMA JournalledFields ==
  ASSUME NEW files \in Ratchet, files.journal = None,
         NEW before \in Runtime, NEW after \in Runtime, NEW p \in Peer,
         after.session[p] # None
  PROVE  /\ Journalled(files, before, after, p) \in Ratchet
         /\ SessionsOf(Journalled(files, before, after, p)) =
              [files.session EXCEPT ![p] = after.session[p]]
<1> DEFINE j == [peer |-> p, session |-> after.session[p],
                 known |-> IF after.known = before.known THEN None ELSE after.known]
           x == [files EXCEPT !.journal = j]
<1>1. j \in Journal /\ j # None /\ j.peer = p /\ j.session = after.session[p]
  BY NoneAssumption DEF Journal, Runtime
<1>2. x = Journalled(files, before, after, p)
  BY DEF Journalled
<1> HIDE DEF j
<1>3. x \in Ratchet /\ x.journal = j /\ x.session = files.session
  BY <1>1 DEF Ratchet
<1> HIDE DEF x
<1> QED BY <1>1, <1>2, <1>3 DEF SessionsOf

\* A transaction that is durable installs the new session, now or at the next start.
LEMMA PersistsFields ==
  ASSUME ratchet \in Ratchet, NEW before \in Runtime, NEW after \in Runtime, NEW p \in Peer,
         after.session[p] # None, Persists(before, after, p)
  PROVE  /\ ratchet' \in Ratchet
         /\ Durable'.session = [Durable.session EXCEPT ![p] = after.session[p]]
<1> DEFINE j == Journalled(Recovered(ratchet), before, after, p)
<1>1. Durable \in Ratchet /\ Durable.journal = None
  BY RecoveredFields DEF Durable
<1>2. j \in Ratchet /\ SessionsOf(j) = [Durable.session EXCEPT ![p] = after.session[p]]
  BY <1>1, JournalledFields DEF Durable
<1>3. ratchet' = Recovered(j) \/ ratchet' \in RecoveryStops(j)
  BY DEF Persists
<1> HIDE DEF j
<1>4. ratchet' \in Ratchet /\ SessionsOf(ratchet') = SessionsOf(j)
  <2>1. CASE ratchet' = Recovered(j)
    BY <1>2, <2>1, RecoveredFields DEF SessionsOf
  <2>2. CASE ratchet' \in RecoveryStops(j)
    BY <1>2, <2>2, RecoveryStopsFields
  <2> QED BY <1>3, <2>1, <2>2
<1> QED BY <1>2, <1>4, RecoveredFields DEF Durable

\* A recovery, wherever it stops, leaves the sessions as they are.
LEMMA RecoversFields ==
  ASSUME ratchet \in Ratchet,
         ratchet' \in RecoveryStops(ratchet) \cup {ratchet, Recovered(ratchet)}
  PROVE  ratchet' \in Ratchet /\ Durable'.session = Durable.session
<1>1. ratchet' \in Ratchet /\ SessionsOf(ratchet') = SessionsOf(ratchet)
  <2>1. CASE ratchet' = Recovered(ratchet)
    BY <2>1, RecoveredFields DEF SessionsOf
  <2>2. CASE ratchet' \in RecoveryStops(ratchet)
    BY <2>2, RecoveryStopsFields
  <2> QED BY <2>1, <2>2
<1> QED BY <1>1, RecoveredFields DEF Durable

\* A transaction that failed changed no session, unless its journal could not be read
\* back.
LEMMA PersistFailsFields ==
  ASSUME ratchet \in Ratchet, NEW before \in Runtime, NEW after \in Runtime, NEW p \in Peer,
         after.session[p] # None, PersistFails(before, after, p)
  PROVE  /\ ratchet' \in Ratchet
         /\ \/ Durable'.session = Durable.session
            \/ /\ ReadBackFails
               /\ Durable'.session = [Durable.session EXCEPT ![p] = after.session[p]]
<1>1. CASE ratchet' \in RecoveryStops(ratchet) \cup {Recovered(ratchet)}
  BY <1>1, RecoversFields
<1>2. CASE ReadBackFails /\ ratchet' = Journalled(Recovered(ratchet), before, after, p)
  <2>1. Durable \in Ratchet /\ Durable.journal = None
    BY RecoveredFields DEF Durable
  <2> QED BY <1>2, <2>1, JournalledFields, RecoveredFields DEF Durable
<1> QED BY <1>1, <1>2 DEF PersistFails

(***************************************************************************)
(* The store in memory.                                                    *)
(***************************************************************************)

\* A loaded store knows the sessions of the files or those it had.
LEMMA LoadedFields ==
  ASSUME TypeOK
  PROVE  /\ Loaded \in Runtime
         /\ Loaded.session = IF runtime = None THEN Durable.session ELSE runtime.session
<1>1. Durable \in Ratchet
  BY RecoveredFields DEF TypeOK, Durable
<1>2. CASE runtime = None
  BY <1>1, <1>2 DEF Loaded, Durable, Ratchet, Runtime
<1>3. CASE runtime # None
  BY <1>3 DEF Loaded, TypeOK
<1> QED BY <1>2, <1>3

\* A session that was established, or a new one.
LEMMA EstablishedType ==
  ASSUME NEW state, state.session \in [Peer -> Session \cup {None}], NEW p \in Peer
  PROVE  /\ Established(state, p) \in Session
         /\ Established(state, p).read = KeysRead(state, p)
BY InboundAssumption DEF Established, NewSession, KeysRead, Session

\* A store in which p is known and has another session.
LEMMA UpdatedFields ==
  ASSUME NEW state \in Runtime, NEW p \in Peer, NEW e \in Session
  PROVE  /\ Updated(state, p, e) \in Runtime
         /\ Updated(state, p, e).session = [state.session EXCEPT ![p] = e]
BY DEF Updated, Runtime

\* Decrypting a packet uses up its key, and gives out none.
LEMMA DecryptedFields ==
  ASSUME NEW state \in Runtime, NEW k \in Packet
  PROVE  /\ PeerOf[k] \in Peer
         /\ Decrypted(state, k) \in Runtime
         /\ Decrypted(state, k).session[PeerOf[k]] \in Session
         /\ Established(Decrypted(state, k), PeerOf[k]).sent = Established(state, PeerOf[k]).sent
         /\ KeysRead(Decrypted(state, k), PeerOf[k]) = KeysRead(state, PeerOf[k]) \cup {k}
         /\ \A q \in Peer \ {PeerOf[k]} : Decrypted(state, k).session[q] = state.session[q]
<1> DEFINE p == PeerOf[k]
           old == Established(state, p)
           e == [old EXCEPT !.read = @ \cup {k}]
<1>1. p \in Peer
  BY InboundAssumption
<1>2. old \in Session /\ old.read = KeysRead(state, p)
  BY <1>1, EstablishedType DEF Runtime
<1> HIDE DEF old
<1>3. e \in Session /\ e.sent = old.sent /\ e.read = KeysRead(state, p) \cup {k}
  BY <1>2 DEF Session
<1>4. Decrypted(state, k) = Updated(state, p, e)
  BY DEF Decrypted, old
<1> HIDE DEF e
<1>5. /\ Updated(state, p, e) \in Runtime
      /\ Updated(state, p, e).session = [state.session EXCEPT ![p] = e]
  BY <1>1, <1>3, UpdatedFields
<1>6. /\ Decrypted(state, k) \in Runtime
      /\ Decrypted(state, k).session = [state.session EXCEPT ![p] = e]
  BY <1>4, <1>5
<1>7. /\ Decrypted(state, k).session[p] = e
      /\ \A q \in Peer \ {p} : Decrypted(state, k).session[q] = state.session[q]
  BY <1>1, <1>6 DEF Runtime
<1> QED BY <1>1, <1>3, <1>6, <1>7, NoneAssumption DEF old, Established, KeysRead

\* Encrypting a message gives out one key, and uses up none.
LEMMA EncryptedFields ==
  ASSUME NEW state \in Runtime, NEW p \in Peer, Established(state, p).sent < MaxSent
  PROVE  /\ Encrypted(state, p) \in Runtime
         /\ Encrypted(state, p).session[p] \in Session
         /\ Established(Encrypted(state, p), p).sent = Established(state, p).sent + 1
         /\ KeysRead(Encrypted(state, p), p) = KeysRead(state, p)
         /\ \A q \in Peer \ {p} : Encrypted(state, p).session[q] = state.session[q]
<1> DEFINE old == Established(state, p)
           e == [old EXCEPT !.sent = @ + 1]
<1>1. old \in Session /\ old.read = KeysRead(state, p) /\ old.sent < MaxSent
  BY EstablishedType DEF Runtime
<1> HIDE DEF old
<1>2. e \in Session /\ e.sent = old.sent + 1 /\ e.read = KeysRead(state, p)
  BY <1>1, InboundAssumption DEF Session
<1>3. Encrypted(state, p) = Updated(state, p, e)
  BY DEF Encrypted, old
<1> HIDE DEF e
<1>4. /\ Updated(state, p, e) \in Runtime
      /\ Updated(state, p, e).session = [state.session EXCEPT ![p] = e]
  BY <1>2, UpdatedFields
<1>5. /\ Encrypted(state, p) \in Runtime
      /\ Encrypted(state, p).session = [state.session EXCEPT ![p] = e]
  BY <1>3, <1>4
<1>6. /\ Encrypted(state, p).session[p] = e
      /\ \A q \in Peer \ {p} : Encrypted(state, p).session[q] = state.session[q]
  BY <1>5 DEF Runtime
<1> QED BY <1>2, <1>5, <1>6, NoneAssumption DEF old, Established, KeysRead

\* The bound on faults.
LEMMA FaultType ==
  ASSUME faults \in 0 .. MaxFaults, Fault \/ NoFault
  PROVE  faults' \in 0 .. MaxFaults
<1>1. MaxFaults \in Nat
  BY InboundAssumption
<1> QED BY <1>1 DEF Fault, NoFault

(***************************************************************************)
(* What the actions do to the ratchet.                                     *)
(***************************************************************************)

\* A packet in work has its parts.
LEMMA WorkFacts ==
  ASSUME TypeOK, WorkSound, ~Idle
  PROVE  LET k == receiving.packet  b == receiving.before IN
         /\ k \in Packet /\ b \in Runtime /\ receiving.stored \in BOOLEAN
         /\ receiving \in Receiving
         /\ runtime = Decrypted(b, k)
         /\ runtime \in Runtime /\ runtime.session[PeerOf[k]] # None
<1>1. /\ receiving \in Receiving /\ receiving.packet \in Packet /\ receiving.before \in Runtime
      /\ receiving.stored \in BOOLEAN
  BY DEF TypeOK, Idle, Receiving
<1>2. runtime = Decrypted(receiving.before, receiving.packet)
  BY DEF WorkSound
<1>3. runtime \in Runtime /\ runtime.session[PeerOf[receiving.packet]] \in Session
  BY <1>1, <1>2, DecryptedFields DEF Runtime
<1> QED BY <1>1, <1>2, <1>3, NoneAssumption

\* Opening a packet changes no session on disk.
LEMMA OpenFacts ==
  ASSUME TypeOK, NEW k \in Packet, Open(k)
  PROVE  /\ ratchet' \in Ratchet /\ Durable'.session = Durable.session
         /\ Loaded \in Runtime /\ runtime' = Decrypted(Loaded, k) /\ runtime' \in Runtime
         /\ receiving' = [packet |-> k, stored |-> FALSE, before |-> Loaded]
         /\ receiving' \in Receiving /\ receiving' # None
<1>1. ratchet' = Recovered(ratchet) /\ ratchet \in Ratchet
  BY DEF Open, TypeOK
<1>2. ratchet' \in Ratchet /\ Durable'.session = Durable.session
  BY <1>1, RecoversFields
<1>3. /\ runtime' = Decrypted(Loaded, k)
      /\ receiving' = [packet |-> k, stored |-> FALSE, before |-> Loaded]
  BY DEF Open
<1>4. Loaded \in Runtime /\ runtime' \in Runtime
  BY <1>3, LoadedFields, DecryptedFields
<1>5. receiving' \in Receiving
  BY <1>3, <1>4 DEF Receiving
<1> QED BY <1>2, <1>3, <1>4, <1>5, NoneAssumption

\* Committing a packet installs its session.
LEMMA CommitFacts ==
  ASSUME TypeOK, WorkSound, Commit
  PROVE  LET p == PeerOf[receiving.packet] IN
         /\ ~Idle /\ receiving.stored
         /\ ratchet' \in Ratchet /\ faults' \in 0 .. MaxFaults
         /\ Durable'.session = [Durable.session EXCEPT ![p] = runtime.session[p]]
<1>1. ~Idle /\ receiving.stored /\ Persists(receiving.before, runtime, PeerOf[receiving.packet])
  BY DEF Commit
<1>2. ratchet \in Ratchet /\ faults \in 0 .. MaxFaults
  BY DEF TypeOK
<1>3. PeerOf[receiving.packet] \in Peer
  BY <1>1, WorkFacts, InboundAssumption
<1>4. /\ ratchet' \in Ratchet
      /\ Durable'.session = [Durable.session EXCEPT ![PeerOf[receiving.packet]] =
                               runtime.session[PeerOf[receiving.packet]]]
  BY <1>1, <1>2, <1>3, WorkFacts, PersistsFields
<1>5. faults' \in 0 .. MaxFaults
  BY <1>1, <1>2, FaultType DEF Persists
<1> QED BY <1>1, <1>4, <1>5

\* A commit that fails installs nothing, unless its journal could not be read back.
LEMMA CommitFailsFacts ==
  ASSUME TypeOK, WorkSound, CommitFails
  PROVE  LET p == PeerOf[receiving.packet] IN
         /\ ~Idle /\ receiving.stored
         /\ ratchet' \in Ratchet /\ faults' \in 0 .. MaxFaults
         /\ \/ Durable'.session = Durable.session
            \/ /\ ReadBackFails
               /\ Durable'.session = [Durable.session EXCEPT ![p] = runtime.session[p]]
<1>1. /\ ~Idle /\ receiving.stored
      /\ PersistFails(receiving.before, runtime, PeerOf[receiving.packet])
  BY DEF CommitFails
<1>2. ratchet \in Ratchet /\ faults \in 0 .. MaxFaults
  BY DEF TypeOK
<1>3. PeerOf[receiving.packet] \in Peer
  BY <1>1, WorkFacts, InboundAssumption
<1>4. /\ ratchet' \in Ratchet
      /\ \/ Durable'.session = Durable.session
         \/ /\ ReadBackFails
            /\ Durable'.session = [Durable.session EXCEPT ![PeerOf[receiving.packet]] =
                                     runtime.session[PeerOf[receiving.packet]]]
  <2>1. PICK b, a, p : b = receiving.before /\ a = runtime /\ p = PeerOf[receiving.packet]
    OBVIOUS
  <2>2. PersistFails(b, a, p)
    BY <1>1, <2>1
  <2>3. b \in Runtime /\ a \in Runtime /\ p \in Peer /\ a.session[p] # None
    BY <1>1, <1>3, <2>1, WorkFacts
  <2> QED BY <1>2, <2>1, <2>2, <2>3, PersistFailsFields
<1>5. faults' \in 0 .. MaxFaults
  BY <1>1, <1>2, FaultType DEF PersistFails
<1> QED BY <1>1, <1>4, <1>5

\* A ciphertext is returned only after its session is installed.
LEMMA SendFacts ==
  ASSUME TypeOK, NEW p \in Peer, Send(p)
  PROVE  /\ Idle /\ Loaded \in Runtime /\ Established(Loaded, p).sent < MaxSent
         /\ ratchet' \in Ratchet /\ faults' \in 0 .. MaxFaults
         /\ runtime' = Encrypted(Loaded, p) /\ runtime' \in Runtime
         /\ runtime'.session[p] # None
         /\ Durable'.session = [Durable.session EXCEPT ![p] = runtime'.session[p]]
<1>1. /\ Idle /\ Loaded \in Runtime /\ Established(Loaded, p).sent < MaxSent
      /\ runtime' = Encrypted(Loaded, p) /\ Persists(Loaded, Encrypted(Loaded, p), p)
  BY LoadedFields DEF Send
<1>2. ratchet \in Ratchet /\ faults \in 0 .. MaxFaults
  BY DEF TypeOK
<1>3. Encrypted(Loaded, p) \in Runtime /\ Encrypted(Loaded, p).session[p] # None
  <2>1. PICK state \in Runtime : state = Loaded
    BY <1>1
  <2>2. Established(state, p).sent < MaxSent
    BY <1>1, <2>1
  <2>3. Encrypted(state, p) \in Runtime /\ Encrypted(state, p).session[p] \in Session
    BY <2>2, EncryptedFields
  <2> QED BY <2>1, <2>3, NoneAssumption
<1>4. /\ ratchet' \in Ratchet
      /\ Durable'.session = [Durable.session EXCEPT ![p] = Encrypted(Loaded, p).session[p]]
  <2>1. PICK b, a : b = Loaded /\ a = Encrypted(Loaded, p)
    OBVIOUS
  <2>2. Persists(b, a, p)
    BY <1>1, <2>1
  <2>3. b \in Runtime /\ a \in Runtime /\ a.session[p] # None
    BY <1>1, <1>3, <2>1
  <2> QED BY <1>2, <2>1, <2>2, <2>3, PersistsFields
<1>5. faults' \in 0 .. MaxFaults
  BY <1>1, <1>2, FaultType DEF Persists
<1> QED BY <1>1, <1>3, <1>4, <1>5

\* A send that fails installs nothing, unless its journal could not be read back.
LEMMA SendFailsFacts ==
  ASSUME TypeOK, NEW p \in Peer, SendFails(p)
  PROVE  /\ Idle /\ Loaded \in Runtime /\ Established(Loaded, p).sent < MaxSent
         /\ ratchet' \in Ratchet /\ faults' \in 0 .. MaxFaults
         /\ runtime' \in {runtime, Loaded}
         /\ Encrypted(Loaded, p) \in Runtime /\ Encrypted(Loaded, p).session[p] # None
         /\ \/ Durable'.session = Durable.session
            \/ /\ ReadBackFails
               /\ Durable'.session =
                    [Durable.session EXCEPT ![p] = Encrypted(Loaded, p).session[p]]
<1>1. /\ Idle /\ Loaded \in Runtime /\ Established(Loaded, p).sent < MaxSent
      /\ runtime' \in {runtime, Loaded} /\ PersistFails(Loaded, Encrypted(Loaded, p), p)
  BY LoadedFields DEF SendFails
<1>2. ratchet \in Ratchet /\ faults \in 0 .. MaxFaults
  BY DEF TypeOK
<1>3. Encrypted(Loaded, p) \in Runtime /\ Encrypted(Loaded, p).session[p] # None
  <2>1. PICK state \in Runtime : state = Loaded
    BY <1>1
  <2>2. Established(state, p).sent < MaxSent
    BY <1>1, <2>1
  <2>3. Encrypted(state, p) \in Runtime /\ Encrypted(state, p).session[p] \in Session
    BY <2>2, EncryptedFields
  <2> QED BY <2>1, <2>3, NoneAssumption
<1>4. /\ ratchet' \in Ratchet
      /\ \/ Durable'.session = Durable.session
         \/ /\ ReadBackFails
            /\ Durable'.session =
                 [Durable.session EXCEPT ![p] = Encrypted(Loaded, p).session[p]]
  <2>1. PICK b, a : b = Loaded /\ a = Encrypted(Loaded, p)
    OBVIOUS
  <2>2. PersistFails(b, a, p)
    BY <1>1, <2>1
  <2>3. b \in Runtime /\ a \in Runtime /\ a.session[p] # None
    BY <1>1, <1>3, <2>1
  <2> QED BY <1>2, <2>1, <2>2, <2>3, PersistFailsFields
<1>5. faults' \in 0 .. MaxFaults
  BY <1>1, <1>2, FaultType DEF PersistFails
<1> QED BY <1>1, <1>3, <1>4, <1>5

(***************************************************************************)
(* Types.                                                                  *)
(***************************************************************************)

\* A fresh account is well-typed and has no packet in work.
LEMMA InitTypes == Init => TypeOK /\ WorkSound
<1> SUFFICES ASSUME Init PROVE TypeOK /\ WorkSound
  OBVIOUS
<1>1. {MaxSent, MaxFaults, MaxRestarts} \subseteq Nat
  BY InboundAssumption
<1>2. ratchet \in Ratchet
  BY DEF Init, Ratchet
<1>3. 0 \in 0 .. MaxSent /\ faults \in 0 .. MaxFaults /\ restarts \in 0 .. MaxRestarts
  BY <1>1 DEF Init
<1> QED BY <1>2, <1>3 DEF Init, TypeOK, WorkSound, Idle

\* What every step that leaves the ratchet and the packet in work alone keeps.
LEMMA QuietTypes ==
  ASSUME TypeOK, WorkSound, UNCHANGED <<ratchetVars, receiving, used>>,
         waiting' \subseteq Packet,
         log' \subseteq Packet, torn' \subseteq Packet, shown' \subseteq Packet,
         contacts' \in [file : SUBSET Peer, memory : SUBSET Peer],
         faults' \in 0 .. MaxFaults, restarts' = restarts,
         answered' \subseteq Packet, cancelled' \subseteq Packet,
         erased' \subseteq Packet, halved' \subseteq Peer
  PROVE  TypeOK' /\ WorkSound'
<1>1. TypeOK'
  BY DEF TypeOK, ratchetVars
<1>2. WorkSound'
  BY DEF WorkSound, Idle, ratchetVars
<1> QED BY <1>1, <1>2

\* Receiving keeps the types.
LEMMA ReceiveTypes ==
  ASSUME TypeOK, WorkSound, Receive
  PROVE  TypeOK' /\ WorkSound'
<1>1. ASSUME NEW k \in Packet, Duplicate(k) PROVE TypeOK' /\ WorkSound'
  BY <1>1, QuietTypes DEF Duplicate, Answer, TypeOK, storeVars, ratchetVars
<1>2. ASSUME NEW k \in Packet, Open(k) PROVE TypeOK' /\ WorkSound'
  <2>1. TypeOK'
    BY <1>2, OpenFacts DEF Open, TypeOK, storeVars, historyVars
  <2>2. WorkSound'
    BY <1>2, OpenFacts DEF WorkSound
  <2> QED BY <2>1, <2>2
<1>3. ASSUME NEW k \in Packet, Refuse(k) PROVE TypeOK' /\ WorkSound'
  <2>1. ratchet' \in Ratchet
    BY <1>3, RecoversFields DEF Refuse, TypeOK
  <2>2. runtime' \in Runtime
    BY <1>3, LoadedFields DEF Refuse
  <2> QED BY <1>3, <2>1, <2>2 DEF Refuse, Answer, TypeOK, WorkSound, Idle, storeVars
<1>4. ASSUME NEW k \in Packet, OpenFails(k) PROVE TypeOK' /\ WorkSound'
  <2>1. ratchet' \in Ratchet /\ faults' \in 0 .. MaxFaults
    BY <1>4, RecoversFields, FaultType DEF OpenFails, TypeOK
  <2> QED BY <1>4, <2>1 DEF OpenFails, TypeOK, WorkSound, Idle, storeVars, historyVars
<1>5. ASSUME Save PROVE TypeOK' /\ WorkSound'
  <2>1. ~Idle /\ receiving.packet \in Packet /\ PeerOf[receiving.packet] \in Peer
    BY <1>5, WorkFacts, InboundAssumption DEF Save, Unstored
  <2>2. /\ receiving' = [receiving EXCEPT !.stored = TRUE] /\ receiving' \in Receiving
        /\ receiving'.packet = receiving.packet /\ receiving'.before = receiving.before
    BY <1>5, <2>1, WorkFacts DEF Save, Receiving
  <2>3. /\ contacts' \in [file : SUBSET Peer, memory : SUBSET Peer]
        /\ log' \subseteq Packet /\ torn' \subseteq Packet /\ shown' \subseteq Packet
        /\ halved' \subseteq Peer
    BY <1>5, <2>1 DEF Save, TypeOK, Appended
  <2>4. UNCHANGED <<waiting, ratchetVars, faults, restarts, answered, cancelled, erased, used>>
    BY <1>5 DEF Save
  <2>5. TypeOK'
    BY <2>2, <2>3, <2>4 DEF TypeOK, ratchetVars
  <2>6. WorkSound'
    BY <2>1, <2>2, <2>4 DEF WorkSound, ratchetVars
  <2> QED BY <2>5, <2>6
<1>6. ASSUME SaveFails PROVE TypeOK' /\ WorkSound'
  <2>1. ~Idle /\ receiving.packet \in Packet /\ PeerOf[receiving.packet] \in Peer
    BY <1>6, WorkFacts, InboundAssumption DEF SaveFails, Unstored
  <2>2. receiving' = None /\ runtime' = receiving.before /\ receiving.before \in Runtime
    BY <1>6, <2>1, WorkFacts DEF SaveFails, Drop
  <2>3. /\ contacts' \in [file : SUBSET Peer, memory : SUBSET Peer]
        /\ log' \subseteq Packet /\ torn' \subseteq Packet /\ halved' \subseteq Peer
    BY <1>6, <2>1 DEF SaveFails, TypeOK, AppendFails, Appended
  <2>4. /\ UNCHANGED <<waiting, ratchet, shown, restarts, answered, cancelled, erased, used>>
        /\ faults' \in 0 .. MaxFaults
    BY <1>6, FaultType DEF SaveFails, TypeOK
  <2> QED BY <2>2, <2>3, <2>4 DEF TypeOK, WorkSound, Idle
<1>7. ASSUME Commit PROVE TypeOK' /\ WorkSound'
  <2>1. /\ ratchet' \in Ratchet /\ faults' \in 0 .. MaxFaults
        /\ receiving.packet \in Packet
    BY <1>7, CommitFacts, WorkFacts
  <2>2. /\ Answer(receiving.packet) /\ receiving' = None /\ MayCompact(log, shown)
        /\ UNCHANGED <<shown, contacts, runtime, restarts, cancelled, erased, halved, used>>
    BY <1>7 DEF Commit
  <2> QED BY <2>1, <2>2 DEF TypeOK, WorkSound, Idle, Answer, MayCompact, Appended
<1>8. ASSUME CommitFails PROVE TypeOK' /\ WorkSound'
  <2>1. /\ ratchet' \in Ratchet /\ faults' \in 0 .. MaxFaults /\ ~Idle
    BY <1>8, CommitFailsFacts
  <2>2. receiving' = None /\ runtime' = receiving.before /\ receiving.before \in Runtime
    BY <1>8, <2>1, WorkFacts DEF CommitFails, Drop
  <2>3. log' \subseteq Packet /\ torn' \subseteq Packet /\ shown' \subseteq Packet
    BY <1>8 DEF CommitFails, TypeOK, AppendFails, Appended
  <2>4. UNCHANGED <<waiting, contacts, restarts, historyVars>>
    BY <1>8 DEF CommitFails
  <2> QED BY <2>1, <2>2, <2>3, <2>4 DEF TypeOK, WorkSound, Idle, historyVars
<1> QED BY <1>1, <1>2, <1>3, <1>4, <1>5, <1>6, <1>7, <1>8 DEF Receive

\* So does every step.
LEMMA TypesKept ==
  ASSUME TypeOK, WorkSound, [Next]_vars
  PROVE  TypeOK' /\ WorkSound'
<1>1. CASE \E k \in Packet : Arrive(k)
  BY <1>1, QuietTypes DEF Arrive, TypeOK, storeVars, ratchetVars, historyVars
<1>2. CASE Receive
  BY <1>2, ReceiveTypes
<1>3. ASSUME NEW p \in Peer, Send(p) PROVE TypeOK' /\ WorkSound'
  <2>1. /\ ratchet' \in Ratchet /\ faults' \in 0 .. MaxFaults /\ runtime' \in Runtime /\ Idle
        /\ runtime'.session[p] # None
    BY <1>3, SendFacts
  <2>2. /\ UNCHANGED <<waiting, storeVars, receiving, restarts, answered, cancelled, erased,
                       halved>>
        /\ used' = [used EXCEPT ![p] = runtime'.session[p].sent]
    BY <1>3 DEF Send
  <2>3. runtime'.session[p].sent \in 0 .. MaxSent
    BY <2>1 DEF Runtime, Session
  <2> QED BY <2>1, <2>2, <2>3 DEF TypeOK, WorkSound, Idle, storeVars
<1>4. ASSUME NEW p \in Peer, SendFails(p) PROVE TypeOK' /\ WorkSound'
  <2>1. /\ ratchet' \in Ratchet /\ faults' \in 0 .. MaxFaults /\ Idle
        /\ runtime' \in Runtime \cup {None}
    BY <1>4, SendFailsFacts DEF TypeOK
  <2>2. UNCHANGED <<waiting, storeVars, receiving, restarts, historyVars>>
    BY <1>4 DEF SendFails
  <2> QED BY <2>1, <2>2 DEF TypeOK, WorkSound, Idle, storeVars, historyVars
<1>5. ASSUME NEW p \in Peer, Delete(p) PROVE TypeOK' /\ WorkSound'
  BY <1>5, QuietTypes DEF Delete, TypeOK, MayCompact, Appended, ratchetVars
<1>6. ASSUME NEW p \in Peer, DeleteFails(p) PROVE TypeOK' /\ WorkSound'
  BY <1>6, QuietTypes, FaultType DEF DeleteFails, TypeOK, AppendFails, Appended, ratchetVars
<1>7. CASE Lock \/ Crash
  <2>1. /\ Restart /\ receiving' = None /\ runtime' = None
        /\ UNCHANGED <<waiting, ratchet, faults, historyVars>>
        /\ contacts' = [contacts EXCEPT !.memory = contacts.file]
        /\ log' \in {log, torn} /\ torn' \in {log, torn} /\ shown' \in {log, torn}
    BY <1>7 DEF Lock, Crash, Reopened, Appended, Idle
  <2>2. restarts' \in 0 .. MaxRestarts
    BY <2>1, InboundAssumption DEF Restart, TypeOK
  <2> QED BY <2>1, <2>2 DEF TypeOK, WorkSound, Idle, historyVars
<1>8. CASE UNCHANGED vars
  BY <1>8, QuietTypes DEF TypeOK, vars, storeVars, ratchetVars, historyVars
<1> QED BY <1>1, <1>2, <1>3, <1>4, <1>5, <1>6, <1>7, <1>8 DEF Next

\* Type correctness, whatever fails.
THEOREM TypeCorrect == Spec => []TypeOK
<1>1. TypeOK /\ WorkSound /\ [Next]_vars => (TypeOK /\ WorkSound)'
  BY TypesKept
<1> QED BY <1>1, InitTypes, PTL DEF Spec

(***************************************************************************)
(* The keys of the sending chains.                                         *)
(***************************************************************************)

\* The keys are those of the sessions.
LEMMA SameSessions ==
  ASSUME NEW s, NEW t, t.session = s.session
  PROVE  \A q \in Peer : /\ Established(t, q) = Established(s, q)
                         /\ KeysRead(t, q) = KeysRead(s, q)
BY DEF Established, KeysRead

\* A session installed on disk, and the others as they were.
LEMMA InstalledFields ==
  ASSUME TypeOK, NEW p \in Peer, NEW e \in Session,
         Durable'.session = [Durable.session EXCEPT ![p] = e]
  PROVE  /\ Established(Durable', p) = e /\ KeysRead(Durable', p) = e.read
         /\ \A q \in Peer \ {p} : /\ Established(Durable', q) = Established(Durable, q)
                                  /\ KeysRead(Durable', q) = KeysRead(Durable, q)
<1>1. Durable.session \in [Peer -> Session \cup {None}]
  BY RecoveredFields DEF TypeOK, Durable, Ratchet
<1>2. /\ Durable'.session[p] = e
      /\ \A q \in Peer \ {p} : Durable'.session[q] = Durable.session[q]
  BY <1>1
<1> QED BY <1>2, NoneAssumption DEF Established, KeysRead

\* No key given out is ahead of a store.
Covers(state) == \A q \in Peer : used[q] <= Established(state, q).sent

LEMMA SentCovers ==
  SentSound <=> /\ Covers(Durable)
                /\ runtime # None => Covers(runtime)
                /\ ~Idle => Covers(receiving.before)
BY DEF SentSound, Covers

\* What the next command works with is not behind either.
LEMMA LoadedCovers ==
  ASSUME TypeOK, SentSound
  PROVE  Covers(Loaded)
<1>1. Loaded.session = IF runtime = None THEN Durable.session ELSE runtime.session
  BY LoadedFields
<1>2. CASE runtime = None
  BY <1>1, <1>2, SentCovers, SameSessions DEF Covers
<1>3. CASE runtime # None
  BY <1>1, <1>3, SentCovers, SameSessions DEF Covers
<1> QED BY <1>2, <1>3

\* Using up the key of a packet gives out none.
LEMMA DecryptedCovers ==
  ASSUME NEW k \in Packet, NEW s \in Runtime, Covers(s)
  PROVE  Covers(Decrypted(s, k))
<1> DEFINE p == PeerOf[k]
           t == Decrypted(s, k)
<1>1. /\ p \in Peer /\ t.session[p] \in Session
      /\ \A q \in Peer \ {p} : t.session[q] = s.session[q]
      /\ Established(t, p).sent = Established(s, p).sent
  BY DecryptedFields
<1> HIDE DEF p, t
<1>2. \A q \in Peer \ {p} : Established(t, q) = Established(s, q)
  BY <1>1 DEF Established
<1>3. Covers(t)
  BY <1>1, <1>2 DEF Covers
<1> QED BY <1>3 DEF t

\* Installing a session that covers its keys.
LEMMA InstalledCovers ==
  ASSUME TypeOK, Covers(Durable), NEW p \in Peer, NEW a \in Runtime, Covers(a),
         a.session[p] # None,
         Durable'.session = [Durable.session EXCEPT ![p] = a.session[p]]
  PROVE  \A q \in Peer : used[q] <= Established(Durable', q).sent
<1>1. PICK e \in Session : e = a.session[p]
  BY DEF Runtime
<1>2. Established(a, p) = e
  BY <1>1 DEF Established
<1>3. /\ Established(Durable', p) = e
      /\ \A q \in Peer \ {p} : Established(Durable', q) = Established(Durable, q)
  BY <1>1, InstalledFields
<1> QED BY <1>2, <1>3 DEF Covers

\* A step that gives out no key and installs no session.
LEMMA SentQuiet ==
  ASSUME TypeOK, SentSound, used' = used, Durable'.session = Durable.session,
         NEW r, r = runtime', NEW w, w = receiving',
         r = None \/ Covers(r), w = None \/ Covers(w.before)
  PROVE  SentSound'
<1>1. \A q \in Peer : used[q] <= Established(Durable', q).sent
  BY SentCovers, SameSessions DEF Covers
<1> QED BY <1>1 DEF SentSound, Covers, Idle

\* Receiving gives out no key.
LEMMA ReceiveSent ==
  ASSUME TypeOK, WorkSound, SentSound, Receive
  PROVE  SentSound'
<1>0. /\ ratchet \in Ratchet /\ Covers(Durable) /\ Covers(Loaded)
      /\ runtime # None => Covers(runtime)
      /\ ~Idle => Covers(receiving.before)
  BY SentCovers, LoadedCovers DEF TypeOK
<1>1. ASSUME NEW k \in Packet, Duplicate(k) PROVE SentSound'
  <2>1. UNCHANGED <<used, ratchet, runtime, receiving>>
    BY <1>1 DEF Duplicate, ratchetVars
  <2> QED BY <2>1 DEF SentSound, Idle, Durable
<1>2. ASSUME NEW k \in Packet, Open(k) PROVE SentSound'
  <2>1. used' = used /\ receiving'.before = Loaded
    BY <1>2, OpenFacts DEF Open, historyVars
  <2>2. PICK s \in Runtime : s = Loaded
    BY <1>2, OpenFacts
  <2>3. Covers(Decrypted(s, k))
    BY <1>0, <2>2, DecryptedCovers
  <2>4. Covers(runtime')
    BY <1>2, <2>2, <2>3, OpenFacts
  <2> QED BY <1>0, <1>2, <2>1, <2>4, OpenFacts, SentQuiet
<1>3. ASSUME NEW k \in Packet, Refuse(k) PROVE SentSound'
  <2>1. Durable'.session = Durable.session
    BY <1>0, <1>3, RecoversFields DEF Refuse
  <2>2. used' = used /\ runtime' = Loaded /\ receiving' = None
    BY <1>3 DEF Refuse, Idle
  <2> QED BY <1>0, <2>1, <2>2, SentQuiet
<1>4. ASSUME NEW k \in Packet, OpenFails(k) PROVE SentSound'
  <2>1. Durable'.session = Durable.session
    BY <1>0, <1>4, RecoversFields DEF OpenFails
  <2>2. used' = used /\ runtime' = runtime /\ receiving' = None
    BY <1>4 DEF OpenFails, Idle, historyVars
  <2> QED BY <1>0, <2>1, <2>2, SentQuiet
<1>5. ASSUME Save PROVE SentSound'
  <2>1. /\ used' = used /\ UNCHANGED <<ratchet, runtime>> /\ ~Idle
        /\ receiving' = [receiving EXCEPT !.stored = TRUE]
    BY <1>5 DEF Save, Unstored, ratchetVars
  <2>2. receiving'.before = receiving.before
    BY <2>1, WorkFacts DEF Receiving
  <2>3. Durable'.session = Durable.session
    BY <2>1 DEF Durable
  <2> QED BY <1>0, <2>1, <2>2, <2>3, SentQuiet
<1>6. ASSUME SaveFails PROVE SentSound'
  <2>1. /\ used' = used /\ ratchet' = ratchet /\ ~Idle
        /\ receiving' = None /\ runtime' = receiving.before
    BY <1>6 DEF SaveFails, Unstored, Drop
  <2>2. Durable'.session = Durable.session
    BY <2>1 DEF Durable
  <2> QED BY <1>0, <2>1, <2>2, SentQuiet
<1>7. ASSUME Commit PROVE SentSound'
  <2>1. UNCHANGED <<used, runtime>> /\ receiving' = None /\ ~Idle
    BY <1>7 DEF Commit
  <2>2. PICK a \in Runtime, p \in Peer : a = runtime /\ p = PeerOf[receiving.packet]
    BY <2>1, WorkFacts, InboundAssumption
  <2>3. /\ a.session[p] # None
        /\ Durable'.session = [Durable.session EXCEPT ![p] = a.session[p]]
    BY <1>7, <2>1, <2>2, CommitFacts, WorkFacts
  <2>4. a # None /\ Covers(a)
    BY <1>0, <2>2, NoneAssumption
  <2>5. \A q \in Peer : used[q] <= Established(Durable', q).sent
    BY <1>0, <2>3, <2>4, InstalledCovers
  <2> QED BY <2>1, <2>2, <2>4, <2>5 DEF SentSound, Covers, Idle
<1>8. ASSUME CommitFails PROVE SentSound'
  <2>1. used' = used /\ receiving' = None /\ ~Idle /\ runtime' = receiving.before
    BY <1>8 DEF CommitFails, Drop, historyVars
  <2>2. PICK a \in Runtime, p \in Peer : a = runtime /\ p = PeerOf[receiving.packet]
    BY <2>1, WorkFacts, InboundAssumption
  <2>3. CASE Durable'.session = Durable.session
    BY <1>0, <2>1, <2>3, SentQuiet
  <2>4. CASE Durable'.session = [Durable.session EXCEPT ![p] = a.session[p]]
    <3>1. a.session[p] # None /\ a # None /\ Covers(a)
      BY <1>0, <2>1, <2>2, WorkFacts, NoneAssumption
    <3>2. \A q \in Peer : used[q] <= Established(Durable', q).sent
      BY <1>0, <2>4, <3>1, InstalledCovers
    <3> QED BY <1>0, <2>1, <3>2 DEF SentSound, Covers, Idle
  <2> QED BY <1>8, <2>2, <2>3, <2>4, CommitFailsFacts
<1> QED BY <1>1, <1>2, <1>3, <1>4, <1>5, <1>6, <1>7, <1>8 DEF Receive

\* Sending gives out the next key, or none.
LEMMA SendSent ==
  ASSUME TypeOK, SentSound, NEW p \in Peer, Send(p)
  PROVE  /\ SentSound'
         /\ \A q \in Peer : used'[q] # used[q] => used'[q] > used[q]
<1>1. PICK a \in Runtime : a = runtime'
  BY SendFacts
<1>2. PICK s \in Runtime : s = Loaded
  BY SendFacts
<1>3. /\ Covers(Durable) /\ Covers(s)
  BY <1>2, SentCovers, LoadedCovers
<1>4. /\ used' = [used EXCEPT ![p] = a.session[p].sent] /\ receiving' = None
      /\ used \in [Peer -> 0 .. MaxSent]
  BY <1>1 DEF Send, Idle, TypeOK
<1>5. a = Encrypted(s, p) /\ Established(s, p).sent < MaxSent
  BY <1>1, <1>2, SendFacts
<1>6. PICK e \in Session : e = a.session[p]
  BY <1>5, EncryptedFields
<1>7. /\ e.sent = Established(s, p).sent + 1
      /\ \A q \in Peer \ {p} : Established(a, q) = Established(s, q)
      /\ Established(a, p) = e
  BY <1>5, <1>6, EncryptedFields, NoneAssumption DEF Established
<1>8. Durable'.session = [Durable.session EXCEPT ![p] = e]
  BY <1>1, <1>6, SendFacts
<1>9. /\ Established(Durable', p) = e
      /\ \A q \in Peer \ {p} : Established(Durable', q) = Established(Durable, q)
  BY <1>8, InstalledFields
<1>10. \A q \in Peer : /\ used'[q] <= Established(Durable', q).sent
                       /\ used'[q] <= Established(a, q).sent
                       /\ used'[q] # used[q] => used'[q] > used[q]
  <2>1. used'[p] = e.sent /\ e.sent \in Nat /\ used[p] \in Nat
    BY <1>4, <1>6, InboundAssumption DEF Session
  <2>2. used[p] <= Established(s, p).sent /\ Established(s, p).sent \in Nat
    BY <1>3, EstablishedType, InboundAssumption DEF Covers, Runtime, Session
  <2>3. used'[p] > used[p]
    BY <1>7, <2>1, <2>2
  <2>4. used'[p] <= e.sent
    BY <2>1
  <2>5. ASSUME NEW q \in Peer \ {p}
        PROVE  /\ used'[q] = used[q]
               /\ used[q] <= Established(Durable', q).sent
               /\ used[q] <= Established(a, q).sent
    <3>1. used'[q] = used[q]
      BY <1>4
    <3>2. /\ used[q] <= Established(Durable, q).sent
          /\ used[q] <= Established(s, q).sent
      BY <1>3 DEF Covers
    <3> QED BY <1>7, <1>9, <3>1, <3>2
  <2> QED BY <1>7, <1>9, <2>3, <2>4, <2>5
<1>11. SentSound'
  BY <1>1, <1>4, <1>10 DEF SentSound, Idle
<1> QED BY <1>10, <1>11

\* Sending without success gives out none.
LEMMA SendFailsSent ==
  ASSUME TypeOK, SentSound, NEW p \in Peer, SendFails(p)
  PROVE  SentSound'
<1>1. used' = used /\ receiving' = None /\ runtime' \in {runtime, Loaded}
  BY DEF SendFails, Idle, historyVars
<1>2. /\ Covers(Durable) /\ Covers(Loaded)
      /\ runtime # None => Covers(runtime)
  BY SentCovers, LoadedCovers
<1>3. PICK s \in Runtime : s = Loaded
  BY SendFailsFacts
<1>4. PICK r : r = runtime'
  OBVIOUS
<1>5. Covers(s)
  BY <1>2, <1>3
<1>6. r = None \/ Covers(r)
  <2>1. CASE r = s
    BY <1>5, <2>1
  <2>2. CASE r = runtime
    <3>1. CASE runtime = None
      BY <2>2, <3>1
    <3>2. CASE runtime # None
      BY <1>2, <2>2, <3>2
    <3> QED BY <3>1, <3>2
  <2> QED BY <1>1, <1>3, <1>4, <2>1, <2>2
<1>7. CASE Durable'.session = Durable.session
  BY <1>1, <1>4, <1>6, <1>7, SentQuiet
<1>8. CASE Durable'.session = [Durable.session EXCEPT ![p] = Encrypted(s, p).session[p]]
  <2>1. PICK a \in Runtime : a = Encrypted(s, p)
    BY <1>3, SendFailsFacts
  <2>2. /\ a.session[p] # None /\ Established(s, p).sent < MaxSent
        /\ Durable'.session = [Durable.session EXCEPT ![p] = a.session[p]]
    BY <1>3, <1>8, <2>1, SendFailsFacts
  <2>3. Covers(a)
    <3>1. /\ Established(a, p).sent = Established(s, p).sent + 1
          /\ \A q \in Peer \ {p} : a.session[q] = s.session[q]
      BY <2>1, <2>2, EncryptedFields
    <3>2. Established(s, p).sent \in Nat /\ used[p] \in Nat
      BY EstablishedType, InboundAssumption DEF Runtime, Session, TypeOK
    <3>3. used[p] <= Established(a, p).sent
      BY <1>5, <3>1, <3>2 DEF Covers
    <3>4. ASSUME NEW q \in Peer \ {p} PROVE used[q] <= Established(a, q).sent
      <4>1. Established(a, q) = Established(s, q)
        BY <3>1 DEF Established
      <4> QED BY <1>5, <4>1 DEF Covers
    <3> QED BY <3>3, <3>4 DEF Covers
  <2>4. Covers(Durable)
    BY <1>2
  <2>5. \A q \in Peer : used[q] <= Established(Durable', q).sent
    BY <2>2, <2>3, <2>4, InstalledCovers
  <2>6. runtime' # None => \A q \in Peer : used[q] <= Established(runtime', q).sent
    BY <1>4, <1>6 DEF Covers
  <2> QED BY <1>1, <2>5, <2>6 DEF SentSound, Idle
<1> QED BY <1>3, <1>7, <1>8, SendFailsFacts

\* Every step keeps the invariant, and gives out only keys above the last one.
LEMMA SentKept ==
  ASSUME TypeOK, WorkSound, SentSound, [Next]_vars
  PROVE  /\ SentSound'
         /\ \A q \in Peer : used'[q] # used[q] => used'[q] > used[q]
<1>1. ASSUME UNCHANGED <<used, ratchet, runtime, receiving>> PROVE SentSound'
  BY <1>1 DEF SentSound, Idle, Durable
<1>2. CASE \E k \in Packet : Arrive(k)
  BY <1>1, <1>2 DEF Arrive, ratchetVars, historyVars
<1>3. CASE Receive
  <2>1. used' = used
    BY <1>3 DEF Receive, Duplicate, Open, Refuse, OpenFails, Save, SaveFails, Commit, CommitFails,
                historyVars
  <2> QED BY <1>3, <2>1, ReceiveSent
<1>4. CASE \E p \in Peer : Send(p)
  BY <1>4, SendSent
<1>5. CASE \E p \in Peer : SendFails(p)
  BY <1>5, SendFailsSent DEF SendFails, historyVars
<1>6. CASE \E p \in Peer : Delete(p) \/ DeleteFails(p)
  BY <1>1, <1>6 DEF Delete, DeleteFails, ratchetVars
<1>7. CASE Lock \/ Crash
  <2>1. used' = used /\ ratchet' = ratchet /\ runtime' = None /\ receiving' = None
    BY <1>7 DEF Lock, Crash, Reopened, Idle, historyVars
  <2> QED BY <2>1 DEF SentSound, Idle, Durable
<1>8. CASE UNCHANGED vars
  BY <1>1, <1>8 DEF vars, ratchetVars, historyVars
<1> QED BY <1>2, <1>3, <1>4, <1>5, <1>6, <1>7, <1>8 DEF Next

\* A fresh account gave out no key.
LEMMA InitSent == Init => SentSound
<1> SUFFICES ASSUME Init, NEW p \in Peer PROVE used[p] <= Established(Durable, p).sent
  BY DEF Init, SentSound, Idle
<1>1. Durable.session[p] = None
  BY DEF Init, Durable, Recovered
<1> QED BY <1>1 DEF Init, Established, NewSession

\* No key of a sending chain is used twice, whatever fails or restarts in between,
\* even when the journal of a failed transaction could not be read back.
\* (persist_transaction before the ciphertext is returned)
THEOREM KeysAreFresh == Spec => KeysAdvance
<1> DEFINE Inv == TypeOK /\ WorkSound /\ SentSound
<1>1. Init => Inv
  BY InitTypes, InitSent
<1>2. Inv /\ [Next]_vars => Inv'
  BY TypesKept, SentKept
<1>3. Inv /\ [Next]_vars => [\A p \in Peer : used'[p] # used[p] => used'[p] > used[p]]_used
  BY SentKept
<1> QED BY <1>1, <1>2, <1>3, PTL DEF Spec, KeysAdvance

(***************************************************************************)
(* The keys of received packets.  From here on the read that rescues a     *)
(* failed sync of the journal does not fail itself: a transaction that     *)
(* returns an error has changed no session.                                *)
(***************************************************************************)

\* No key used up: the same packets are spent.
LEMMA SpentSame ==
  ASSUME \A p \in Peer : KeysRead(Durable', p) = KeysRead(Durable, p)
  PROVE  Spent' = Spent
BY InboundAssumption DEF Spent

\* Every step of the ratchet but two leaves the sessions on disk as they are.
LEMMA QuietSessions ==
  ASSUME TypeOK, WorkSound, ~ReadBackFails,
         \/ UNCHANGED ratchet
         \/ \E k \in Packet : Open(k) \/ Refuse(k) \/ OpenFails(k)
         \/ CommitFails
         \/ \E p \in Peer : SendFails(p)
  PROVE  Durable'.session = Durable.session
<1>1. CASE UNCHANGED ratchet
  BY <1>1 DEF Durable
<1>2. ASSUME NEW k \in Packet, Open(k) \/ Refuse(k) \/ OpenFails(k)
      PROVE  Durable'.session = Durable.session
  BY <1>2, RecoversFields DEF TypeOK, Open, Refuse, OpenFails
<1>3. CASE CommitFails
  BY <1>3, CommitFailsFacts
<1>4. ASSUME NEW p \in Peer, SendFails(p) PROVE Durable'.session = Durable.session
  BY <1>4, SendFailsFacts
<1> QED BY <1>1, <1>2, <1>3, <1>4

\* So they use up no key.
LEMMA QuietKeys ==
  ASSUME Durable'.session = Durable.session
  PROVE  /\ Spent' = Spent
         /\ \A p \in Peer : KeysRead(Durable', p) = KeysRead(Durable, p)
BY SameSessions, SpentSame

\* Without a packet in work a command starts from the sessions on disk.
LEMMA LoadedIsDurable ==
  ASSUME TypeOK, RatchetSound, Idle
  PROVE  Loaded.session = Durable.session
BY LoadedFields DEF RatchetSound

\* Sending uses up no key of a received packet, and memory agrees with the files.
LEMMA SendKeys ==
  ASSUME TypeOK, RatchetSound, NEW p \in Peer, Send(p)
  PROVE  /\ Spent' = Spent
         /\ \A q \in Peer : KeysRead(Durable', q) = KeysRead(Durable, q)
         /\ runtime'.session = Durable'.session
<1>1. PICK a \in Runtime, s \in Runtime : a = runtime' /\ s = Loaded
  BY SendFacts
<1>2. a = Encrypted(s, p) /\ Established(s, p).sent < MaxSent
  BY <1>1, SendFacts
<1>3. PICK e \in Session : e = a.session[p]
  BY <1>2, EncryptedFields
<1>4. /\ KeysRead(a, p) = KeysRead(s, p)
      /\ \A q \in Peer \ {p} : a.session[q] = s.session[q]
  BY <1>2, EncryptedFields
<1>5. s.session = Durable.session
  BY <1>1, LoadedIsDurable DEF Send
<1>6. Durable'.session = [Durable.session EXCEPT ![p] = e]
  BY <1>1, <1>3, SendFacts
<1>7. /\ KeysRead(Durable', p) = e.read
      /\ \A q \in Peer \ {p} : KeysRead(Durable', q) = KeysRead(Durable, q)
  BY <1>6, InstalledFields
<1>8. e.read = KeysRead(Durable, p)
  BY <1>3, <1>4, <1>5, SameSessions, NoneAssumption DEF KeysRead
<1>9. \A q \in Peer : KeysRead(Durable', q) = KeysRead(Durable, q)
  BY <1>7, <1>8
<1>10. a.session = [s.session EXCEPT ![p] = e]
  BY <1>3, <1>4 DEF Runtime
<1> QED BY <1>1, <1>5, <1>6, <1>9, <1>10, SpentSame

\* Committing the packet in work uses up its key, and no other.
LEMMA CommitKeys ==
  ASSUME TypeOK, WorkSound, RatchetSound, Commit
  PROVE  /\ Spent' = Spent \cup {receiving.packet}
         /\ \A q \in Peer : KeysRead(Durable', q) \subseteq MessagesOf(q)
         /\ runtime'.session = Durable'.session
<1>1. PICK a \in Runtime, b \in Runtime, k \in Packet :
        a = runtime /\ b = receiving.before /\ k = receiving.packet
  BY WorkFacts, CommitFacts
<1>2. a = Decrypted(b, k) /\ b.session = Durable.session
  BY <1>1, WorkFacts, CommitFacts DEF RatchetSound
<1>3. PICK p \in Peer : p = PeerOf[k]
  BY InboundAssumption
<1>4. PICK e \in Session : e = a.session[p]
  BY <1>2, <1>3, DecryptedFields
<1>5. /\ KeysRead(a, p) = KeysRead(b, p) \cup {k}
      /\ \A q \in Peer \ {p} : a.session[q] = b.session[q]
  BY <1>2, <1>3, DecryptedFields
<1>6. Durable'.session = [Durable.session EXCEPT ![p] = e]
  BY <1>1, <1>3, <1>4, CommitFacts
<1>7. /\ KeysRead(Durable', p) = e.read
      /\ \A q \in Peer \ {p} : KeysRead(Durable', q) = KeysRead(Durable, q)
  BY <1>6, InstalledFields
<1>8. e.read = KeysRead(Durable, p) \cup {k}
  BY <1>2, <1>4, <1>5, SameSessions, NoneAssumption DEF KeysRead
<1>9. Spent' = Spent \cup {k}
  BY <1>3, <1>7, <1>8, InboundAssumption DEF Spent
<1>10. \A q \in Peer : KeysRead(Durable', q) \subseteq MessagesOf(q)
  BY <1>3, <1>7, <1>8 DEF RatchetSound, MessagesOf
<1>11. runtime'.session = Durable'.session
  <2>1. a.session = [b.session EXCEPT ![p] = e]
    BY <1>4, <1>5 DEF Runtime
  <2>2. runtime' = a
    BY <1>1 DEF Commit
  <2> QED BY <1>2, <1>6, <2>1, <2>2
<1> QED BY <1>1, <1>9, <1>10, <1>11

\* Memory and files stay in step.
LEMMA RatchetKept ==
  ASSUME TypeOK, WorkSound, RatchetSound, ~ReadBackFails, [Next]_vars
  PROVE  RatchetSound'
<1>1. ASSUME Durable'.session = Durable.session,
             NEW r, r = runtime', NEW w, w = receiving',
             w = None => r = None \/ r.session = Durable.session,
             w # None => w.before.session = Durable.session /\ w.packet \notin Spent
      PROVE  RatchetSound'
  <2>1. Spent' = Spent /\ \A p \in Peer : KeysRead(Durable', p) = KeysRead(Durable, p)
    BY <1>1, QuietKeys
  <2> QED BY <1>1, <2>1 DEF RatchetSound, Idle, MessagesOf
<1>2. ASSUME UNCHANGED <<ratchet, runtime, receiving>> PROVE RatchetSound'
  BY <1>1, <1>2, QuietSessions DEF RatchetSound, Idle
<1>3. CASE \E k \in Packet : Arrive(k) \/ Duplicate(k)
  BY <1>2, <1>3 DEF Arrive, Duplicate, ratchetVars
<1>4. ASSUME NEW k \in Packet, Open(k) PROVE RatchetSound'
  <2>1. Loaded.session = Durable.session /\ k \notin KeysRead(Loaded, PeerOf[k])
    BY <1>4, LoadedIsDurable DEF Open
  <2>2. k \notin Spent
    BY <2>1, SameSessions, InboundAssumption DEF Spent
  <2>3. receiving' = [packet |-> k, stored |-> FALSE, before |-> Loaded] /\ receiving' # None
    BY <1>4, OpenFacts
  <2> QED BY <1>1, <1>4, <2>1, <2>2, <2>3, QuietSessions
<1>5. ASSUME NEW k \in Packet, Refuse(k) PROVE RatchetSound'
  <2>1. runtime' = Loaded /\ receiving' = None /\ Loaded.session = Durable.session
    BY <1>5, LoadedIsDurable DEF Refuse, Idle
  <2> QED BY <1>1, <1>5, <2>1, QuietSessions
<1>6. ASSUME NEW k \in Packet, OpenFails(k) PROVE RatchetSound'
  <2>1. runtime' = runtime /\ receiving' = None /\ Idle
    BY <1>6 DEF OpenFails, Idle
  <2> QED BY <1>1, <1>6, <2>1, QuietSessions DEF RatchetSound
<1>7. CASE Save
  <2>1. /\ ~Idle /\ UNCHANGED ratchet
        /\ receiving' = [receiving EXCEPT !.stored = TRUE]
    BY <1>7 DEF Save, Unstored, ratchetVars
  <2>2. /\ receiving'.before = receiving.before /\ receiving'.packet = receiving.packet
        /\ receiving' # None
    BY <2>1, WorkFacts, NoneAssumption DEF Receiving
  <2> QED BY <1>1, <2>1, <2>2, QuietSessions DEF RatchetSound
<1>8. CASE SaveFails \/ CommitFails
  <2>1. ~Idle /\ receiving' = None /\ runtime' = receiving.before
    BY <1>8 DEF SaveFails, CommitFails, Unstored, Drop
  <2>2. Durable'.session = Durable.session
    BY <1>8, QuietSessions DEF SaveFails
  <2> QED BY <1>1, <2>1, <2>2 DEF RatchetSound
<1>9. CASE Commit
  <2>1. receiving' = None
    BY <1>9 DEF Commit
  <2> QED BY <1>9, <2>1, CommitKeys DEF RatchetSound, Idle, MessagesOf
<1>10. ASSUME NEW p \in Peer, Send(p) PROVE RatchetSound'
  <2>1. receiving' = None
    BY <1>10 DEF Send, Idle
  <2> QED BY <1>10, <2>1, SendKeys DEF RatchetSound, Idle, MessagesOf
<1>11. ASSUME NEW p \in Peer, SendFails(p) PROVE RatchetSound'
  <2>1. /\ Idle /\ receiving' = None /\ runtime' \in {runtime, Loaded}
        /\ Loaded.session = Durable.session
    BY <1>11, LoadedIsDurable DEF SendFails, Idle
  <2> QED BY <1>1, <1>11, <2>1, QuietSessions DEF RatchetSound
<1>12. CASE \E p \in Peer : Delete(p) \/ DeleteFails(p)
  BY <1>2, <1>12 DEF Delete, DeleteFails, ratchetVars
<1>13. CASE Lock \/ Crash
  <2>1. ratchet' = ratchet /\ runtime' = None /\ receiving' = None
    BY <1>13 DEF Lock, Crash, Reopened, Idle
  <2> QED BY <1>1, <2>1, QuietSessions
<1>14. CASE UNCHANGED vars
  BY <1>2, <1>14 DEF vars, ratchetVars
<1> QED BY <1>3, <1>4, <1>5, <1>6, <1>7, <1>8, <1>9, <1>10, <1>11, <1>12, <1>13, <1>14
        DEF Next, Receive

(***************************************************************************)
(* Messages, their keys and their contacts.                                *)
(***************************************************************************)

\* The packet in work is one of the packets, and its sender a contact.
LEMMA WorkPacket ==
  ASSUME TypeOK, ~Idle
  PROVE  receiving.packet \in Packet /\ PeerOf[receiving.packet] \in Peer
BY InboundAssumption DEF TypeOK, Idle, Receiving

\* A step that changes neither the messages nor their packets nor the keys.
LEMMA QuietStore ==
  ASSUME StoreSound, Spent' = Spent, UNCHANGED <<storeVars, answered, cancelled>>,
         \/ UNCHANGED receiving
         \/ receiving' = None
  PROVE  StoreSound'
BY DEF StoreSound, storeVars, Idle

\* Receiving loses no message that was answered or whose key is used up.
LEMMA ReceiveStore ==
  ASSUME TypeOK, WorkSound, RatchetSound, StoreSound, ~ReadBackFails, Receive
  PROVE  StoreSound'
<1>1. ASSUME NEW k \in Packet, Duplicate(k) PROVE StoreSound'
  <2>1. /\ k \in shown /\ answered' = answered \cup {k} /\ Idle
        /\ UNCHANGED <<storeVars, ratchet, receiving, cancelled>>
    BY <1>1 DEF Duplicate, Answer, ratchetVars
  <2>2. Spent' = Spent
    BY <2>1, QuietSessions, QuietKeys
  <2> QED BY <2>1, <2>2 DEF StoreSound, storeVars, Idle
<1>2. ASSUME NEW k \in Packet, Open(k) PROVE StoreSound'
  <2>1. /\ k \notin shown /\ receiving'.packet = k /\ receiving'.stored = FALSE
        /\ UNCHANGED <<storeVars, answered, cancelled>>
    BY <1>2 DEF Open, historyVars
  <2>2. Spent' = Spent
    BY <1>2, QuietSessions, QuietKeys
  <2> QED BY <2>1, <2>2 DEF StoreSound, storeVars
<1>3. ASSUME NEW k \in Packet, Refuse(k) PROVE StoreSound'
  <2>1. /\ k \in KeysRead(Loaded, PeerOf[k]) /\ answered' = answered \cup {k} /\ Idle
        /\ UNCHANGED <<storeVars, receiving, cancelled>>
    BY <1>3 DEF Refuse, Answer
  <2>2. k \in Spent
    BY <2>1, LoadedIsDurable, SameSessions, InboundAssumption DEF Spent
  <2>3. Spent' = Spent
    BY <1>3, QuietSessions, QuietKeys
  <2> QED BY <2>1, <2>2, <2>3 DEF StoreSound, storeVars, Idle
<1>4. ASSUME NEW k \in Packet, OpenFails(k) PROVE StoreSound'
  BY <1>4, QuietSessions, QuietKeys, QuietStore DEF OpenFails, historyVars
<1>5. CASE Save
  <2>1. PICK k : k = receiving.packet
    OBVIOUS
  <2>2. /\ ~Idle /\ k \in Packet /\ receiving' = [receiving EXCEPT !.stored = TRUE]
        /\ log' = log \cup {k} /\ torn' = log \cup {k} /\ shown' = shown \cup {k}
        /\ UNCHANGED <<ratchet, answered, cancelled>>
    BY <1>5, <2>1, WorkPacket DEF Save, Unstored, Appended, ratchetVars
  <2>3. receiving'.packet = k
    BY <2>1, <2>2, WorkFacts DEF Receiving
  <2>4. Spent' = Spent
    BY <2>2, QuietSessions, QuietKeys
  <2> QED BY <2>1, <2>2, <2>3, <2>4 DEF StoreSound
<1>6. CASE SaveFails
  <2>1. PICK k : k = receiving.packet
    OBVIOUS
  <2>2. /\ ~Idle /\ receiving' = None /\ UNCHANGED <<ratchet, shown, answered, cancelled>>
        /\ \/ UNCHANGED <<log, torn>>
           \/ AppendFails(log \cup {k})
    BY <1>6, <2>1 DEF SaveFails, Unstored, Drop
  <2>3. Spent' = Spent
    BY <2>2, QuietSessions, QuietKeys
  <2> QED BY <2>2, <2>3 DEF StoreSound, Idle, AppendFails, Appended
<1>7. CASE Commit
  <2>1. PICK k : k = receiving.packet
    OBVIOUS
  <2>2. /\ k \in shown /\ receiving' = None /\ answered' = answered \cup {k}
        /\ UNCHANGED <<shown, cancelled>> /\ MayCompact(log, shown)
    BY <1>7, <2>1 DEF Commit, Answer, StoreSound
  <2>3. Spent' = Spent \cup {k}
    BY <1>7, <2>1, CommitKeys
  <2> QED BY <2>2, <2>3 DEF StoreSound, Idle, MayCompact, Appended
<1>8. CASE CommitFails
  <2>1. PICK k : k = receiving.packet
    OBVIOUS
  <2>2. /\ ~Idle /\ receiving' = None /\ shown' = shown \ {k}
        /\ Appended(log \ {k}) \/ AppendFails(log \ {k})
        /\ UNCHANGED <<answered, cancelled>>
    BY <1>8, <2>1 DEF CommitFails, Drop, historyVars
  <2>3. Spent' = Spent /\ k \notin Spent /\ k \notin answered \ cancelled
    BY <1>8, <2>1, <2>2, QuietSessions, QuietKeys DEF RatchetSound, StoreSound
  <2> QED BY <2>2, <2>3 DEF StoreSound, Idle, AppendFails, Appended
<1> QED BY <1>1, <1>2, <1>3, <1>4, <1>5, <1>6, <1>7, <1>8 DEF Receive

\* No step does.
LEMMA StoreKept ==
  ASSUME TypeOK, WorkSound, RatchetSound, StoreSound, ~ReadBackFails, [Next]_vars
  PROVE  StoreSound'
<1>1. CASE \E k \in Packet : Arrive(k)
  BY <1>1, QuietSessions, QuietKeys, QuietStore DEF Arrive, ratchetVars, historyVars
<1>2. CASE Receive
  BY <1>2, ReceiveStore
<1>3. ASSUME NEW p \in Peer, Send(p) PROVE StoreSound'
  BY <1>3, SendKeys, QuietStore DEF Send
<1>4. ASSUME NEW p \in Peer, SendFails(p) PROVE StoreSound'
  BY <1>4, QuietSessions, QuietKeys, QuietStore DEF SendFails, historyVars
<1>5. ASSUME NEW p \in Peer, Delete(p) PROVE StoreSound'
  <2>1. /\ Idle /\ receiving' = None /\ UNCHANGED <<ratchet, answered>>
        /\ shown' = shown \ MessagesOf(p) /\ MayCompact(log \ MessagesOf(p), shown')
        /\ cancelled' = cancelled \cup ((log \cup shown) \cap MessagesOf(p))
    BY <1>5 DEF Delete, Idle, ratchetVars
  <2>2. Spent' = Spent
    BY <2>1, QuietSessions, QuietKeys
  <2> QED BY <2>1, <2>2 DEF StoreSound, Idle, MayCompact, Appended
<1>6. ASSUME NEW p \in Peer, DeleteFails(p) PROVE StoreSound'
  <2>1. /\ Idle /\ receiving' = None /\ UNCHANGED <<ratchet, shown, answered>>
        /\ UNCHANGED <<log, torn>> \/ AppendFails(log \ MessagesOf(p))
        /\ cancelled' = cancelled \cup ((log \cup shown) \cap MessagesOf(p))
    BY <1>6 DEF DeleteFails, Idle, ratchetVars
  <2>2. Spent' = Spent
    BY <2>1, QuietSessions, QuietKeys
  <2> QED BY <2>1, <2>2 DEF StoreSound, Idle, AppendFails, Appended
<1>7. CASE Lock \/ Crash
  <2>1. /\ receiving' = None /\ UNCHANGED <<ratchet, answered, cancelled>>
        /\ shown' \in {log, torn} /\ log' = shown' /\ torn' = shown'
    BY <1>7 DEF Lock, Crash, Reopened, Appended, Idle, historyVars
  <2>2. Spent' = Spent
    BY <2>1, QuietSessions, QuietKeys
  <2> QED BY <2>1, <2>2 DEF StoreSound, Idle
<1>8. CASE UNCHANGED vars
  BY <1>8, QuietSessions, QuietKeys, QuietStore DEF vars, ratchetVars, historyVars
<1> QED BY <1>1, <1>2, <1>3, <1>4, <1>5, <1>6, <1>7, <1>8 DEF Next

\* What a step may add to the messages, and when keys are used up.
LEMMA MessagesGrow ==
  ASSUME TypeOK, WorkSound, RatchetSound, ~ReadBackFails, [Next]_vars
  PROVE  /\ Spent \subseteq Spent'
         /\ \/ shown' \cup log' \cup torn' \subseteq shown \cup log \cup torn
            \/ /\ ~Idle /\ UNCHANGED erased
               /\ shown' \cup log' \cup torn' \subseteq
                    shown \cup log \cup torn \cup {receiving.packet}
<1>1. CASE UNCHANGED <<ratchet, shown, log, torn>>
  BY <1>1, QuietSessions, QuietKeys
<1>2. CASE \E k \in Packet : Arrive(k) \/ Duplicate(k)
  BY <1>1, <1>2 DEF Arrive, Duplicate, storeVars, ratchetVars
<1>3. CASE \E k \in Packet : Open(k) \/ Refuse(k) \/ OpenFails(k)
  <2>1. UNCHANGED <<shown, log, torn>>
    BY <1>3 DEF Open, Refuse, OpenFails, storeVars
  <2> QED BY <1>3, <2>1, QuietSessions, QuietKeys
<1>4. CASE Save \/ SaveFails
  <2>1. ~Idle /\ UNCHANGED <<ratchet, erased>>
    BY <1>4 DEF Save, SaveFails, Unstored, ratchetVars
  <2>2. shown' \cup log' \cup torn' \subseteq shown \cup log \cup torn \cup {receiving.packet}
    BY <1>4 DEF Save, SaveFails, AppendFails, Appended
  <2> QED BY <2>1, <2>2, QuietSessions, QuietKeys
<1>5. CASE Commit
  <2>1. shown' \cup log' \cup torn' \subseteq shown \cup log \cup torn
    BY <1>5 DEF Commit, MayCompact, Appended
  <2> QED BY <1>5, <2>1, CommitKeys
<1>6. CASE CommitFails
  <2>1. shown' \cup log' \cup torn' \subseteq shown \cup log \cup torn
    BY <1>6 DEF CommitFails, AppendFails, Appended
  <2> QED BY <1>6, <2>1, QuietSessions, QuietKeys
<1>7. CASE \E p \in Peer : Send(p)
  BY <1>7, SendKeys DEF Send, storeVars
<1>8. CASE \E p \in Peer : SendFails(p)
  BY <1>8, QuietSessions, QuietKeys DEF SendFails, storeVars
<1>9. CASE \E p \in Peer : Delete(p) \/ DeleteFails(p)
  <2>1. shown' \cup log' \cup torn' \subseteq shown \cup log \cup torn
    BY <1>9 DEF Delete, DeleteFails, MayCompact, AppendFails, Appended
  <2>2. UNCHANGED ratchet
    BY <1>9 DEF Delete, DeleteFails, ratchetVars
  <2> QED BY <2>1, <2>2, QuietSessions, QuietKeys
<1>10. CASE Lock \/ Crash
  <2>1. UNCHANGED ratchet /\ shown' \cup log' \cup torn' \subseteq shown \cup log \cup torn
    BY <1>10 DEF Lock, Crash, Reopened, Appended
  <2> QED BY <2>1, QuietSessions, QuietKeys
<1>11. CASE UNCHANGED vars
  BY <1>1, <1>11 DEF vars, storeVars, ratchetVars
<1> QED BY <1>2, <1>3, <1>4, <1>5, <1>6, <1>7, <1>8, <1>9, <1>10, <1>11 DEF Next, Receive

\* Nothing brings back a message that was erased with its key.
LEMMA EraseKept ==
  ASSUME TypeOK, WorkSound, RatchetSound, EraseSound, ~ReadBackFails, [Next]_vars
  PROVE  EraseSound'
<1>1. CASE UNCHANGED erased
  <2>1. ~Idle => receiving.packet \notin erased
    BY DEF RatchetSound, EraseSound
  <2> QED BY <1>1, <2>1, MessagesGrow DEF EraseSound
<1>2. CASE \E p \in Peer : Delete(p)
  <2>1. PICK p \in Peer : Delete(p)
    BY <1>2
  <2>2. /\ shown' = shown \ MessagesOf(p)
        /\ log' \subseteq (log \cup shown) \ MessagesOf(p) /\ torn' = log'
        /\ erased' = erased \cup (shown \cap KeysRead(Durable, p))
    BY <2>1 DEF Delete, MayCompact, Appended, Durable
  <2>3. /\ KeysRead(Durable, p) \subseteq MessagesOf(p)
        /\ MessagesOf(p) \cap KeysRead(Durable, p) \subseteq Spent
    BY DEF RatchetSound, MessagesOf, Spent
  <2> QED BY <2>2, <2>3, MessagesGrow DEF EraseSound
<1>3. UNCHANGED erased \/ \E p \in Peer : Delete(p)
  BY DEF Next, Arrive, Receive, Duplicate, Open, Refuse, OpenFails, Save, SaveFails, Commit,
         CommitFails, Send, SendFails, DeleteFails, Lock, Crash, vars, historyVars
<1> QED BY <1>1, <1>2, <1>3

\* No step leaves a message without its contact.
LEMMA ContactsKept ==
  ASSUME TypeOK, ContactsSound, [Next]_vars
  PROVE  ContactsSound'
<1>0. contacts \in [file : SUBSET Peer, memory : SUBSET Peer]
  BY DEF TypeOK
<1>1. CASE UNCHANGED <<storeVars, halved>>
  BY <1>1 DEF ContactsSound, storeVars
<1>2. CASE \E k \in Packet : Arrive(k) \/ Duplicate(k) \/ Open(k) \/ Refuse(k) \/ OpenFails(k)
  BY <1>1, <1>2 DEF Arrive, Duplicate, Open, Refuse, OpenFails, historyVars
<1>3. CASE Save
  <2>1. PICK k, p : k = receiving.packet /\ p = PeerOf[k]
    OBVIOUS
  <2>2. /\ contacts' = [file |-> contacts.memory \cup {p}, memory |-> contacts.memory \cup {p}]
        /\ log' = log \cup {k} /\ torn' = log \cup {k} /\ shown' = shown \cup {k}
        /\ halved' = halved \ {p}
    BY <1>3, <2>1 DEF Save, Appended
  <2>3. contacts'.file = contacts.memory \cup {p} /\ contacts'.memory = contacts.memory \cup {p}
    BY <2>2
  <2> QED BY <2>1, <2>2, <2>3 DEF ContactsSound
<1>4. CASE SaveFails
  <2>1. PICK k, p : k = receiving.packet /\ p = PeerOf[k]
    OBVIOUS
  <2>2. /\ \/ /\ contacts' \in {[file |-> file, memory |-> contacts.memory \cup {p}] :
                                  file \in {contacts.file, contacts.memory \cup {p}}}
              /\ UNCHANGED <<log, torn>>
           \/ /\ contacts' = [file |-> contacts.memory \cup {p},
                              memory |-> contacts.memory \cup {p}]
              /\ AppendFails(log \cup {k})
        /\ halved' = halved \ (contacts'.file \ contacts.file) /\ shown' = shown
    BY <1>4, <2>1 DEF SaveFails
  <2>3. /\ contacts'.memory = contacts.memory \cup {p}
        /\ \/ contacts'.file = contacts.file /\ UNCHANGED <<log, torn>>
           \/ /\ contacts'.file = contacts.memory \cup {p}
              /\ log' \cup torn' \subseteq log \cup torn \cup {k}
    BY <2>2 DEF AppendFails, Appended
  <2> QED BY <2>1, <2>2, <2>3 DEF ContactsSound
<1>5. CASE Commit \/ CommitFails
  <2>1. /\ UNCHANGED <<contacts, halved>>
        /\ shown' \cup log' \cup torn' \subseteq shown \cup log \cup torn
    BY <1>5 DEF Commit, CommitFails, MayCompact, AppendFails, Appended, historyVars
  <2> QED BY <2>1 DEF ContactsSound
<1>6. CASE \E p \in Peer : Send(p) \/ SendFails(p)
  BY <1>1, <1>6 DEF Send, SendFails, historyVars
<1>7. ASSUME NEW p \in Peer, Delete(p) PROVE ContactsSound'
  <2>1. /\ contacts' = [file |-> contacts.memory \ {p}, memory |-> contacts.memory \ {p}]
        /\ shown' = shown \ MessagesOf(p) /\ torn' = log'
        /\ log' \subseteq (log \cup shown) \ MessagesOf(p)
        /\ halved' = halved \ {p}
    BY <1>7 DEF Delete, MayCompact, Appended
  <2>2. contacts'.file = contacts.memory \ {p} /\ contacts'.memory = contacts.memory \ {p}
    BY <2>1
  <2>3. log \cup shown \subseteq Packet
    BY DEF TypeOK
  <2> QED BY <2>1, <2>2, <2>3 DEF ContactsSound, MessagesOf
<1>8. ASSUME NEW p \in Peer, DeleteFails(p) PROVE ContactsSound'
  <2>1. /\ contacts' = [contacts EXCEPT !.file = contacts.memory \ {p}]
        /\ shown' = shown /\ halved' = halved \cup {p}
        /\ log' \cup torn' \subseteq log \cup torn
    BY <1>8 DEF DeleteFails, AppendFails, Appended
  <2>2. contacts'.file = contacts.memory \ {p} /\ contacts'.memory = contacts.memory
    BY <1>0, <2>1
  <2> QED BY <2>1, <2>2 DEF ContactsSound
<1>9. CASE Lock \/ Crash
  <2>1. /\ contacts' = [contacts EXCEPT !.memory = contacts.file] /\ halved' = halved
        /\ shown' \cup log' \cup torn' \subseteq log \cup torn
    BY <1>9 DEF Lock, Crash, Reopened, Appended, historyVars
  <2>2. contacts'.file = contacts.file /\ contacts'.memory = contacts.file
    BY <1>0, <2>1
  <2> QED BY <2>1, <2>2 DEF ContactsSound
<1>10. CASE UNCHANGED vars
  BY <1>1, <1>10 DEF vars, historyVars
<1> QED BY <1>2, <1>3, <1>4, <1>5, <1>6, <1>7, <1>8, <1>9, <1>10 DEF Next, Receive

\* A fresh account has nothing to lose.
LEMMA InitIInv == Init => IInv
<1> SUFFICES ASSUME Init PROVE IInv
  OBVIOUS
<1>1. \A p \in Peer : KeysRead(Durable, p) = {}
  BY DEF Init, Durable, Recovered, KeysRead
<1>2. Spent = {}
  BY <1>1, InboundAssumption DEF Spent
<1>3. RatchetSound /\ StoreSound /\ EraseSound /\ ContactsSound
  BY <1>1, <1>2 DEF Init, RatchetSound, StoreSound, EraseSound, ContactsSound, Idle
<1> QED BY <1>3, InitTypes DEF IInv

\* The invariant of the receiving half: together the parts are inductive.
THEOREM InvariantHolds ==
  ASSUME ~ReadBackFails
  PROVE  Spec => []IInv
<1>1. IInv /\ [Next]_vars => IInv'
  BY TypesKept, RatchetKept, StoreKept, EraseKept, ContactsKept DEF IInv
<1> QED BY <1>1, InitIInv, PTL DEF Spec

\* A packet that was answered is in the history of the files, whether or not the process
\* dies now, or the user deleted it.
\* (sync_inbound_messages: only a saved packet is confirmed)
THEOREM AnsweredKept ==
  ASSUME ~ReadBackFails
  PROVE  Spec => []AnsweredIsKept
<1>1. IInv => AnsweredIsKept
  BY DEF IInv, StoreSound, AnsweredIsKept
<1> QED BY <1>1, InvariantHolds, PTL

\* A key is used up on disk only when its message is there.
\* (the order of append and commit_ratchet)
THEOREM UsedKeysStored ==
  ASSUME ~ReadBackFails
  PROVE  Spec => []UsedKeyIsStored
<1>1. ASSUME IInv, NEW p \in Peer
      PROVE  KeysRead(Durable, p) \subseteq (log \cap torn) \cup cancelled
  <2>1. KeysRead(Durable, p) \subseteq Spent
    BY <1>1 DEF IInv, RatchetSound, MessagesOf, Spent
  <2> QED BY <1>1, <2>1 DEF IInv, StoreSound
<1>2. IInv => UsedKeyIsStored
  BY <1>1 DEF UsedKeyIsStored, Durable
<1> QED BY <1>2, InvariantHolds, PTL

\* A message whose key was durable does not come back once the user deleted it, however
\* often its packet is delivered again.
\* (delete_conversation keeps the session)
THEOREM DeletedGone ==
  ASSUME ~ReadBackFails
  PROVE  Spec => []DeletedStaysDeleted
<1>1. IInv => DeletedStaysDeleted
  BY DEF IInv, EraseSound, DeletedStaysDeleted
<1> QED BY <1>1, InvariantHolds, PTL

\* What is shown was written, and its sender is a contact.
\* (the order of persist_contacts and append_message_event)
THEOREM HistoryWithContact ==
  ASSUME ~ReadBackFails
  PROVE  Spec => []HistoryHasContact
<1>1. IInv => HistoryHasContact
  BY DEF IInv, StoreSound, ContactsSound, HistoryHasContact
<1> QED BY <1>1, InvariantHolds, PTL
=============================================================================
