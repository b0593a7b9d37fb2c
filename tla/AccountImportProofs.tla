------------------------- MODULE AccountImportProofs -------------------------
(***************************************************************************)
(* Proofs about AccountImport, for any number of accounts and any faults.  *)
(***************************************************************************)
EXTENDS AccountImport, TLAPS

-----------------------------------------------------------------------------
(* The inductive invariant.                                                *)

\* The directory that was replaced, or what an account made of an empty one.
Filled(p) ==
  \/ current[p] = kept[p]
  \/ kept[p] = Blank /\ current[p] \in Account /\ current[p] # incoming

\* Recovery is past this directory.
Restored(p) ==
  /\ rollback[p] = None
  /\ kept[p] = None => current[p] = None
  /\ kept[p] # None => Filled(p)

\* Without a journal there is nothing to recover.
Settled ==
  journal.phase = "none" =>
    journal.had = {} /\ \A p \in Part : rollback[p] = None /\ current[p] # Damaged

\* A staged account is newer than every account in use before it.
Newest ==
  /\ incoming <= made
  /\ \A p \in Part : current[p] \in Account => current[p] <= made
  /\ pc = "journal" => \A p \in Part : current[p] \in Account => current[p] < made
  /\ pc = "stage" \/ (pc = "recover" /\ caller = "begin") => made < MaxAccounts

\* Until the commit every old directory is where the journal says.
Saving ==
  Begun =>
    /\ incoming \in Account
    /\ journal.had = {p \in Part : kept[p] # None}
    /\ \A p \in Part : /\ kept[p] \in Account => kept[p] < incoming
                       /\ rollback[p] # None => rollback[p] = kept[p]
                       /\ kept[p] # None /\ rollback[p] = None => Filled(p)
    /\ current["identity"] = incoming /\ kept["messaging"] # None =>
         rollback["messaging"] # None

\* After the commit both directories are the new account's.
Replaced == Committed => incoming \in Account /\ \A p \in Part : current[p] = incoming

\* What each step of import and of recovery finds.
Steps ==
  /\ pc \in {"journal", "aside", "install", "activate", "commit"} =>
       incoming = made /\ made \in Account
  /\ pc \in {"stage", "journal"} => journal.phase = "none"
  /\ pc \in {"aside", "install", "activate", "commit"} => Begun
  /\ pc = "aside" =>
       /\ at \in Part
       /\ IF at = "identity"
            THEN current["identity"] = kept["identity"] /\ rollback["identity"] = None
            ELSE current["identity"] = None /\ rollback["identity"] = kept["identity"]
       /\ current["messaging"] = kept["messaging"] /\ rollback["messaging"] = None
  /\ pc = "install" =>
       /\ at \in Part /\ \A p \in Part : rollback[p] = kept[p]
       /\ current["identity"] = IF at = "identity" THEN None ELSE incoming
       /\ current["messaging"] = None
  /\ pc \in {"activate", "commit"} =>
       \A p \in Part : rollback[p] = kept[p] /\ current[p] = incoming
  /\ pc = "recover" /\ Begun =>
       /\ at # "identity" => Restored("identity")
       /\ at = "clean" => Restored("messaging")

\* Nothing of the new account is there.
Undone == \A p \in Part : current[p] # incoming

\* All of it is, by a commit whose write returned an error.
KeptByCommit ==
  caller = "commit" /\ incoming \in Account /\ \A p \in Part : current[p] = incoming

\* What the caller is told.
Outcome ==
  /\ result # "none" => pc = "idle"
  /\ result = "ok" => incoming \in Account /\ \A p \in Part : current[p] = incoming
  /\ pc = "recover" /\ caller = "finish" =>
       ~Begun /\ incoming \in Account /\ \A p \in Part : current[p] = incoming
  /\ pc = "recover" /\ caller \in {"install", "activate"} => ~Committed
  /\ pc = "recover" /\ caller \in {"install", "activate", "commit"} /\ journal.phase = "none" =>
       Undone \/ KeptByCommit
  /\ result = "failed" /\ journal.phase = "none" => Undone \/ KeptByCommit

IInv == TypeOK /\ Settled /\ Newest /\ Saving /\ Replaced /\ Steps /\ Outcome

-----------------------------------------------------------------------------
\* What a directory may hold are different numbers.
LEMMA Numbers ==
  /\ MaxAccounts \in Nat \ {0} /\ Faults \in BOOLEAN
  /\ None \notin Account /\ Blank \notin Account /\ Damaged \notin Account
  /\ None # Blank /\ None # Damaged /\ Blank # Damaged /\ Blank \notin 0 .. MaxAccounts
  /\ \A n : n \in Account <=> n \in Nat /\ 1 <= n /\ n <= MaxAccounts
BY ImportAssumption DEF Account, None, Blank, Damaged

\* The first state.
LEMMA InitIInv == Init => IInv
<1> SUFFICES ASSUME Init PROVE IInv
  OBVIOUS
<1> USE Numbers DEF Init, Nothing, NoJournal, Part
<1>1. TypeOK
  BY DEF TypeOK, Content, Journal, None
<1>2. Settled /\ Newest
  BY DEF Settled, Newest, None
<1>3. Saving /\ Replaced
  BY DEF Saving, Replaced, Begun, Committed
<1>4. Steps
  BY DEF Steps, Begun
<1>5. Outcome
  BY DEF Outcome, Undone, KeptByCommit
<1> QED BY <1>1, <1>2, <1>3, <1>4, <1>5 DEF IInv

\* A process starts.
LEMMA StartKeeps ==
  ASSUME IInv, Start
  PROVE  IInv'
<1> USE Numbers DEF IInv, Start, Part, files, history
<1>1. TypeOK'
  BY DEF TypeOK
<1>2. Settled'
  BY DEF Settled
<1>3. Newest'
  BY DEF Newest
<1>4. Saving'
  BY DEF Saving, Begun, Filled
<1>5. Replaced'
  BY DEF Replaced, Committed
<1>6. Steps'
  BY DEF Steps
<1>7. Outcome'
  BY DEF Outcome, Undone, KeptByCommit
<1> QED BY <1>1, <1>2, <1>3, <1>4, <1>5, <1>6, <1>7

\* The process ends.
LEMMA CrashKeeps ==
  ASSUME IInv, Crash
  PROVE  IInv'
<1> USE Numbers DEF IInv, Crash, Part, files, history
<1>1. TypeOK'
  BY DEF TypeOK
<1>2. Settled'
  BY DEF Settled
<1>3. Newest'
  BY DEF Newest
<1>4. Saving'
  BY DEF Saving, Begun, Filled
<1>5. Replaced'
  BY DEF Replaced, Committed
<1>6. Steps'
  BY DEF Steps
<1>7. Outcome'
  BY DEF Outcome, Undone, KeptByCommit
<1> QED BY <1>1, <1>2, <1>3, <1>4, <1>5, <1>6, <1>7

\* A new identity.
LEMMA EnsureIdentityKeeps ==
  ASSUME IInv, EnsureIdentity
  PROVE  IInv'
<1> USE Numbers DEF IInv, EnsureIdentity, Part, files, history
<1>1. TypeOK'
  BY DEF TypeOK, Content
<1>2. Settled'
  BY DEF TypeOK, Settled
<1>3. Newest'
  BY DEF TypeOK, Newest
<1>4. Saving'
  BY DEF TypeOK, Newest, Saving, Begun, Filled
<1>5. Replaced'
  BY DEF Replaced, Committed
<1>6. Steps'
  BY DEF Steps
<1>7. Outcome'
  BY DEF TypeOK, Newest, Outcome, Undone, KeptByCommit
<1> QED BY <1>1, <1>2, <1>3, <1>4, <1>5, <1>6, <1>7

\* An empty message store is opened.
LEMMA ConfigureStorageKeeps ==
  ASSUME IInv, ConfigureStorage
  PROVE  IInv'
<1> USE Numbers DEF IInv, ConfigureStorage, Part, files, history
<1>1. TypeOK'
  BY DEF TypeOK
<1>2. Settled'
  BY DEF Settled
<1>3. Newest'
  BY DEF Newest
<1>4. Saving'
  BY DEF Saving, Begun, Filled
<1>5. Replaced'
  BY DEF Replaced, Committed
<1>6. Steps'
  BY DEF Steps
<1>7. Outcome'
  BY DEF Outcome, Undone, KeptByCommit
<1> QED BY <1>1, <1>2, <1>3, <1>4, <1>5, <1>6, <1>7

\* Recovery discards what is in the way.
LEMMA DiscardKeeps ==
  ASSUME IInv, NEW p \in Part, Discard(p)
  PROVE  IInv'
<1> USE Numbers DEF IInv, Discard, Part, files, history, Undoing
<1>1. TypeOK'
  BY DEF TypeOK, Content
<1>2. Settled'
  BY DEF Settled, Begun
<1>3. Newest'
  BY DEF Newest
<1>4. Saving'
  BY DEF Saving, Filled
<1>5. Replaced'
  BY DEF Replaced, Begun, Committed
<1>6. Steps'
  BY DEF Steps, Filled, Restored
<1>7. Outcome'
  BY DEF Saving, Outcome, Begun, Committed
<1> QED BY <1>1, <1>2, <1>3, <1>4, <1>5, <1>6, <1>7

\* Recovery puts an old directory back.
LEMMA PutBackKeeps ==
  ASSUME IInv, NEW p \in Part, PutBack(p)
  PROVE  IInv'
<1> USE Numbers DEF IInv, PutBack, Part, files, history, Undoing, After
<1>1. TypeOK'
  BY DEF TypeOK
<1>2. Settled'
  BY DEF Settled
<1>3. Newest'
  BY DEF TypeOK, Newest, Saving
<1>4. Saving'
  BY DEF TypeOK, Saving, Steps, Filled, Restored
<1>5. Replaced'
  BY DEF Replaced, Committed
<1>6. Steps'
  BY DEF TypeOK, Saving, Steps, Filled, Restored
<1>7. Outcome'
  BY DEF Settled, Outcome, Undone, KeptByCommit, Committed
<1> QED BY <1>1, <1>2, <1>3, <1>4, <1>5, <1>6, <1>7

\* Recovery finds nothing to do.
LEMMA PassKeeps ==
  ASSUME IInv, NEW p \in Part, Pass(p)
  PROVE  IInv'
<1> USE Numbers DEF IInv, Pass, Part, files, history, NothingToDo, After
<1>1. TypeOK'
  BY DEF TypeOK
<1>2. Settled'
  BY DEF Settled
<1>3. Newest'
  BY DEF Newest
<1>4. Saving'
  BY DEF Saving, Begun, Filled
<1>5. Replaced'
  BY DEF Replaced, Committed
<1>6. Steps'
  BY DEF Saving, Steps, Begun, Committed, Filled, Restored
<1>7. Outcome'
  BY DEF Outcome, Undone, KeptByCommit, Begun, Committed
<1> QED BY <1>1, <1>2, <1>3, <1>4, <1>5, <1>6, <1>7

\* Recovery removes what was put aside.
LEMMA CleanKeeps ==
  ASSUME IInv, NEW p \in Part, Clean(p)
  PROVE  IInv'
<1> USE Numbers DEF IInv, Clean, Part, files, history
<1>1. TypeOK'
  BY DEF TypeOK, Content
<1>2. Settled'
  BY DEF Settled
<1>3. Newest'
  BY DEF Newest
<1>4. Saving'
  BY DEF Saving, Steps, Begun, Restored
<1>5. Replaced'
  BY DEF Replaced, Committed
<1>6. Steps'
  BY DEF Steps, Begun, Restored
<1>7. Outcome'
  BY DEF Outcome, Undone, KeptByCommit, Begun, Committed
<1> QED BY <1>1, <1>2, <1>3, <1>4, <1>5, <1>6, <1>7

\* Recovery forgets the journal.
LEMMA RemoveJournalKeeps ==
  ASSUME IInv, RemoveJournal
  PROVE  IInv'
<1> USE Numbers DEF IInv, RemoveJournal, Part, files, history, Nothing, NoJournal
<1>1. TypeOK'
  BY DEF TypeOK, Journal
<1>2. Settled'
  BY DEF TypeOK, Settled, Replaced, Steps, Begun, Committed, Filled, Restored, Journal
<1>3. Newest'
  BY DEF Newest
<1>4. Saving'
  BY DEF Saving, Begun
<1>5. Replaced'
  BY DEF Replaced, Committed
<1>6. Steps'
  BY DEF Steps, Begun
<1>7. Outcome'
  <2>1. Begun \/ Committed
    BY DEF TypeOK, Begun, Committed, Journal
  <2>2. Begun => Undone'
    BY DEF TypeOK, Saving, Steps, Undone, Begun, Filled, Restored
  <2>3. Committed /\ caller \in {"install", "activate", "commit"} => KeptByCommit'
    BY DEF Replaced, Outcome, KeptByCommit
  <2> QED
    BY <2>1, <2>2, <2>3 DEF Outcome, Begun, Committed
<1> QED BY <1>1, <1>2, <1>3, <1>4, <1>5, <1>6, <1>7

\* Recovery returns to its caller.
LEMMA RecoveredKeeps ==
  ASSUME IInv, Recovered
  PROVE  IInv'
<1> USE Numbers DEF IInv, Recovered, Part, files, history, Returns, Return, Reactivated
<1>1. TypeOK'
  BY DEF TypeOK, Content
<1>2. Settled'
  BY DEF Settled
<1>3. Newest'
  BY DEF Newest
<1>4. Saving'
  BY DEF Saving, Begun
<1>5. Replaced'
  BY DEF Replaced, Committed
<1>6. Steps'
  BY DEF Steps
<1>7. Outcome'
  BY DEF TypeOK, Outcome, Undone, KeptByCommit
<1> QED BY <1>1, <1>2, <1>3, <1>4, <1>5, <1>6, <1>7

\* Recovery returns an error.
LEMMA RecoveryFailsKeeps ==
  ASSUME IInv, RecoveryFails
  PROVE  IInv'
<1> USE Numbers DEF IInv, RecoveryFails, Part, files, history, Returns, Return, Reactivated
<1>1. TypeOK'
  BY DEF TypeOK, Content
<1>2. Settled'
  BY DEF Settled
<1>3. Newest'
  BY DEF Newest
<1>4. Saving'
  BY DEF Saving, Begun, Filled
<1>5. Replaced'
  BY DEF Replaced, Committed
<1>6. Steps'
  BY DEF Steps
<1>7. Outcome'
  BY DEF TypeOK, Outcome, Undone, KeptByCommit
<1> QED BY <1>1, <1>2, <1>3, <1>4, <1>5, <1>6, <1>7

\* An import begins.
LEMMA BeginImportKeeps ==
  ASSUME IInv, BeginImport
  PROVE  IInv'
<1> USE Numbers DEF IInv, BeginImport, Part, files, history, Recover
<1>1. TypeOK'
  BY DEF TypeOK
<1>2. Settled'
  BY DEF Settled
<1>3. Newest'
  BY DEF Newest
<1>4. Saving'
  BY DEF Saving, Begun, Filled
<1>5. Replaced'
  BY DEF Replaced, Committed
<1>6. Steps'
  BY DEF Steps
<1>7. Outcome'
  BY DEF Outcome, Undone, KeptByCommit
<1> QED BY <1>1, <1>2, <1>3, <1>4, <1>5, <1>6, <1>7

\* The new account is unpacked.
LEMMA StageKeeps ==
  ASSUME IInv, Stage
  PROVE  IInv'
<1> USE Numbers DEF IInv, Stage, Part, files, history, Return, Reactivated
<1>1. TypeOK'
  BY DEF TypeOK, Newest, Content
<1>2. Settled'
  BY DEF TypeOK, Settled
<1>3. Newest'
  BY DEF TypeOK, Newest
<1>4. Saving'
  BY DEF Saving, Steps, Begun
<1>5. Replaced'
  BY DEF Replaced, Steps, Committed
<1>6. Steps'
  BY DEF TypeOK, Newest, Steps
<1>7. Outcome'
  BY DEF Outcome, Undone, KeptByCommit
<1> QED BY <1>1, <1>2, <1>3, <1>4, <1>5, <1>6, <1>7

\* The journal is written.
LEMMA WriteJournalKeeps ==
  ASSUME IInv, WriteJournal
  PROVE  IInv'
<1> USE Numbers DEF IInv, WriteJournal, Part, files, history, Return, Reactivated, Saved
<1>1. TypeOK'
  BY DEF TypeOK, Settled, Steps, Content, Journal
<1>2. Settled'
  BY DEF TypeOK, Settled
<1>3. Newest'
  BY DEF TypeOK, Newest
<1>4. Saving'
  BY DEF TypeOK, Settled, Newest, Saving, Steps, Begun, Filled
<1>5. Replaced'
  BY DEF TypeOK, Replaced, Committed
<1>6. Steps'
  BY DEF Settled, Steps, Begun
<1>7. Outcome'
  BY DEF TypeOK, Newest, Steps, Outcome, Undone, KeptByCommit
<1> QED BY <1>1, <1>2, <1>3, <1>4, <1>5, <1>6, <1>7

\* An old directory is put aside.
LEMMA PutAsideKeeps ==
  ASSUME IInv, NEW p \in Part, PutAside(p)
  PROVE  IInv'
<1> USE Numbers DEF IInv, PutAside, Part, files, history, Advance, Recover
<1>1. TypeOK'
  BY DEF TypeOK, Steps
<1>2. Settled'
  BY DEF TypeOK, Settled, Saving, Steps
<1>3. Newest'
  BY DEF TypeOK, Newest
<1>4. Saving'
  BY DEF TypeOK, Saving, Steps, Filled
<1>5. Replaced'
  BY DEF Saving, Replaced, Steps, Committed
<1>6. Steps'
  BY DEF TypeOK, Steps, Begun
<1>7. Outcome'
  BY DEF TypeOK, Saving, Replaced, Steps, Outcome, Undone, KeptByCommit, Committed
<1> QED BY <1>1, <1>2, <1>3, <1>4, <1>5, <1>6, <1>7

\* A new directory is installed.
LEMMA InstallKeeps ==
  ASSUME IInv, NEW p \in Part, Install(p)
  PROVE  IInv'
<1> USE Numbers DEF IInv, Install, Part, files, history, Advance, Recover
<1>1. TypeOK'
  BY DEF TypeOK, Steps, Content
<1>2. Settled'
  BY DEF TypeOK, Settled, Steps
<1>3. Newest'
  BY DEF TypeOK, Newest
<1>4. Saving'
  BY DEF Saving, Steps
<1>5. Replaced'
  BY DEF Replaced, Steps, Committed
<1>6. Steps'
  BY DEF TypeOK, Steps, Begun
<1>7. Outcome'
  BY DEF Steps, Outcome, Undone, KeptByCommit, Begun, Committed
<1> QED BY <1>1, <1>2, <1>3, <1>4, <1>5, <1>6, <1>7

\* The new account is opened.
LEMMA ActivateKeeps ==
  ASSUME IInv, Activate
  PROVE  IInv'
<1> USE Numbers DEF IInv, Activate, Part, files, history, Recover
<1>1. TypeOK'
  BY DEF TypeOK
<1>2. Settled'
  BY DEF Settled
<1>3. Newest'
  BY DEF Newest
<1>4. Saving'
  BY DEF Saving, Steps
<1>5. Replaced'
  BY DEF Replaced, Steps
<1>6. Steps'
  BY DEF Steps, Begun
<1>7. Outcome'
  BY DEF Steps, Outcome, Undone, KeptByCommit, Begun, Committed
<1> QED BY <1>1, <1>2, <1>3, <1>4, <1>5, <1>6, <1>7

\* The journal says committed.
LEMMA CommitKeeps ==
  ASSUME IInv, Commit
  PROVE  IInv'
<1> USE Numbers DEF IInv, Commit, Part, files, history, Recover
<1>1. TypeOK'
  BY DEF TypeOK, Journal
<1>2. Settled'
  BY DEF TypeOK, Settled, Journal
<1>3. Newest'
  BY DEF Newest
<1>4. Saving'
  BY DEF TypeOK, Saving, Steps, Journal
<1>5. Replaced'
  BY DEF Replaced, Steps
<1>6. Steps'
  BY DEF Steps
<1>7. Outcome'
  BY DEF TypeOK, Steps, Outcome, Undone, KeptByCommit, Begun, Committed, Journal
<1> QED BY <1>1, <1>2, <1>3, <1>4, <1>5, <1>6, <1>7

\* A step that changes nothing.
LEMMA StutterKeeps ==
  ASSUME IInv, UNCHANGED vars
  PROVE  IInv'
BY DEF IInv, vars, files, history, TypeOK, Settled, Newest, Saving, Replaced, Steps, Outcome,
  Undone, KeptByCommit, Begun, Committed, Filled, Restored

\* Every step keeps the invariant.
LEMMA NextKeeps == IInv /\ [Next]_vars => IInv'
<1> SUFFICES ASSUME IInv, [Next]_vars PROVE IInv'
  OBVIOUS
<1>1. CASE Start \/ Crash \/ EnsureIdentity \/ ConfigureStorage
  BY <1>1, StartKeeps, CrashKeeps, EnsureIdentityKeeps, ConfigureStorageKeeps
<1>2. CASE Recovering
  <2>1. ASSUME NEW p \in Part, Discard(p) \/ PutBack(p) \/ Pass(p) \/ Clean(p)
        PROVE  IInv'
    BY <2>1, DiscardKeeps, PutBackKeeps, PassKeeps, CleanKeeps
  <2> QED
    BY <1>2, <2>1, RemoveJournalKeeps, RecoveredKeeps, RecoveryFailsKeeps DEF Recovering
<1>3. CASE Importing
  <2>1. ASSUME NEW p \in Part, PutAside(p) \/ Install(p)
        PROVE  IInv'
    BY <2>1, PutAsideKeeps, InstallKeeps
  <2> QED
    BY <1>3, <2>1, BeginImportKeeps, StageKeeps, WriteJournalKeeps, ActivateKeeps, CommitKeeps
       DEF Importing
<1>4. CASE UNCHANGED vars
  BY <1>4, StutterKeeps
<1> QED BY <1>1, <1>2, <1>3, <1>4 DEF Next

\* The invariant holds of every import, recovery and restart.
THEOREM Invariant == Spec => []IInv
BY InitIInv, NextKeeps, PTL DEF Spec

-----------------------------------------------------------------------------
(* What it implies.                                                        *)

\* Type correctness.
THEOREM TypeCorrect == Spec => []TypeOK
BY Invariant, PTL DEF IInv

\* Both directories of the old account survive until the commit, in place or put
\* aside, whatever fails or stops and whatever account is opened meanwhile.
\* (install_staged_account)
THEOREM OldAccountSurvives == Spec => []OldSurvives
<1>1. IInv => OldSurvives
  BY Numbers DEF IInv, TypeOK, Saving, OldSurvives, Filled, Begun
<1> QED BY <1>1, Invariant, PTL

\* Recovery can always be run again: it never finds directories that contradict its
\* journal.  (recover_pending_import)
THEOREM RecoveryCanFinish == Spec => []RecoveryNeverRefuses
<1>1. IInv => RecoveryNeverRefuses
  BY Numbers DEF IInv, TypeOK, Saving, Replaced, RecoveryNeverRefuses, Filled, Begun, Committed,
    Journal
<1> QED BY <1>1, Invariant, PTL

\* Without a journal nothing is damaged or put aside.  (recover_pending_import)
THEOREM SettledIsComplete == Spec => []NothingLeftBehind
<1>1. IInv => NothingLeftBehind
  BY DEF IInv, TypeOK, Settled, NothingLeftBehind, Nothing
<1> QED BY <1>1, Invariant, PTL

\* The journal is removed only after the new account is wholly in place, or the old
\* one is wholly back and nothing of the new one is left.  (recover_pending_import)
THEOREM ForgetsOnlyWhole == Spec => ForgottenWhenWhole
<1>1. IInv /\ [Next]_vars /\ journal.phase # "none" /\ journal'.phase = "none" =>
         \/ Committed /\ \A p \in Part : current[p] = incoming
         \/ /\ Begun
            /\ \A p \in Part : /\ kept[p] \in Account \cup {None} => current[p] = kept[p]
                               /\ current[p] # incoming
  <2> SUFFICES ASSUME IInv, [Next]_vars, journal.phase # "none", journal'.phase = "none"
               PROVE  \/ Committed /\ \A p \in Part : current[p] = incoming
                      \/ /\ Begun
                         /\ \A p \in Part :
                              /\ kept[p] \in Account \cup {None} => current[p] = kept[p]
                              /\ current[p] # incoming
    OBVIOUS
  <2>1. RemoveJournal
    <3>1. journal' # journal
      OBVIOUS
    <3>2. CASE WriteJournal
      BY <3>2 DEF WriteJournal, Saved
    <3>3. CASE Commit
      BY <3>3 DEF Commit, IInv, TypeOK, Journal
    <3> QED
      BY <3>1, <3>2, <3>3 DEF Next, Recovering, Importing, Start, Crash, EnsureIdentity,
        ConfigureStorage, Discard, PutBack, Pass, Clean, Recovered, RecoveryFails, Returns,
        BeginImport, Stage, PutAside, Install, Activate, vars, files
  <2>2. CASE Committed
    BY <2>2 DEF IInv, Replaced
  <2>3. CASE Begun
    BY <2>1, <2>3, Numbers
       DEF RemoveJournal, IInv, TypeOK, Saving, Steps, Restored, Filled, Part
  <2> QED BY <2>2, <2>3 DEF Begun, Committed, IInv, TypeOK, Journal
<1> QED BY <1>1, Invariant, PTL DEF Spec, ForgottenWhenWhole

\* Whatever fails: ok means that the new account is installed, an error that nothing
\* is left of it once nothing is to be undone, or that the write of its commit failed
\* and it is in use whole.  (import)
THEOREM ReturnsTheTruth == Spec => []ResultIsTrue
<1>1. IInv => ResultIsTrue
  BY DEF IInv, Outcome, ResultIsTrue, Undone, KeptByCommit
<1> QED BY <1>1, Invariant, PTL
=============================================================================
