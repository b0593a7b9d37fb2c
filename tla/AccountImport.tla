---------------------------- MODULE AccountImport ----------------------------
(***************************************************************************)
(* The import of an account: it replaces the two directories of an account *)
(* under a journal, so that an import that stops anywhere can be undone,   *)
(* or finished once its journal says committed.                            *)
(*                                                                         *)
(* What a directory holds is reduced to the account it belongs to.  A      *)
(* command runs alone, so nothing happens between its steps but its own    *)
(* failure and the end of the process.                                     *)
(*                                                                         *)
(* Operators named _Slip are plausible mistakes in the code they stand     *)
(* before, used by the mutation runs only.                                 *)
(***************************************************************************)
EXTENDS Naturals

CONSTANTS
  MaxAccounts,   \* accounts made on this device or imported to it
  Faults         \* whether operations on files may fail

ASSUME ImportAssumption == MaxAccounts \in Nat \ {0} /\ Faults \in BOOLEAN

Part == {"identity", "messaging"}
Account == 1 .. MaxAccounts
None == 0                    \* no such directory
Blank == MaxAccounts + 1     \* a directory nothing was stored in
Damaged == MaxAccounts + 2   \* a directory removed half-way
Content == Account \cup {None, Blank, Damaged}
Nothing == [p \in Part |-> None]

\* A journal says how far the import is and which directories it replaces.
Journal == [phase : {"none", "begun", "committed"}, had : SUBSET Part]
NoJournal == [phase |-> "none", had |-> {}]

VARIABLES
  current,   \* the two directories of the account in use
  rollback,  \* .account-rollback: those of the account it replaces
  journal,   \* .account-transaction.json
  pc,        \* where the process is: "stopped", "idle", or a step of import
  at,        \* the directory that step is at, or "clean"
  caller,    \* the call of recover_pending_import that is running
  made,      \* accounts so far; the latest is the staged one, once staged
  result,    \* what the last import returned; "rejected" before it had an account
  incoming,  \* history: the account of the last import that had one
  kept       \* history: the directories when that journal was written

files == <<current, rollback, journal>>
history == <<incoming, kept>>
vars == <<files, pc, at, caller, made, result, history>>

-----------------------------------------------------------------------------
(* Helpers.                                                                *)

Begun == journal.phase = "begun"
Committed == journal.phase = "committed"

After(p) == IF p = "identity" THEN "messaging" ELSE "clean"

\* configure_storage creates the directory it is given.
Reactivated(dirs) ==
  [dirs EXCEPT !["messaging"] = IF @ = None THEN Blank ELSE @]

Recover(from) == pc' = "recover" /\ at' = "identity" /\ caller' = from

Return(outcome) == pc' = "idle" /\ result' = outcome /\ UNCHANGED <<at, caller>>

-----------------------------------------------------------------------------
(* The process, and the two commands that open an account.  Neither of     *)
(* them recovers a pending import.                                         *)

Start ==
  /\ pc = "stopped" /\ pc' = "idle"
  /\ UNCHANGED <<files, at, caller, made, result, history>>

Crash ==
  /\ pc # "stopped" /\ pc' = "stopped" /\ result' = "none"
  /\ UNCHANGED <<files, at, caller, made, history>>

\* ensure_identity, when there is no identity to open.
EnsureIdentity ==
  /\ pc = "idle" /\ current["identity"] \in {None, Damaged} /\ made < MaxAccounts
  /\ made' = made + 1
  /\ current' = [current EXCEPT !["identity"] = made']
  /\ UNCHANGED <<rollback, journal, pc, at, caller, result, history>>

\* configure_storage of messaging: an empty store takes the key of the identity.
ConfigureStorage ==
  /\ pc = "idle" /\ current["identity"] \in Account
  /\ current["messaging"] \in {None, Blank}
  /\ current' = [current EXCEPT !["messaging"] = current["identity"]]
  /\ UNCHANGED <<rollback, journal, pc, at, caller, made, result, history>>

-----------------------------------------------------------------------------
(* recover_pending_import.                                                 *)

\* It returns to its caller.
Returns(ok) ==
  /\ IF caller = "begin" /\ ok
       THEN pc' = "stage" /\ UNCHANGED <<at, caller, result>>
       ELSE Return(CASE caller = "begin" -> "rejected" [] caller = "finish" -> "ok"
                     [] OTHER -> "failed")
  /\ current' = IF caller \in {"install", "activate"} \/ (caller = "commit" /\ ok)
                  THEN Reactivated(current) ELSE current
  /\ UNCHANGED <<rollback, journal, made, history>>

Undoing == pc = "recover" /\ Begun

\* It also removes an old directory that is still in place.
Discard_Slip(p) ==
  /\ Undoing /\ at = p /\ current[p] # None
  /\ \E left \in {None, Damaged} : current' = [current EXCEPT ![p] = left]
  /\ UNCHANGED <<rollback, journal, pc, at, caller, made, result, history>>

\* remove_dir_all of what is in the way, which may stop half-way.
Discard(p) ==
  /\ Undoing /\ at = p /\ current[p] # None
  /\ rollback[p] # None \/ p \notin journal.had
  /\ \E left \in {None, Damaged} : current' = [current EXCEPT ![p] = left]
  /\ UNCHANGED <<rollback, journal, pc, at, caller, made, result, history>>

PutBack(p) ==
  /\ Undoing /\ at = p /\ rollback[p] # None /\ current[p] = None
  /\ current' = [current EXCEPT ![p] = rollback[p]]
  /\ rollback' = [rollback EXCEPT ![p] = None]
  /\ at' = After(p)
  /\ UNCHANGED <<journal, pc, caller, made, result, history>>

\* Where no directory was replaced, the new one is left.
NothingToDo_Slip(p) ==
  IF Committed THEN current[p] # None
  ELSE rollback[p] = None /\ (p \in journal.had => current[p] # None)

\* An old directory still in place, or restored by an interrupted recovery; one that
\* did not exist and does not; a new one once the journal says committed.
NothingToDo(p) ==
  IF Committed THEN current[p] # None
  ELSE rollback[p] = None /\ (p \in journal.had <=> current[p] # None)

Pass(p) ==
  /\ pc = "recover" /\ journal.phase # "none" /\ at = p /\ NothingToDo(p)
  /\ at' = After(p)
  /\ UNCHANGED <<files, pc, caller, made, result, history>>

\* remove_dir_all of the rollback directory.
Clean(p) ==
  /\ pc = "recover" /\ at = "clean" /\ rollback[p] # None
  /\ rollback' = [rollback EXCEPT ![p] = None]
  /\ UNCHANGED <<current, journal, pc, at, caller, made, result, history>>

RemoveJournal ==
  /\ pc = "recover" /\ journal.phase # "none" /\ at = "clean" /\ rollback = Nothing
  /\ journal' = NoJournal
  /\ UNCHANGED <<current, rollback, pc, at, caller, made, result, history>>

Recovered ==
  /\ pc = "recover" /\ journal.phase = "none"
  /\ Returns(TRUE)

\* An operation failed, or a directory that should be there is not.
RecoveryFails ==
  /\ pc = "recover"
  /\ Faults \/ (journal.phase # "none" /\ at \in Part /\ current[at] = None /\ rollback[at] = None)
  /\ Returns(FALSE)

-----------------------------------------------------------------------------
(* import, from the first check that passed.                               *)

BeginImport ==
  /\ pc = "idle" /\ made < MaxAccounts
  /\ Recover("begin") /\ result' = "none"
  /\ UNCHANGED <<files, made, history>>

\* The account is unpacked next to the one in use.
Stage ==
  /\ pc = "stage"
  /\ \/ /\ made' = made + 1 /\ incoming' = made'
        /\ pc' = "journal" /\ UNCHANGED <<current, at, caller, result>>
     \/ /\ Faults /\ Return("rejected") /\ current' = Reactivated(current)
        /\ UNCHANGED <<made, incoming>>
  /\ UNCHANGED <<rollback, journal, kept>>

\* It is written when the old account has been put aside.
Saved_Slip == [phase |-> "begun", had |-> {p \in Part : rollback[p] # None}]

Saved == [phase |-> "begun", had |-> {p \in Part : current[p] # None}]

\* install_staged_account: the journal before the first rename.
WriteJournal ==
  /\ pc = "journal"
  /\ \/ /\ journal' = Saved /\ kept' = current
        /\ \/ pc' = "aside" /\ at' = "identity" /\ UNCHANGED <<current, caller, result>>
           \/ Faults /\ Return("failed") /\ current' = Reactivated(current)
     \/ /\ Faults /\ Return("failed") /\ current' = Reactivated(current)
        /\ UNCHANGED <<journal, kept>>
  /\ UNCHANGED <<rollback, made, incoming>>

\* The next directory, or the next loop.
Advance(p, loop) ==
  /\ IF p = "identity" THEN at' = "messaging" /\ UNCHANGED pc
     ELSE at' = "identity" /\ pc' = loop
  /\ UNCHANGED caller

PutAside(p) ==
  /\ pc = "aside" /\ at = p
  /\ \/ /\ current' = [current EXCEPT ![p] = None]
        /\ rollback' = [rollback EXCEPT ![p] = current[p]]
        /\ Advance(p, "install") \/ (Faults /\ current[p] # None /\ Recover("install"))
     \/ /\ Faults /\ current[p] # None
        /\ Recover("install") /\ UNCHANGED <<current, rollback>>
  /\ UNCHANGED <<journal, made, result, history>>

Install(p) ==
  /\ pc = "install" /\ at = p
  /\ \/ /\ current' = [current EXCEPT ![p] = made]
        /\ Advance(p, "activate") \/ (Faults /\ Recover("install"))
     \/ Faults /\ Recover("install") /\ UNCHANGED current
  /\ UNCHANGED <<rollback, journal, made, result, history>>

\* The installed account is opened.
Activate ==
  /\ pc = "activate"
  /\ \/ pc' = "commit" /\ UNCHANGED <<at, caller>>
     \/ Faults /\ Recover("activate")
  /\ UNCHANGED <<files, made, result, history>>

\* An import whose commit was not written is reported as done.
Commit_Slip ==
  /\ pc = "commit" /\ Recover("finish")
  /\ \/ journal' = [journal EXCEPT !.phase = "committed"]
     \/ Faults /\ UNCHANGED journal
  /\ UNCHANGED <<current, rollback, made, result, history>>

\* The journal may be in place although its write returned an error: the rename was
\* made and the sync of the directory failed.
Commit ==
  /\ pc = "commit"
  /\ \/ /\ journal' = [journal EXCEPT !.phase = "committed"]
        /\ Recover("finish") \/ (Faults /\ Recover("commit"))
     \/ Faults /\ Recover("commit") /\ UNCHANGED journal
  /\ UNCHANGED <<current, rollback, made, result, history>>

-----------------------------------------------------------------------------
Init ==
  /\ current = Nothing /\ rollback = Nothing /\ journal = NoJournal
  /\ pc = "stopped" /\ at = "identity" /\ caller = "begin"
  /\ made = 0 /\ result = "none" /\ incoming = None /\ kept = Nothing

Recovering ==
  \/ \E p \in Part : Discard(p) \/ PutBack(p) \/ Pass(p) \/ Clean(p)
  \/ RemoveJournal \/ Recovered \/ RecoveryFails

Importing ==
  \/ BeginImport \/ Stage \/ WriteJournal
  \/ \E p \in Part : PutAside(p) \/ Install(p)
  \/ Activate \/ Commit

Next == Start \/ Crash \/ EnsureIdentity \/ ConfigureStorage \/ Recovering \/ Importing

Spec == Init /\ [][Next]_vars

-----------------------------------------------------------------------------
(* Properties.                                                             *)

TypeOK ==
  /\ current \in [Part -> Content] /\ rollback \in [Part -> Content \ {Damaged}]
  /\ journal \in Journal
  /\ pc \in {"stopped", "idle", "recover", "stage", "journal", "aside", "install",
             "activate", "commit"}
  /\ at \in Part \cup {"clean"}
  /\ caller \in {"begin", "install", "activate", "commit", "finish"}
  /\ made \in 0 .. MaxAccounts /\ result \in {"none", "ok", "rejected", "failed"}
  /\ incoming \in 0 .. MaxAccounts /\ kept \in [Part -> Content \ {Damaged}]

\* Until the import is committed, both directories of the account it replaces exist
\* untouched, where recovery will find them, whatever stopped, failed or was opened
\* since.  (install_staged_account, recover_pending_import)
OldSurvives ==
  Begun =>
    \A p \in Part : kept[p] \in Account =>
      current[p] = kept[p] \/ rollback[p] = kept[p]

\* Recovery, run again any number of times, never refuses the directories it finds.
\* (the VerificationFailed returns of recover_pending_import)
RecoveryNeverRefuses ==
  journal.phase # "none" =>
    \A p \in Part :
      IF Committed THEN current[p] # None
      ELSE p \in journal.had => current[p] # None \/ rollback[p] # None

\* A journal is forgotten only when its account is wholly installed, or the old one
\* wholly back and nothing left of the new one.  (recover_pending_import)
ForgottenWhenWhole ==
  [][ journal.phase # "none" /\ journal'.phase = "none" =>
        \/ Committed /\ \A p \in Part : current[p] = incoming
        \/ /\ Begun
           /\ \A p \in Part : /\ kept[p] \in Account \cup {None} => current[p] = kept[p]
                              /\ current[p] # incoming ]_vars

\* Without a journal no directory is damaged and none is put aside: what nothing
\* will recover is complete.  (the order of recover_pending_import)
NothingLeftBehind ==
  journal.phase = "none" => rollback = Nothing /\ \A p \in Part : current[p] # Damaged

\* An import that returned ok installed its account; one that failed and is not still
\* to be undone left nothing of it, save when all that failed was the write of the
\* commit: that account may be in use, and is then in use whole.  (import)
ResultIsTrue ==
  /\ result = "ok" => \A p \in Part : current[p] = incoming
  /\ result = "failed" /\ journal.phase = "none" =>
       \/ \A p \in Part : current[p] # incoming
       \/ caller = "commit" /\ \A p \in Part : current[p] = incoming

\* Once the core is started and has an identity, its messages are of the same account.
\* (install_staged_account: "This prevents a mixed identity/messaging state.")
NeverMixed ==
  pc = "idle" /\ current["identity"] \in Account =>
    current["messaging"] \in {None, Blank, current["identity"]}
=============================================================================
