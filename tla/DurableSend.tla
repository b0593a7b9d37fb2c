----------------------------- MODULE DurableSend -----------------------------
(***************************************************************************)
(* What the sending half promises, without files, memory, workers, errors  *)
(* or restarts: an accepted message stays in the history as queued until   *)
(* the transport has taken every one of its entries, then it is sent for   *)
(* good; nothing is handed over for a message that was not accepted; only  *)
(* deleting its conversation removes a message.                            *)
(***************************************************************************)
CONSTANTS Msg, Conv, Entry, ConvOf, MsgOf

VARIABLES
  status,     \* [Msg -> {"new", "queued", "sent", "delivered"}]
  deleting,   \* conversations whose deletion was asked for
  taken       \* entries the transport took

vars == <<status, deleting, taken>>

EntriesOf(m) == {e \in Entry : MsgOf[e] = m}

Init ==
  /\ status = [m \in Msg |-> "new"]
  /\ deleting = {}
  /\ taken = {}

\* The send command: the message is in the durable history from here on.
Accept(m) ==
  /\ status[m] = "new" /\ ConvOf[m] \notin deleting
  /\ status' = [status EXCEPT
       ![m] = IF EntriesOf(m) = {} THEN "delivered" ELSE "queued"]
  /\ UNCHANGED <<deleting, taken>>

\* The transport takes an entry, perhaps again.  A conversation being deleted
\* does not call back what is already under way.
Take(e) ==
  /\ status[MsgOf[e]] # "new" \/ ConvOf[MsgOf[e]] \in deleting
  /\ taken' = taken \cup {e}
  /\ UNCHANGED <<status, deleting>>

\* Messages that are handed over on all their devices become sent.
Complete(S) ==
  /\ S # {}
  /\ \A m \in S : status[m] = "queued" /\ EntriesOf(m) \subseteq taken
  /\ status' = [m \in Msg |-> IF m \in S THEN "sent" ELSE status[m]]
  /\ UNCHANGED <<deleting, taken>>

\* From here on nothing is promised about the conversation: its rows are shown
\* as "new" whatever becomes of them.
Cancel(c) ==
  /\ deleting' = deleting \cup {c}
  /\ status' = [m \in Msg |-> IF ConvOf[m] = c THEN "new" ELSE status[m]]
  /\ UNCHANGED taken

Next ==
  \/ \E m \in Msg : Accept(m)
  \/ \E e \in Entry : Take(e)
  \/ \E S \in SUBSET Msg : Complete(S)
  \/ \E c \in Conv : Cancel(c)

Spec == Init /\ [][Next]_vars
=============================================================================
