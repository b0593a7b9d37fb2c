---------------------------- MODULE GroupControl ----------------------------
(***************************************************************************)
(* One group, as messaging_adapter/groups.rs manages it on every device of *)
(* its members.                                                            *)
(*                                                                         *)
(* The device of the owner coordinates: it applies an action, counts a     *)
(* revision and sends the whole group to the members as a snapshot; an     *)
(* action of another member travels to it as a request.  Control packets   *)
(* take the encrypted sessions of the outbox, so they arrive late, in any  *)
(* order, or twice; what a device owes the others is saved with the group  *)
(* (outbound) and moved to the outbox afterwards.  Whoever leaves tells    *)
(* the others with a Departure, and an owner names a successor in it.      *)
(* Linked devices of one account also pass each other their copies.        *)
(*                                                                         *)
(* Commands of a device hold its command lock, so a command is one action; *)
(* it ends in the state after its last write, or dies in one of those      *)
(* before (Command).                                                       *)
(*                                                                         *)
(* Operators named _Slip are plausible mistakes in the code they stand     *)
(* before, used by the mutation runs only.                                 *)
(***************************************************************************)
EXTENDS Naturals, FiniteSets, Sequences

CONSTANTS
  Device,
  Account,
  AccountOf,   \* [Device -> Account]
  Primary,     \* [Account -> Device]: whose key the identity of the account shows
  Creator,     \* the device that creates the group
  Founders,    \* the accounts it invites
  Msg,         \* texts that may be written in the group
  Author,      \* [Msg -> Device]
  Request,     \* what users may ask, once each: see Asking
  JoinId,      \* identifiers of the Joins that may be sent
  None,
  MaxCuts,     \* bound: commands that die before their last write
  MaxEvents    \* bound: commands of users, and deaths, together

Right == {"info", "delete", "members", "admins", "invite"}

Asking == [id : STRING, actor : Account, rights : SUBSET Right,
           kind : Right \cup {"add", "remove", "grant", "revoke role",
                              "close", "link", "revoke link"},
           who : Account \cup Msg \cup {None}]

ASSUME GroupAssumption ==
  /\ AccountOf \in [Device -> Account] /\ Primary \in [Account -> Device]
  /\ Creator \in Device /\ Founders \subseteq Account
  /\ Author \in [Msg -> Device]
  /\ Request \subseteq Asking
  /\ {MaxCuts, MaxEvents} \subseteq Nat

VARIABLES
  dev,       \* [Device -> what its vault holds]: group, history and outbox;
             \* told, history: the snapshots its group owed to members
  asked,     \* identifiers of the requests made
  joins,     \* identifiers of the Joins sent
  links,     \* invite links published: what their blobs say
  leaves, cuts,
  quit,      \* history: the accounts a device of which has left the group
  answered   \* history: snapshots a device has dealt with

vars == <<dev, asked, joins, links, leaves, cuts, quit, answered>>

-----------------------------------------------------------------------------
(***************************************************************************)
(* The stored group.  owner resolves admin_id, whose "me" is the account   *)
(* itself; members leaves out the account; info stands for the name, the   *)
(* policy, restrictions, pins, channels and notices, as the request that   *)
(* last changed them; invite and shared are link generations, 0 for none;  *)
(* outbound holds packets, the other sets identifiers.                     *)
(***************************************************************************)
Group == [rev : Nat, owner : Account, coord : Device, members : SUBSET Account,
          roles : [Account -> (SUBSET Right) \cup {None}], deleted : SUBSET Msg,
          closed : BOOLEAN, info : STRING \cup {None}, gen : Nat,
          invite : Nat, shared : Nat, removed : BOOLEAN, left : BOOLEAN,
          departing : BOOLEAN, successor : Account \cup {None},
          departed : SUBSET Account, requests : Seq(Asking),
          processed : SUBSET STRING, outbound : {{}}, effect : BOOLEAN]

\* What a device that does not have the group stores.
NoGroup == <<>>

NewGroup(d, accounts) ==
  [rev |-> 0, owner |-> AccountOf[d], coord |-> d, members |-> accounts,
   roles |-> [a \in Account |-> None], deleted |-> {}, closed |-> FALSE,
   info |-> None, gen |-> 0, invite |-> 0, shared |-> 0, removed |-> FALSE,
   left |-> FALSE, departing |-> FALSE, successor |-> None, departed |-> {},
   requests |-> <<>>, processed |-> {}, outbound |-> {}, effect |-> FALSE]

Cleared(g) == [g EXCEPT !.outbound = {}, !.requests = <<>>, !.effect = FALSE]

IsCoordinator(d, g) == g.owner = AccountOf[d] /\ g.coord = d

Participant(d, g, a) ==
  a = g.owner \/ a \in g.members \/ (a = AccountOf[d] /\ ~g.removed)

RightsOf(g, a) ==
  IF a = g.owner THEN Right ELSE IF g.roles[a] = None THEN {} ELSE g.roles[a]

MayWrite(d, g, a) == ~g.closed /\ ~g.removed /\ Participant(d, g, a)

Needs(kind) ==
  CASE kind \in {"add", "link", "revoke link"} -> "invite"
    [] kind = "remove" -> "members"
    [] kind \in {"grant", "revoke role"} -> "admins"
    [] OTHER -> kind

Authorized(d, g, r) ==
  /\ MayWrite(d, g, r.actor)
  /\ IF r.kind = "close" THEN r.actor = g.owner
     ELSE Needs(r.kind) \in RightsOf(g, r.actor)
  /\ r.kind \in {"remove", "grant", "revoke role"} =>
       /\ r.who # g.owner
       /\ r.actor = g.owner \/ g.roles[r.who] = None
  /\ r.kind = "grant" => r.rights \subseteq RightsOf(g, r.actor)

AlreadyApplied(g, r) == r.kind = "delete" /\ r.who \in g.deleted

Possible(d, g, r) ==
  /\ r.kind = "add" => r.who \notin g.members \cup {AccountOf[d]}
  /\ r.kind \in {"remove", "grant", "revoke role"} => r.who \in g.members

\* Notices, channels, name, description and policy.
Described(g, r) == [g EXCEPT !.info = r.id]

Changed(g, r) ==
  CASE r.kind = "info"   -> Described(g, r)
    [] r.kind = "delete" -> [g EXCEPT !.deleted = @ \cup {r.who}]
    [] r.kind = "add"    -> [g EXCEPT !.members = @ \cup {r.who},
                                      !.departed = @ \ {r.who}]
    [] r.kind = "remove" -> [g EXCEPT !.members = @ \ {r.who},
                                      !.roles[r.who] = None,
                                      !.departed = @ \cup {r.who}]
    [] r.kind = "grant"  -> [g EXCEPT !.roles[r.who] = r.rights]
    [] r.kind = "revoke role" -> [g EXCEPT !.roles[r.who] = None]
    [] r.kind = "close"  -> [g EXCEPT !.closed = TRUE]
    [] r.kind = "link"   -> [g EXCEPT !.gen = @ + 1, !.invite = g.gen + 1]
    [] OTHER -> [g EXCEPT !.gen = @ + 1, !.invite = 0]  \* revoke link

-----------------------------------------------------------------------------
(***************************************************************************)
(* Packets, and what the vault of a device goes through.                   *)
(***************************************************************************)
DevicesOf(accounts) == {e \in Device : AccountOf[e] \in accounts}

Seal(d, to, kind, body) ==
  {[from |-> d, to |-> e, kind |-> kind, body |-> body] : e \in to \ {d}}

Snapshot(d, g) ==
  [Cleared(g) EXCEPT !.members = @ \cup {AccountOf[d]}, !.processed = {},
     !.invite = 0, !.shared = 0, !.left = FALSE, !.departing = FALSE,
     !.successor = None, !.departed = {}]

Linked(d, g, text) ==
  Seal(d, DevicesOf({AccountOf[d]}), "sync", [sync |-> g, text |-> text])

Kept(g, msgs) == IF g.closed \/ g.left THEN {} ELSE msgs \ g.deleted

TextOf(packets, msgs) == {p \in packets : p.kind = "text" /\ p.body.text \in msgs}

\* A save. The queue of a group one leaves is dropped, and with it what was told.
Saved(s, g) == [s EXCEPT !.group = g, !.told = IF g.left THEN @ \cap s.outbox ELSE @]

Cancelled(s, msgs) == [s EXCEPT !.outbox = @ \ TextOf(@, msgs)]

\* What a command writes: the state it ends in, and those where it may stop before.
Done(s) == [stops |-> {}, done |-> s]

Then(w, v) == [stops |-> w.stops \cup {w.done} \cup v.stops, done |-> v.done]

\* apply_local_effects: the texts go from the history, then from the outbox.
Purged(s) ==
  LET t == [s EXCEPT !.history = Kept(s.group, @)]
  IN  Then(Done(t), Done(Cancelled(t, s.history \ t.history)))

Completed_Slip(s) ==
  IF ~s.group.effect THEN Done(s)
  ELSE LET t == [s EXCEPT !.group.effect = FALSE]
       IN  Then(Done(t), Purged(t))

\* complete_effect: the local consequences first, then the mark that they are due.
Completed(s) ==
  IF ~s.group.effect THEN Done(s)
  ELSE LET w == Purged(s)
       IN  Then(w, Done([w.done EXCEPT !.group.effect = FALSE]))

Transferred_Slip(s) ==
  LET t == [s EXCEPT !.group.outbound = {}]
  IN  Then(Done(t), Done([t EXCEPT !.outbox = @ \cup s.group.outbound]))

\* transfer_outbound: the outbox first, then the copy in the group.
Transferred(s) ==
  LET t == [s EXCEPT !.outbox = @ \cup s.group.outbound]
  IN  Then(Done(t), Done([t EXCEPT !.group.outbound = {}]))

Synced(d, s, g, text) == [s EXCEPT !.outbox = @ \cup Linked(d, g, text)]

-----------------------------------------------------------------------------
Without(requests, id) == SelectSeq(requests, LAMBDA q : q.id # id)

Counted_Slip(g, r) == [g EXCEPT !.rev = @ + 1, !.requests = Without(@, r.id)]

\* One revision carries the request, which is then known.
Counted(g, r) ==
  [g EXCEPT !.rev = @ + 1, !.processed = @ \cup {r.id}, !.requests = Without(@, r.id)]

\* apply_request on the coordinator, once the request is authorized and possible.
Revised(d, g, r) == Counted(Changed([g EXCEPT !.coord = d], r), r)

Announced(d, g, r) ==
  LET new == Revised(d, g, r)
  IN  Seal(d, DevicesOf(g.members \cup new.members), "snapshot",
           [snapshot |-> Snapshot(d, new), event |-> r.id])

Invited(d, g, r) ==
  IF r.kind # "link" THEN {}
  ELSE Seal(d, DevicesOf({r.actor} \ {AccountOf[d]}), "invite",
            [generation |-> Revised(d, g, r).gen])

Decided(d, g, r) ==
  [Revised(d, g, r) EXCEPT !.effect = TRUE,
     !.outbound = @ \cup Announced(d, g, r) \cup Invited(d, g, r)]

Applied(d, s, r) ==
  LET g == Decided(d, s.group, r)
      t == [Saved(s, g) EXCEPT !.told = @ \cup Announced(d, s.group, r)]
      w == Then(Done(t), Completed(t))
      x == Then(w, Transferred(w.done))
  IN  Then(x, Done(Synced(d, x.done, Cleared(g), None)))

CanApply(d, g, r) ==
  r.id \notin g.processed /\ Authorized(d, g, r) /\ Possible(d, g, r)

\* prepare_leave
Leaving(g, successor) ==
  [g EXCEPT !.left = TRUE, !.removed = TRUE, !.requests = <<>>, !.effect = FALSE,
            !.outbound = {}, !.departing = TRUE, !.successor = successor]

\* The first of the admins by identifier, or of the members: any of them here.
Successors(d, g) ==
  LET admins == {a \in g.members : g.roles[a] # None}
  IN  IF g.owner # AccountOf[d] \/ g.members = {} THEN {None}
      ELSE IF admins # {} THEN admins ELSE g.members

\* flush_departures
Flushed(d, s) ==
  IF ~s.group.departing THEN s
  ELSE Saved(s, [s.group EXCEPT !.departing = FALSE, !.successor = None,
                   !.outbound = @ \cup Seal(d, DevicesOf(s.group.members), "departure",
                                            [successor |-> s.group.successor])])

\* The request at the head of the queue: applied, or rejected to who made it.
Worked(d, s) ==
  LET g == s.group
      r == Head(g.requests)
  IN  IF ~IsCoordinator(d, g) \/ g.requests = <<>> \/ r.id \in g.processed THEN Done(s)
      ELSE IF CanApply(d, g, r) THEN Applied(d, s, r)
      ELSE Done(Saved(s, [g EXCEPT !.requests = Without(@, r.id),
                            !.outbound = @ \cup Seal(d, DevicesOf({r.actor} \cap g.members),
                                                     "rejected", [event |-> r.id])]))

\* process_requests, at the end of every pass of sync_inbound_messages.
Processed(d, s) ==
  LET t == Flushed(d, s)
      w == Then(Done(t), Transferred(t))
      x == Then(w, Worked(d, w.done))
      y == Then(x, Transferred(x.done))
  IN  Then(y, Completed(y.done))

-----------------------------------------------------------------------------
(***************************************************************************)
(* receive_control: what the vault of d goes through when it handles p.    *)
(* A packet that is ignored or refused changes nothing; both consume it.   *)
(***************************************************************************)
Ignored(s) == Done(s)

Sender(p) == AccountOf[p.from]

OnDeparture(d, s, p) ==
  LET g    == s.group
      from == Sender(p)
      next == p.body.successor
      gone == [g EXCEPT !.members = @ \ {from}, !.roles[from] = None,
                        !.departed = @ \cup {from}]
      new  == IF g.owner = from
              THEN [gone EXCEPT !.owner = next, !.rev = @ + 1, !.invite = 0, !.shared = 0,
                      !.coord = IF next = AccountOf[d] THEN d ELSE Primary[next]]
              ELSE [gone EXCEPT !.rev = IF IsCoordinator(d, g) THEN @ + 1 ELSE @]
  IN  IF \/ g.left \/ from \in g.departed \/ from \notin g.members
         \/ g.owner = from /\ next \notin (g.members \ {from}) \cup {AccountOf[d]}
         \/ g.owner # from /\ next # None
      THEN Ignored(s)
      ELSE LET t == Saved(s, new)
           IN  Then(Done(t), Done(Synced(d, t, Cleared(new), None)))

Adopted(s, g) == LET t == Saved(s, g) IN Then(Done(t), Completed(t))

OnSnapshot(d, s, p) ==
  LET g    == s.group
      got  == p.body.snapshot
      mine == AccountOf[d]
      base == [got EXCEPT !.removed = mine \notin got.members,
                          !.members = @ \ {mine}, !.effect = TRUE]
      gone == g.departed \cap base.members
      new  == [base EXCEPT !.departed = gone, !.members = @ \ gone,
                 !.requests = SelectSeq(g.requests, LAMBDA q :
                     q.id # p.body.event /\ ~AlreadyApplied(base, q)),
                 !.outbound = g.outbound, !.shared = g.shared]
  IN  IF g = NoGroup
      THEN IF mine \in got.members THEN Adopted(s, base) ELSE Ignored(s)
      ELSE IF \/ g.left \/ g.owner # Sender(p) \/ g.coord # p.from
              \/ got.rev <= g.rev \/ g.closed
      THEN Ignored(s)
      ELSE Adopted(s, new)

Queued(s, r) == Done(Saved(s, [s.group EXCEPT !.requests = Append(@, r)]))

Known(g, id) == id \in g.processed \/ \E i \in DOMAIN g.requests : g.requests[i].id = id

OnRequest(d, s, p) ==
  LET g == s.group
      r == p.body.request
  IN  IF g.left \/ ~IsCoordinator(d, g) \/ ~Authorized(d, g, r) \/ Known(g, r.id)
      THEN Ignored(s) ELSE Queued(s, r)

\* The link may have expired meanwhile, which the token does not show.
OnJoin(d, s, p, expired) ==
  LET g == s.group
  IN  IF \/ g.left \/ ~IsCoordinator(d, g) \/ g.closed \/ expired
         \/ g.invite = 0 \/ g.invite # p.body.token
         \/ Known(g, p.body.id) \/ Sender(p) \in g.members
      THEN Ignored(s)
      ELSE Queued(s, [id |-> p.body.id, actor |-> g.owner, kind |-> "add",
                      who |-> Sender(p), rights |-> {}])

OnInvite(s, p) ==
  IF s.group.left \/ s.group.owner # Sender(p) THEN Ignored(s)
  ELSE Done(Saved(s, [s.group EXCEPT !.shared = p.body.generation]))

OnRejected(s, p) ==
  IF s.group.left \/ s.group.owner # Sender(p) THEN Ignored(s)
  ELSE Adopted(s, [s.group EXCEPT !.effect = TRUE, !.requests = Without(@, p.body.event)])

\* The invitation to a new group: only the first one counts.
OnInvitation(d, s, p) ==
  LET got == p.body.invitation
  IN  IF s.group # NoGroup THEN Ignored(s)
      ELSE Done(Saved(s, [got EXCEPT !.members = (@ \ {AccountOf[d]}) \cup {Sender(p)}]))

OnText(d, s, p) ==
  LET g == s.group
      m == p.body.text
  IN  IF g.closed \/ g.removed \/ m \in g.deleted \/ Sender(p) \notin g.members \cup {g.owner}
      THEN Ignored(s)
      ELSE LET t == [s EXCEPT !.history = @ \cup {m}]
           IN  Then(Done(t), Done(Synced(d, t, g, m)))

Preserved_Slip(g, got) ==
  [got EXCEPT !.outbound = g.outbound, !.requests = g.requests, !.processed = g.processed]

\* preserve_local_queues: what an incoming copy may not overwrite.
Preserved(g, got) ==
  LET left == g.left \/ got.left
      gone == g.departed \cup got.departed
  IN  [got EXCEPT !.left = left, !.removed = @ \/ left,
         !.departing = g.departing \/ @,
         !.successor = IF g.departing THEN g.successor ELSE @,
         !.departed = gone, !.members = @ \ gone,
         !.outbound = IF left /\ ~g.left THEN {} ELSE g.outbound,
         !.requests = IF left THEN <<>> ELSE g.requests,
         !.processed = g.processed,
         !.effect = ~left /\ (@ \/ g.closed # got.closed \/ g.deleted # got.deleted)]

Merged(g, got) ==
  IF g = NoGroup THEN got
  ELSE LET new == Preserved(g, got)
       IN  IF (new.left /\ ~g.left) \/ (new.rev >= g.rev /\ ~g.closed) THEN new ELSE g

\* apply_device_sync: the history and the outbox of a left group go first.
OnSync(s, p) ==
  LET g    == Merged(s.group, p.body.sync)
      text == {p.body.text} \ {None}
      with == IF g.closed \/ g.left \/ g.removed THEN {} ELSE text \ g.deleted
      t    == [s EXCEPT !.history = @ \cup with]
      u    == IF g.left THEN Cancelled(t, t.history) ELSE t
      v    == IF g.left THEN [u EXCEPT !.history = {}] ELSE u
  IN  [stops |-> {t, u, v}, done |-> Saved(v, g)]

Outcome(d, s, p, expired) ==
  CASE p.kind = "departure"  -> OnDeparture(d, s, p)
    [] p.kind = "snapshot"   -> OnSnapshot(d, s, p)
    [] p.kind = "request"    -> OnRequest(d, s, p)
    [] p.kind = "join"       -> OnJoin(d, s, p, expired)
    [] p.kind = "invite"     -> OnInvite(s, p)
    [] p.kind = "rejected"   -> OnRejected(s, p)
    [] p.kind = "invitation" -> OnInvitation(d, s, p)
    [] p.kind = "text"       -> OnText(d, s, p)
    [] p.kind = "sync"       -> OnSync(s, p)

\* Without the group these stay in the mailbox; a Join or a Request is refused.
NeedsGroup == {"departure", "request", "invite", "rejected", "text"}

-----------------------------------------------------------------------------
HasGroup(d) == dev[d].group # NoGroup

MoreEvents == Cardinality(asked) + Cardinality(joins) + leaves + cuts < MaxEvents

MoreCuts == cuts < MaxCuts /\ MoreEvents

\* A command of d runs to its last write or dies after an earlier one.
Command(d, w) ==
  \/ dev' = [dev EXCEPT ![d] = w.done] /\ UNCHANGED cuts
  \/ /\ MoreCuts /\ cuts' = cuts + 1
     /\ \E s \in w.stops : dev' = [dev EXCEPT ![d] = s]

Create(d) ==
  LET g == NewGroup(d, Founders)
      s == [dev[d] EXCEPT !.group = g]
      t == [s EXCEPT !.outbox = @ \cup
              Seal(d, DevicesOf(Founders), "invitation", [invitation |-> g])]
  IN  /\ d = Creator /\ ~HasGroup(d)
      /\ Command(d, Then(Then(Done(s), Done(t)), Done(Synced(d, t, g, None))))
      /\ UNCHANGED <<asked, joins, links, leaves, quit, answered>>

\* act; identifiers are random, so only a text one has can be deleted.
Act(d, r) ==
  LET s == dev[d]
      g == s.group
      t == Saved(s, [g EXCEPT !.requests = Append(@, r),
                       !.outbound = @ \cup Seal(d, {g.coord}, "request", [request |-> r])])
  IN  /\ HasGroup(d) /\ r.actor = AccountOf[d] /\ r.id \notin asked /\ MoreEvents
      /\ r.kind = "delete" => r.who \in s.history
      /\ Authorized(d, g, r) /\ ~AlreadyApplied(g, r)
      /\ asked' = asked \cup {r.id}
      /\ IF IsCoordinator(d, g)
         THEN CanApply(d, g, r) /\ Command(d, Applied(d, s, r))
         ELSE Command(d, Then(Done(t), Transferred(t)))
      /\ links' = IF IsCoordinator(d, g) /\ r.kind = "link"
                  THEN links \cup {[token |-> g.gen + 1, coord |-> d]} ELSE links
      /\ UNCHANGED <<joins, leaves, quit, answered>>

\* A new text has an identifier nobody has deleted yet.
SendText(d, m) ==
  LET s == dev[d]
      t == [s EXCEPT !.history = @ \cup {m},
              !.outbox = @ \cup Seal(d, DevicesOf(s.group.members), "text", [text |-> m])]
  IN  /\ HasGroup(d) /\ Author[m] = d /\ m \notin asked \cup s.group.deleted /\ MoreEvents
      /\ MayWrite(d, s.group, AccountOf[d])
      /\ asked' = asked \cup {m}
      /\ Command(d, Done(t))
      /\ UNCHANGED <<joins, links, leaves, quit, answered>>

\* delete_conversation of a group
Leave(d) ==
  LET s == dev[d]
  IN  /\ HasGroup(d) /\ ~s.group.left /\ MoreEvents
      /\ \E successor \in Successors(d, s.group) :
           LET g == Leaving(s.group, successor)
               t == Cancelled(s, s.history)
               u == Saved(t, g)
               v == [u EXCEPT !.history = {}]
           IN  Command(d, [stops |-> {t, u, v}, done |-> Synced(d, v, g, None)])
      /\ leaves' = leaves + 1
      /\ quit' = quit \cup (IF dev'[d].group.left THEN {AccountOf[d]} ELSE {})
      /\ UNCHANGED <<asked, joins, links, answered>>

\* join, with a link found outside the group
Join(d, link, id) ==
  LET s     == dev[d]
      owner == AccountOf[link.coord]
      base  == IF HasGroup(d) THEN s.group
               ELSE [NewGroup(link.coord, {owner}) EXCEPT !.removed = TRUE]
      g     == [base EXCEPT !.left = FALSE, !.departing = FALSE, !.successor = None,
                  !.outbound = @ \cup
                    Seal(d, {link.coord}, "join", [token |-> link.token, id |-> id])]
      t     == Saved(s, g)
  IN  /\ owner # AccountOf[d] /\ id \notin joins /\ MoreEvents
      /\ base.owner = owner /\ ~base.closed /\ base.removed
      /\ joins' = joins \cup {id}
      /\ Command(d, Then(Done(t), Transferred(t)))
      /\ UNCHANGED <<asked, links, leaves, quit, answered>>

Process(d) ==
  /\ HasGroup(d)
  /\ Command(d, Processed(d, dev[d]))
  /\ dev' # dev
  /\ LET g == dev[d].group
         new == dev'[d].group.gen
     IN  links' = IF new > g.gen /\ dev'[d].group.invite = new
                  THEN links \cup {[token |-> new, coord |-> d]} ELSE links
  /\ UNCHANGED <<asked, joins, leaves, quit, answered>>

\* The outbox worker of a sender has handed p over; the last packet of a text
\* also tells the linked devices.
Handed(d, p) ==
  LET s    == dev[d]
      t    == [s EXCEPT !.outbox = @ \ {p}]
      last == /\ p.kind = "text" /\ p \in s.outbox /\ p.body.text \in s.history
              /\ TextOf(t.outbox, {p.body.text}) = {}
  IN  IF last THEN Synced(d, t, s.group, p.body.text) ELSE t

\* One packet handled: a copy of it is a duplicate to the ratchet then, unless the
\* process died before that was committed.  A linked device that got the group
\* from another may hold packets the other sealed.
Receive(d, p) ==
  /\ p.to = d
  /\ p.kind \in NeedsGroup => HasGroup(d)
  /\ \E expired \in (IF p.kind = "join" THEN BOOLEAN ELSE {FALSE}) :
       LET w == IF p.kind = "join" /\ ~HasGroup(d) THEN Ignored(dev[d])
                ELSE Outcome(d, dev[d], p, expired)
       IN  \/ /\ dev' = [e \in Device |-> IF e = d THEN w.done ELSE Handed(e, p)]
              /\ answered' = answered \cup (IF p.kind = "snapshot" THEN {p} ELSE {})
              /\ UNCHANGED cuts
           \/ /\ MoreCuts /\ cuts' = cuts + 1
              /\ \E s \in w.stops \cup {w.done} : dev' = [dev EXCEPT ![d] = s]
              /\ UNCHANGED answered
  /\ UNCHANGED <<asked, joins, links, leaves, quit>>

Init ==
  /\ dev = [d \in Device |-> [group |-> NoGroup, history |-> {}, outbox |-> {}, told |-> {}]]
  /\ asked = {} /\ joins = {} /\ links = {} /\ leaves = 0 /\ cuts = 0
  /\ quit = {} /\ answered = {}

Next == \E d \in Device :
  \/ Create(d)
  \/ \E r \in Request : Act(d, r)
  \/ \E m \in Msg : SendText(d, m)
  \/ Leave(d)
  \/ \E link \in links, id \in JoinId : Join(d, link, id)
  \/ Process(d)
  \/ \E p \in UNION {dev[e].outbox : e \in Device} : Receive(d, p)

Spec == Init /\ [][Next]_vars

-----------------------------------------------------------------------------
PacketKinds == NeedsGroup \cup {"snapshot", "join", "invitation", "sync"}

\* The variables range over what the code can store.
TypeOK ==
  /\ \A d \in Device :
       LET s == dev[d]
           g == s.group
       IN  /\ s.history \subseteq Msg
           /\ g # NoGroup => [g EXCEPT !.outbound = {}] \in Group
           /\ \A p \in s.outbox \cup (IF g = NoGroup THEN {} ELSE g.outbound) :
                /\ p.from \in Device /\ AccountOf[p.from] = AccountOf[d]
                /\ p.to \in Device \ {p.from} /\ p.kind \in PacketKinds
  /\ asked \subseteq {r.id : r \in Request} \cup Msg
  /\ joins \subseteq JoinId
  /\ leaves \in 0 .. MaxEvents /\ cuts \in 0 .. MaxCuts
  /\ quit \subseteq Account /\ \A p \in answered : p.kind = "snapshot"

\* Out: the device has left the group, or does not have it.
Out(d) == ~HasGroup(d) \/ dev[d].group.left

\* The authority over the group has been, or is being, handed to another account.
HandedOver == AccountOf[Creator] \in quit

Owes(d) == dev[d].outbox \cup (IF HasGroup(d) THEN dev[d].group.outbound ELSE {})

\* A group one has left stays left, and without its history, whatever old
\* snapshots, invitations and copies of linked devices arrive afterwards; only
\* a Join of that device opens it again.
LeftStaysLeft ==
  [][\A d \in Device :
       (HasGroup(d) /\ dev[d].group.left /\ joins' = joins)
         => /\ dev'[d].group.left
            /\ dev'[d].history \subseteq dev[d].history]_vars

\* A change that was applied reaches everyone it concerns: each snapshot a saved
\* group owes a member is kept by the coordinator until that member has dealt
\* with it, wherever a command dies; only leaving the group drops it.
EveryoneIsTold == \A d \in Device : dev[d].told \ answered \subseteq Owes(d)

\* A request is applied once: however often it arrives, one revision carries it,
\* as long as the group keeps its coordinator.
AppliedOnce ==
  ~HandedOver => \A p, q \in UNION {dev[d].told : d \in Device} :
    p.body.event = q.body.event => p.body.snapshot = q.body.snapshot

Quiet == \A d \in Device :
  /\ Owes(d) = {}
  /\ HasGroup(d) => ~dev[d].group.effect /\ ~dev[d].group.departing

Content(g) == <<g.info, g.deleted, g.closed, g.gen>>

\* The devices that take part in the group that c coordinates: its own account's, and
\* those of the accounts c counts that never left.
Follows(d, c) ==
  /\ HasGroup(d) /\ ~dev[d].group.removed /\ dev[d].group.coord = c
  /\ AccountOf[d] \in (dev[c].group.members \cup {AccountOf[c]}) \ quit

\* d and e know the same group: what it says, and the role and the membership of
\* everyone but those one of them knows to have departed.
Agree(d, e) ==
  LET g == dev[d].group
      f == dev[e].group
  IN  /\ Content(g) = Content(f)
      /\ \A a \in Account \ (g.departed \cup f.departed) :
           /\ g.roles[a] = f.roles[a]
           /\ a \in g.members \cup {AccountOf[d]} <=> a \in f.members \cup {AccountOf[e]}

\* No linked device can write into the vault of d.
Alone(d) == DevicesOf({AccountOf[d]}) = {d}

\* When nothing is under way, whoever takes part in the group holds what its
\* coordinator holds, and no text that was deleted for everyone.  A linked device of
\* the coordinator, told by copies alone, misses one that a death kept from it; and a
\* copy takes away the mark that a linked device has texts to delete.
QuietMeansAgreed ==
  (Quiet /\ ~HandedOver /\ ~Out(Creator)) =>
    \A d \in Device : Follows(d, Creator) =>
      /\ AccountOf[d] # AccountOf[Creator] \/ cuts = 0 => Agree(d, Creator)
      /\ Alone(d) => dev[d].history \cap dev[Creator].group.deleted = {}

=============================================================================
