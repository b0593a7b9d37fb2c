------------------------- MODULE GroupControlProofs -------------------------
(***************************************************************************)
(* Proofs about GroupControl, for any devices, accounts, requests, links   *)
(* and numbers of commands that die.  The first part is about IInv, what   *)
(* every stored group keeps to; the second, from About on, about the       *)
(* chronicle of the creator's group and what the others know of it.        *)
(***************************************************************************)
EXTENDS GroupControl, TLAPS

(***************************************************************************)
(* The inductive invariant says of every group that a device stores, or    *)
(* that a packet still carries, what the properties need of the stored     *)
(* ones.  h stands for HandedOver, a for the account that holds the group, *)
(* ans for the snapshots dealt with.                                       *)
(***************************************************************************)
GroupFields == {"rev", "owner", "coord", "members", "roles", "deleted", "closed", "info", "gen",
                "invite", "shared", "removed", "left", "departing", "successor", "departed",
                "requests", "processed", "outbound", "effect"}
StateFields == {"group", "history", "outbox", "told"}

IsGroup(g) == g = [f \in GroupFields |-> g[f]]
IsState(s) == s = [f \in StateFields |-> s[f]]

Founder == AccountOf[Creator]

\* The creator rules until his account has left; a group one has left is removed.
Ruled(g, h) == h \/ (g.owner = Founder /\ g.coord = Creator)

Core(g, a, h) ==
  /\ IsGroup(g) /\ g.gen \in Nat
  /\ g.left => g.removed
  /\ Ruled(g, h)
  /\ g.departing => h \/ a # Founder

\* A group as snapshots and invitations carry it.
Bare(g, h) ==
  /\ IsGroup(g) /\ g.gen \in Nat /\ Ruled(g, h)
  /\ g.left = FALSE /\ g.departing = FALSE /\ g.outbound = {}

\* A packet: nobody of the creator's account departs before it has left.
Carried(p, h) ==
  /\ p.kind \in PacketKinds /\ p.from # p.to
  /\ p.kind = "snapshot" => Bare(p.body.snapshot, h)
  /\ p.kind = "invitation" => Bare(p.body.invitation, h)
  /\ p.kind = "departure" => h \/ AccountOf[p.from] # Founder

GroupSound(g, a, h) ==
  Core(g, a, h) /\ \A p \in g.outbound : Carried(p, h) /\ p.kind # "sync"

PacketSound(p, h) ==
  Carried(p, h) /\ (p.kind = "sync" => GroupSound(p.body.sync, AccountOf[p.to], h))

\* What was told is kept until it is dealt with; only the creator tells, and what he
\* told is among the requests he knows.
ToldSound(s, d, h, ans) ==
  /\ \A p \in s.told : /\ p.kind = "snapshot"
                       /\ p \in ans \/ p \in s.outbox \/ p \in s.group.outbound
  /\ h \/ /\ d # Creator => s.told = {}
          /\ \A p \in s.told : p.body.event \in s.group.processed
          /\ \A p, q \in s.told : p.body.event = q.body.event => p.body.snapshot = q.body.snapshot

StateSound(s, d, h, ans) ==
  /\ IsState(s)
  /\ s.group = NoGroup => s.outbox = {} /\ s.told = {}
  /\ s.group # NoGroup => GroupSound(s.group, AccountOf[d], h)
  /\ \A p \in s.outbox : PacketSound(p, h)
  /\ ToldSound(s, d, h, ans)

IInv ==
  /\ dev = [d \in Device |-> dev[d]]
  /\ \A d \in Device : StateSound(dev[d], d, HandedOver, answered)
  /\ HandedOver \/ \A l \in links : l.coord = Creator

\* What LeftStaysLeft says of one device.
HasLeft(s) == s.group # NoGroup /\ s.group.left

Stays(s, t) == HasLeft(s) => HasLeft(t) /\ t.history \subseteq s.history

(***************************************************************************)
(* Groups.                                                                 *)
(***************************************************************************)

\* A stored group can be told from none.
LEMMA SomeGroup ==
  ASSUME NEW g, IsGroup(g)
  PROVE  g # NoGroup
<1>1. DOMAIN g = GroupFields
  BY DEF IsGroup
<1>2. DOMAIN NoGroup # GroupFields
  BY DEF NoGroup, GroupFields
<1> QED BY <1>1, <1>2

\* n has the authority and the standing of g.
Same(g, n) ==
  /\ IsGroup(n) /\ n.gen \in Nat
  /\ n.owner = g.owner /\ n.coord = g.coord
  /\ n.left = g.left /\ n.removed = g.removed /\ n.departing = g.departing

LEMMA SameSound ==
  ASSUME NEW g, NEW n, NEW a, NEW h, GroupSound(g, a, h), Same(g, n),
         \A p \in n.outbound : p \in g.outbound \/ (Carried(p, h) /\ p.kind # "sync")
  PROVE  GroupSound(n, a, h)
BY DEF GroupSound, Core, Ruled, Same

LEMMA NewGroupFields ==
  ASSUME NEW d, NEW accounts, NEW h, h \/ d = Creator
  PROVE  Bare(NewGroup(d, accounts), h)
BY DEF Bare, Ruled, Founder, IsGroup, GroupFields, NewGroup

LEMMA ClearedSame ==
  ASSUME NEW g, NEW a, NEW h, GroupSound(g, a, h)
  PROVE  GroupSound(Cleared(g), a, h)
<1>1. Same(g, Cleared(g)) /\ Cleared(g).outbound = {}
  BY DEF GroupSound, Core, Same, IsGroup, GroupFields, Cleared
<1> QED BY <1>1, SameSound

\* A change touches neither the authority nor what is known or owed.
LEMMA ChangedSame ==
  ASSUME NEW g, IsGroup(g), g.gen \in Nat, NEW r, NEW n, n = Changed(g, r)
  PROVE  Same(g, n) /\ n.outbound = g.outbound /\ n.processed = g.processed
<1>1. CASE r.kind = "info"
  BY <1>1 DEF IsGroup, GroupFields, Changed, Described, Same
<1>2. CASE r.kind = "delete"
  BY <1>2 DEF IsGroup, GroupFields, Changed, Same
<1>3. CASE r.kind = "add"
  BY <1>3 DEF IsGroup, GroupFields, Changed, Same
<1>4. CASE r.kind = "remove"
  BY <1>4 DEF IsGroup, GroupFields, Changed, Same
<1>5. CASE r.kind = "grant"
  BY <1>5 DEF IsGroup, GroupFields, Changed, Same
<1>6. CASE r.kind = "revoke role"
  BY <1>6 DEF IsGroup, GroupFields, Changed, Same
<1>7. CASE r.kind = "close"
  BY <1>7 DEF IsGroup, GroupFields, Changed, Same
<1>8. CASE r.kind = "link"
  <2>1. PICK k \in Nat : k = g.gen + 1
    OBVIOUS
  <2>2. n = [g EXCEPT !.gen = k, !.invite = k]
    BY <1>8, <2>1 DEF Changed
  <2> QED BY <2>2 DEF IsGroup, GroupFields, Same
<1>9. CASE r.kind \notin {"info", "delete", "add", "remove", "grant", "revoke role", "close",
                          "link"}
  <2>1. PICK k \in Nat : k = g.gen + 1
    OBVIOUS
  <2>2. n = [g EXCEPT !.gen = k, !.invite = 0]
    BY <1>9, <2>1 DEF Changed
  <2> QED BY <2>2 DEF IsGroup, GroupFields, Same
<1> QED BY <1>1, <1>2, <1>3, <1>4, <1>5, <1>6, <1>7, <1>8, <1>9

\* The revision that carries a request knows it.
LEMMA RevisedSame ==
  ASSUME NEW g, IsGroup(g), g.gen \in Nat, NEW d, NEW r, NEW n, n = Revised(d, g, r)
  PROVE  /\ IsGroup(n) /\ n.gen \in Nat
         /\ n.owner = g.owner /\ n.coord = d
         /\ n.left = g.left /\ n.removed = g.removed /\ n.departing = g.departing
         /\ n.outbound = g.outbound /\ n.processed = g.processed \cup {r.id}
<1>1. PICK f : f = [g EXCEPT !.coord = d]
  OBVIOUS
<1>2. PICK c : c = Changed(f, r)
  OBVIOUS
<1>3. /\ IsGroup(f) /\ f.gen = g.gen /\ f.owner = g.owner /\ f.coord = d
      /\ f.left = g.left /\ f.removed = g.removed /\ f.departing = g.departing
      /\ f.outbound = g.outbound /\ f.processed = g.processed
  BY <1>1 DEF IsGroup, GroupFields
<1>4. Same(f, c) /\ c.outbound = f.outbound /\ c.processed = f.processed
  BY <1>2, <1>3, ChangedSame
<1>5. n = Counted(c, r)
  BY <1>1, <1>2 DEF Revised
<1>6. /\ IsGroup(n) /\ n.gen = c.gen /\ n.owner = c.owner /\ n.coord = c.coord
      /\ n.left = c.left /\ n.removed = c.removed /\ n.departing = c.departing
      /\ n.outbound = c.outbound /\ n.processed = c.processed \cup {r.id}
  BY <1>4, <1>5 DEF Same, Counted, IsGroup, GroupFields
<1> QED BY <1>3, <1>4, <1>6 DEF Same

\* What the members are told carries no queue and nothing of the coordinator's own.
LEMMA SnapshotBare ==
  ASSUME NEW g, IsGroup(g), g.gen \in Nat, NEW d, NEW h, Ruled(g, h)
  PROVE  Bare(Snapshot(d, g), h)
<1>1. PICK c : c = Cleared(g)
  OBVIOUS
<1>2. /\ IsGroup(c) /\ c.gen = g.gen /\ c.owner = g.owner /\ c.coord = g.coord /\ c.outbound = {}
  BY <1>1 DEF Cleared, IsGroup, GroupFields
<1>3. PICK n : n = Snapshot(d, g)
  OBVIOUS
<1>4. n = [c EXCEPT !.members = @ \cup {AccountOf[d]}, !.processed = {},
             !.invite = 0, !.shared = 0, !.left = FALSE, !.departing = FALSE,
             !.successor = None, !.departed = {}]
  BY <1>1, <1>3 DEF Snapshot
<1>5. /\ IsGroup(n) /\ n.gen = c.gen /\ n.owner = c.owner /\ n.coord = c.coord /\ n.outbound = {}
      /\ n.left = FALSE /\ n.departing = FALSE
  BY <1>2, <1>4 DEF IsGroup, GroupFields
<1> QED BY <1>2, <1>3, <1>5 DEF Bare, Ruled

\* A copy of the group from a linked device keeps what is queued and known here.
LEMMA PreservedFields ==
  ASSUME NEW g, IsGroup(g), NEW got, IsGroup(got), NEW n, n = Preserved(g, got)
  PROVE  /\ IsGroup(n) /\ n.gen = got.gen /\ n.owner = got.owner /\ n.coord = got.coord
         /\ n.left <=> g.left \/ got.left
         /\ n.removed <=> got.removed \/ g.left \/ got.left
         /\ n.departing <=> g.departing \/ got.departing
         /\ n.outbound = IF n.left /\ ~g.left THEN {} ELSE g.outbound
         /\ n.processed = g.processed
BY DEF IsGroup, GroupFields, Preserved

LEMMA MergedSound ==
  ASSUME NEW g, NEW got, NEW a, NEW h, g # NoGroup => GroupSound(g, a, h), GroupSound(got, a, h),
         NEW n, n = Merged(g, got)
  PROVE  /\ GroupSound(n, a, h)
         /\ g # NoGroup => /\ g.left => n.left
                           /\ n.left \/ n.outbound = g.outbound
                           /\ n.processed = g.processed
<1>1. CASE g = NoGroup
  BY <1>1 DEF Merged
<1>2. CASE g # NoGroup
  <2>1. PICK m : m = Preserved(g, got)
    OBVIOUS
  <2>2. n = m \/ n = g
    BY <1>2, <2>1 DEF Merged
  <2>3. /\ IsGroup(m) /\ m.gen = got.gen /\ m.owner = got.owner /\ m.coord = got.coord
        /\ m.left <=> g.left \/ got.left
        /\ m.removed <=> got.removed \/ g.left \/ got.left
        /\ m.departing <=> g.departing \/ got.departing
        /\ m.outbound = IF m.left /\ ~g.left THEN {} ELSE g.outbound
        /\ m.processed = g.processed
    BY <1>2, <2>1, PreservedFields DEF GroupSound, Core
  <2>4. Core(m, a, h)
    BY <1>2, <2>3 DEF GroupSound, Core, Ruled
  <2>5. GroupSound(m, a, h)
    BY <1>2, <2>3, <2>4 DEF GroupSound
  <2> QED BY <1>2, <2>2, <2>3, <2>5
<1> QED BY <1>1, <1>2

(***************************************************************************)
(* Packets, and single writes.                                             *)
(***************************************************************************)

LEMMA SealFields ==
  ASSUME NEW d, NEW to, NEW kind, NEW body, NEW p \in Seal(d, to, kind, body)
  PROVE  p.from = d /\ p.to \in to /\ p.from # p.to /\ p.kind = kind /\ p.body = body
BY DEF Seal

LEMMA KindsKnown ==
  /\ NeedsGroup \subseteq PacketKinds
  /\ {"snapshot", "join", "invitation", "sync"} \subseteq PacketKinds
BY DEF PacketKinds

\* Packets that carry neither a group nor a departure.
LEMMA SealPlain ==
  ASSUME NEW d, NEW to, NEW kind, NEW body, NEW h,
         kind \in {"request", "invite", "rejected", "text", "join"},
         NEW p \in Seal(d, to, kind, body)
  PROVE  Carried(p, h) /\ PacketSound(p, h) /\ p.kind # "sync"
BY SealFields DEF Carried, PacketSound, PacketKinds, NeedsGroup

LEMMA LinkedSound ==
  ASSUME NEW d, NEW g, NEW text, NEW h, GroupSound(g, AccountOf[d], h), NEW p \in Linked(d, g, text)
  PROVE  PacketSound(p, h) /\ p.kind = "sync"
<1>1. /\ p.from # p.to /\ p.kind = "sync" /\ p.to \in DevicesOf({AccountOf[d]})
      /\ p.body = [sync |-> g, text |-> text]
  BY SealFields DEF Linked
<1>2. p.body.sync = g /\ AccountOf[p.to] = AccountOf[d]
  BY <1>1 DEF DevicesOf
<1> QED BY <1>1, <1>2, KindsKnown DEF Carried, PacketSound

\* s and t differ in their history only.
LEMMA HistoryWritten ==
  ASSUME NEW s, NEW d, NEW h, NEW ans, StateSound(s, d, h, ans), NEW H,
         NEW t, t = [s EXCEPT !.history = H]
  PROVE  /\ StateSound(t, d, h, ans) /\ t.history = H
         /\ t.group = s.group /\ t.outbox = s.outbox /\ t.told = s.told
         /\ H \subseteq s.history \/ ~HasLeft(s) => Stays(s, t)
<1>1. /\ IsState(t) /\ t.history = H
      /\ t.group = s.group /\ t.outbox = s.outbox /\ t.told = s.told
  BY DEF StateSound, IsState, StateFields
<1> QED BY <1>1 DEF StateSound, ToldSound, Stays, HasLeft

\* Packets are added to the outbox of a device that has the group.
LEMMA OutboxWritten ==
  ASSUME NEW s, NEW d, NEW h, NEW ans, StateSound(s, d, h, ans), s.group # NoGroup,
         NEW P, \A p \in P : PacketSound(p, h), NEW t, t = [s EXCEPT !.outbox = @ \cup P]
  PROVE  /\ StateSound(t, d, h, ans) /\ t.outbox = s.outbox \cup P
         /\ t.group = s.group /\ t.history = s.history /\ t.told = s.told
         /\ Stays(s, t)
<1>1. /\ IsState(t) /\ t.history = s.history
      /\ t.group = s.group /\ t.outbox = s.outbox \cup P /\ t.told = s.told
  BY DEF StateSound, IsState, StateFields
<1> QED BY <1>1 DEF StateSound, ToldSound, Stays, HasLeft

LEMMA SyncedSound ==
  ASSUME NEW s, NEW d, NEW h, NEW ans, StateSound(s, d, h, ans), s.group # NoGroup,
         NEW g, GroupSound(g, AccountOf[d], h), NEW text, NEW t, t = Synced(d, s, g, text)
  PROVE  StateSound(t, d, h, ans) /\ t.group = s.group /\ t.history = s.history /\ Stays(s, t)
<1>1. \A p \in Linked(d, g, text) : PacketSound(p, h)
  BY LinkedSound
<1> QED BY <1>1, OutboxWritten DEF Synced

\* Texts are withdrawn from the outbox.
LEMMA CancelledSound ==
  ASSUME NEW s, NEW d, NEW h, NEW ans, StateSound(s, d, h, ans), NEW msgs,
         NEW t, t = Cancelled(s, msgs)
  PROVE  /\ StateSound(t, d, h, ans)
         /\ t.group = s.group /\ t.history = s.history /\ t.told = s.told
         /\ Stays(s, t)
<1>1. /\ IsState(t) /\ t.history = s.history /\ t.group = s.group /\ t.told = s.told
      /\ t.outbox = s.outbox \ TextOf(s.outbox, msgs)
  BY DEF StateSound, IsState, StateFields, Cancelled
<1>2. \A p \in s.outbox : p.kind = "snapshot" => p \in t.outbox
  BY <1>1 DEF TextOf
<1>3. ToldSound(t, d, h, ans)
  BY <1>1, <1>2 DEF StateSound, ToldSound
<1> QED BY <1>1, <1>3 DEF StateSound, Stays, HasLeft

\* The group is replaced by one that still owes what was told, or was left.
LEMMA SavedSound ==
  ASSUME NEW s, NEW d, NEW h, NEW ans, StateSound(s, d, h, ans),
         NEW g, GroupSound(g, AccountOf[d], h),
         s.group # NoGroup => /\ g.left \/ s.group.outbound \subseteq g.outbound
                              /\ h \/ d # Creator \/ s.group.processed \subseteq g.processed,
         NEW t, t = Saved(s, g)
  PROVE  /\ StateSound(t, d, h, ans) /\ t.group = g /\ t.group # NoGroup
         /\ t.history = s.history /\ t.outbox = s.outbox
         /\ ~g.left => t.told = s.told
         /\ (HasLeft(s) => g.left) => Stays(s, t)
<1>1. /\ IsState(t) /\ t.group = g /\ t.history = s.history /\ t.outbox = s.outbox
      /\ t.told = IF g.left THEN s.told \cap s.outbox ELSE s.told
  BY DEF StateSound, IsState, StateFields, Saved
<1>2. g # NoGroup
  BY SomeGroup DEF GroupSound, Core
<1>3. t.told \subseteq s.told
  BY <1>1
<1>4. \A p \in t.told : p.kind = "snapshot" /\ (p \in ans \/ p \in t.outbox \/ p \in g.outbound)
  <2>1. CASE s.group = NoGroup
    BY <1>3, <2>1 DEF StateSound
  <2>2. CASE s.group # NoGroup
    BY <1>1, <1>3, <2>2 DEF StateSound, ToldSound
  <2> QED BY <2>1, <2>2
<1>5. h \/ /\ d # Creator => t.told = {}
           /\ \A p \in t.told : p.body.event \in g.processed
           /\ \A p, q \in t.told : p.body.event = q.body.event => p.body.snapshot = q.body.snapshot
  <2>1. CASE s.group = NoGroup
    BY <1>3, <2>1 DEF StateSound
  <2>2. CASE s.group # NoGroup
    BY <1>3, <2>2 DEF StateSound, ToldSound
  <2> QED BY <2>1, <2>2
<1>6. ToldSound(t, d, h, ans)
  BY <1>1, <1>4, <1>5 DEF ToldSound
<1>7. StateSound(t, d, h, ans)
  BY <1>1, <1>2, <1>6 DEF StateSound
<1> QED BY <1>1, <1>2, <1>7 DEF Stays, HasLeft

LEMMA ToldKept ==
  ASSUME NEW s, NEW t, NEW d, NEW h, NEW ans, ToldSound(s, d, h, ans), t.told = s.told,
         s.outbox \subseteq t.outbox, t.group.processed = s.group.processed,
         s.group.outbound \subseteq t.group.outbound \cup t.outbox
  PROVE  ToldSound(t, d, h, ans)
BY DEF ToldSound

\* The mark that effects are due is removed.
Unmarked(s) == [s EXCEPT !.group.effect = FALSE]

LEMMA EffectCleared ==
  ASSUME NEW s, NEW d, NEW h, NEW ans, StateSound(s, d, h, ans), s.group # NoGroup,
         NEW t, t = Unmarked(s)
  PROVE  /\ StateSound(t, d, h, ans) /\ Same(s.group, t.group) /\ t.group # NoGroup
         /\ t.group.outbound = s.group.outbound /\ t.group.gen = s.group.gen /\ Stays(s, t)
<1>1. PICK g : g = [s.group EXCEPT !.effect = FALSE]
  OBVIOUS
<1>2. t = [s EXCEPT !.group = g]
  BY <1>1 DEF Unmarked
<1>3. IsState(t) /\ t.group = g /\ t.history = s.history /\ t.outbox = s.outbox /\ t.told = s.told
  BY <1>2 DEF StateSound, IsState, StateFields
<1>4. GroupSound(s.group, AccountOf[d], h)
  BY DEF StateSound
<1>5. /\ Same(s.group, g) /\ g.outbound = s.group.outbound /\ g.processed = s.group.processed
      /\ g.gen = s.group.gen
  BY <1>1, <1>4 DEF GroupSound, Core, IsGroup, GroupFields, Same
<1>6. GroupSound(g, AccountOf[d], h) /\ g # NoGroup
  BY <1>4, <1>5, SameSound, SomeGroup DEF Same
<1>7. ToldSound(t, d, h, ans)
  BY <1>3, <1>5, ToldKept DEF StateSound
<1>8. StateSound(t, d, h, ans)
  BY <1>3, <1>6, <1>7 DEF StateSound
<1> QED BY <1>3, <1>5, <1>6, <1>8 DEF Stays, HasLeft, Same

\* The copy in the group of packets that the outbox has is removed.
Emptied(s) == [s EXCEPT !.group.outbound = {}]

LEMMA OutboundCleared ==
  ASSUME NEW s, NEW d, NEW h, NEW ans, StateSound(s, d, h, ans), s.group # NoGroup,
         s.group.outbound \subseteq s.outbox,
         NEW t, t = Emptied(s)
  PROVE  /\ StateSound(t, d, h, ans) /\ Same(s.group, t.group) /\ t.group # NoGroup
         /\ t.group.gen = s.group.gen /\ Stays(s, t)
<1>1. PICK g : g = [s.group EXCEPT !.outbound = {}]
  OBVIOUS
<1>2. t = [s EXCEPT !.group = g]
  BY <1>1 DEF Emptied
<1>3. IsState(t) /\ t.group = g /\ t.history = s.history /\ t.outbox = s.outbox /\ t.told = s.told
  BY <1>2 DEF StateSound, IsState, StateFields
<1>4. GroupSound(s.group, AccountOf[d], h)
  BY DEF StateSound
<1>5. /\ Same(s.group, g) /\ g.outbound = {} /\ g.processed = s.group.processed
      /\ g.gen = s.group.gen
  BY <1>1, <1>4 DEF GroupSound, Core, IsGroup, GroupFields, Same
<1>6. GroupSound(g, AccountOf[d], h) /\ g # NoGroup
  BY <1>4, <1>5, SameSound, SomeGroup DEF Same
<1>7. ToldSound(t, d, h, ans)
  BY <1>3, <1>5, ToldKept DEF StateSound
<1>8. StateSound(t, d, h, ans)
  BY <1>3, <1>6, <1>7 DEF StateSound
<1> QED BY <1>3, <1>5, <1>6, <1>8 DEF Stays, HasLeft, Same

(***************************************************************************)
(* Commands: every state in which one may end or stop.                     *)
(***************************************************************************)
Fine(w, s, d, h, ans) ==
  \A t \in w.stops \cup {w.done} : StateSound(t, d, h, ans) /\ Stays(s, t)

LEMMA DoneFine ==
  ASSUME NEW s, NEW d, NEW h, NEW ans, NEW t, StateSound(t, d, h, ans), Stays(s, t)
  PROVE  Fine(Done(t), s, d, h, ans) /\ Done(t).done = t
BY DEF Fine, Done

\* No link is made in any of the states.
NoLink(w, k) == \A t \in w.stops \cup {w.done} : t.group.gen = k

LEMMA ThenNoLink ==
  ASSUME NEW w, NEW v, NEW k, NoLink(w, k), NoLink(v, k)
  PROVE  NoLink(Then(w, v), k)
BY DEF NoLink, Then

LEMMA DoneNoLink ==
  ASSUME NEW t
  PROVE  NoLink(Done(t), t.group.gen)
BY DEF NoLink, Done

LEMMA ThenFine ==
  ASSUME NEW s, NEW d, NEW h, NEW ans, NEW w, NEW v,
         Fine(w, s, d, h, ans), Fine(v, w.done, d, h, ans)
  PROVE  Fine(Then(w, v), s, d, h, ans) /\ Then(w, v).done = v.done
<1>1. Then(w, v).done = v.done /\ Then(w, v).stops = w.stops \cup {w.done} \cup v.stops
  BY DEF Then
<1>2. ASSUME NEW t \in v.stops \cup {v.done} PROVE StateSound(t, d, h, ans) /\ Stays(s, t)
  BY <1>2 DEF Fine, Stays
<1> QED BY <1>1, <1>2 DEF Fine

\* The texts of what was deleted, or closed, or left, go; nothing else.
LEMMA PurgedFine ==
  ASSUME NEW s, NEW d, NEW h, NEW ans, StateSound(s, d, h, ans), s.group # NoGroup,
         NEW w, w = Purged(s)
  PROVE  Fine(w, s, d, h, ans) /\ w.done.group = s.group /\ NoLink(w, s.group.gen)
<1>1. PICK t : t = [s EXCEPT !.history = Kept(s.group, @)]
  OBVIOUS
<1>2. PICK u : u = Cancelled(t, s.history \ t.history)
  OBVIOUS
<1>3. Kept(s.group, s.history) \subseteq s.history
  BY DEF Kept
<1>4. StateSound(t, d, h, ans) /\ t.group = s.group /\ Stays(s, t)
  BY <1>1, <1>3, HistoryWritten
<1>5. StateSound(u, d, h, ans) /\ u.group = t.group /\ Stays(t, u)
  BY <1>2, <1>4, CancelledSound
<1>6. w = Then(Done(t), Done(u))
  BY <1>1, <1>2 DEF Purged
<1>7. Fine(Done(t), s, d, h, ans) /\ Done(t).done = t
  BY <1>4, DoneFine
<1>8. Fine(Done(u), t, d, h, ans) /\ Done(u).done = u
  BY <1>5, DoneFine
<1>9. NoLink(w, s.group.gen)
  BY <1>4, <1>5, <1>6, ThenNoLink, DoneNoLink
<1>10. Fine(w, s, d, h, ans) /\ w.done = u
  BY <1>6, <1>7, <1>8, ThenFine
<1> QED BY <1>4, <1>5, <1>9, <1>10

\* A group whose authority, standing and links are those of g.
Alike(g, n) == n # NoGroup /\ Same(g, n) /\ n.gen = g.gen

LEMMA AlikeTransitive ==
  ASSUME NEW f, NEW g, NEW n, Alike(f, g), Alike(g, n)
  PROVE  Alike(f, n)
BY DEF Alike, Same

LEMMA AlikeSelf ==
  ASSUME NEW s, NEW d, NEW h, NEW ans, StateSound(s, d, h, ans), s.group # NoGroup
  PROVE  Alike(s.group, s.group)
BY DEF Alike, Same, StateSound, GroupSound, Core

LEMMA CompletedFine ==
  ASSUME NEW s, NEW d, NEW h, NEW ans, StateSound(s, d, h, ans), s.group # NoGroup,
         NEW w, w = Completed(s)
  PROVE  Fine(w, s, d, h, ans) /\ Alike(s.group, w.done.group) /\ NoLink(w, s.group.gen)
<1>1. CASE ~s.group.effect
  <2>1. w = Done(s) /\ Stays(s, s)
    BY <1>1 DEF Completed, Stays
  <2> QED BY <2>1, DoneFine, DoneNoLink, AlikeSelf
<1>2. CASE s.group.effect
  <2>1. PICK v : v = Purged(s)
    OBVIOUS
  <2>2. PICK t : t = Unmarked(v.done)
    OBVIOUS
  <2>3. Fine(v, s, d, h, ans) /\ v.done.group = s.group /\ NoLink(v, s.group.gen)
    BY <2>1, PurgedFine
  <2>4. StateSound(v.done, d, h, ans)
    BY <2>3 DEF Fine
  <2>5. PICK x : x = v.done
    OBVIOUS
  <2>6. /\ StateSound(t, d, h, ans) /\ Same(x.group, t.group) /\ t.group # NoGroup
        /\ t.group.gen = x.group.gen /\ Stays(x, t)
    BY <2>2, <2>3, <2>4, <2>5, EffectCleared
  <2>7. w = Then(v, Done(t))
    BY <1>2, <2>1, <2>2 DEF Completed, Unmarked
  <2>8. Fine(Done(t), v.done, d, h, ans) /\ Done(t).done = t
    BY <2>5, <2>6, DoneFine
  <2>9. NoLink(w, s.group.gen)
    BY <2>3, <2>5, <2>6, <2>7, ThenNoLink, DoneNoLink
  <2> QED BY <2>3, <2>5, <2>6, <2>7, <2>8, <2>9, ThenFine DEF Alike
<1> QED BY <1>1, <1>2

LEMMA TransferredFine ==
  ASSUME NEW s, NEW d, NEW h, NEW ans, StateSound(s, d, h, ans), s.group # NoGroup,
         NEW w, w = Transferred(s)
  PROVE  Fine(w, s, d, h, ans) /\ Alike(s.group, w.done.group) /\ NoLink(w, s.group.gen)
<1>1. PICK t : t = [s EXCEPT !.outbox = @ \cup s.group.outbound]
  OBVIOUS
<1>2. PICK u : u = Emptied(t)
  OBVIOUS
<1>3. \A p \in s.group.outbound : PacketSound(p, h)
  BY DEF StateSound, GroupSound, PacketSound
<1>4. /\ StateSound(t, d, h, ans) /\ t.group = s.group /\ Stays(s, t)
      /\ t.group.outbound \subseteq t.outbox
  BY <1>1, <1>3, OutboxWritten
<1>5. /\ StateSound(u, d, h, ans) /\ Same(t.group, u.group) /\ u.group # NoGroup
      /\ u.group.gen = t.group.gen /\ Stays(t, u)
  BY <1>2, <1>4, OutboundCleared
<1>6. w = Then(Done(t), Done(u))
  BY <1>1, <1>2 DEF Transferred, Emptied
<1>7. Fine(Done(t), s, d, h, ans) /\ Done(t).done = t
  BY <1>4, DoneFine
<1>8. Fine(Done(u), t, d, h, ans) /\ Done(u).done = u
  BY <1>5, DoneFine
<1>9. NoLink(w, s.group.gen)
  BY <1>4, <1>5, <1>6, ThenNoLink, DoneNoLink
<1> QED BY <1>4, <1>5, <1>6, <1>7, <1>8, <1>9, ThenFine DEF Alike

(***************************************************************************)
(* The coordinator applies a request.                                      *)
(***************************************************************************)

\* Who may write has not left.
LEMMA MayWriteStays ==
  ASSUME NEW s, NEW d, NEW h, NEW ans, StateSound(s, d, h, ans), s.group # NoGroup, NEW a,
         MayWrite(d, s.group, a)
  PROVE  ~s.group.left
BY DEF MayWrite, StateSound, GroupSound, Core

LEMMA AnnouncedFields ==
  ASSUME NEW d, NEW g, NEW r, NEW h, IsGroup(g), g.gen \in Nat, Ruled(g, h), g.coord = d,
         NEW p \in Announced(d, g, r)
  PROVE  /\ p.kind = "snapshot" /\ Carried(p, h)
         /\ p.body.event = r.id /\ p.body.snapshot = Snapshot(d, Revised(d, g, r))
<1>1. PICK n : n = Revised(d, g, r)
  OBVIOUS
<1>2. IsGroup(n) /\ n.gen \in Nat /\ n.owner = g.owner /\ n.coord = d
  BY <1>1, RevisedSame
<1>3. Bare(Snapshot(d, n), h)
  BY <1>2, SnapshotBare DEF Ruled
<1>4. PICK to : p \in Seal(d, to, "snapshot", [snapshot |-> Snapshot(d, n), event |-> r.id])
  BY <1>1 DEF Announced
<1>5. /\ p.from # p.to /\ p.kind = "snapshot"
      /\ p.body = [snapshot |-> Snapshot(d, n), event |-> r.id]
  BY <1>4, SealFields
<1> QED BY <1>1, <1>3, <1>5, KindsKnown DEF Carried

LEMMA InvitedFields ==
  ASSUME NEW d, NEW g, NEW r, NEW h, NEW p \in Invited(d, g, r)
  PROVE  Carried(p, h) /\ p.kind # "sync"
<1>1. PICK to, body : p \in Seal(d, to, "invite", body)
  BY DEF Invited
<1> QED BY <1>1, SealPlain

LEMMA DecidedFields ==
  ASSUME NEW d, NEW g, NEW r, NEW h, NEW a, GroupSound(g, a, h), g.coord = d,
         NEW n, n = Decided(d, g, r)
  PROVE  /\ GroupSound(n, a, h) /\ n.left = g.left
         /\ n.processed = g.processed \cup {r.id}
         /\ g.outbound \cup Announced(d, g, r) \subseteq n.outbound
<1>1. PICK v : v = Revised(d, g, r)
  OBVIOUS
<1>2. /\ Same(g, v) /\ v.outbound = g.outbound /\ v.processed = g.processed \cup {r.id}
  BY <1>1, RevisedSame DEF Same, GroupSound, Core
<1>3. PICK A : A = Announced(d, g, r)
  OBVIOUS
<1>4. PICK I : I = Invited(d, g, r)
  OBVIOUS
<1>5. n = [v EXCEPT !.effect = TRUE, !.outbound = @ \cup A \cup I]
  BY <1>1, <1>3, <1>4 DEF Decided
<1>6. Same(v, n) /\ n.processed = v.processed /\ n.outbound = v.outbound \cup A \cup I
  BY <1>2, <1>5 DEF Same, IsGroup, GroupFields
<1>7. Same(g, n)
  BY <1>2, <1>6 DEF Same
<1>8. \A p \in A \cup I : Carried(p, h) /\ p.kind # "sync"
  BY <1>3, <1>4, AnnouncedFields, InvitedFields DEF GroupSound, Core
<1>9. GroupSound(n, a, h)
  BY <1>2, <1>6, <1>7, <1>8, SameSound
<1> QED BY <1>2, <1>3, <1>6, <1>7, <1>9 DEF Same

\* The save that carries out a request, with what it tells the members.
LEMMA DecidedSaved ==
  ASSUME NEW s, NEW d, NEW h, NEW ans, StateSound(s, d, h, ans), s.group # NoGroup, NEW r,
         IsCoordinator(d, s.group), CanApply(d, s.group, r),
         NEW t, t = [Saved(s, Decided(d, s.group, r)) EXCEPT
                       !.told = @ \cup Announced(d, s.group, r)]
  PROVE  StateSound(t, d, h, ans) /\ t.group # NoGroup /\ ~HasLeft(s)
<1>1. PICK g : g = s.group
  OBVIOUS
<1>2. PICK n : n = Decided(d, g, r)
  OBVIOUS
<1>3. PICK A : A = Announced(d, g, r)
  OBVIOUS
<1>4. PICK u : u = Saved(s, n)
  OBVIOUS
<1>5. GroupSound(g, AccountOf[d], h) /\ g.coord = d /\ ~g.left /\ r.id \notin g.processed
  BY <1>1, MayWriteStays DEF StateSound, IsCoordinator, CanApply, Authorized
<1>6. /\ GroupSound(n, AccountOf[d], h) /\ n.left = g.left
      /\ n.processed = g.processed \cup {r.id}
      /\ g.outbound \cup A \subseteq n.outbound
  BY <1>2, <1>3, <1>5, DecidedFields
<1>7. /\ StateSound(u, d, h, ans) /\ u.group = n /\ u.group # NoGroup
      /\ u.outbox = s.outbox /\ u.told = s.told
  BY <1>1, <1>4, <1>5, <1>6, SavedSound
<1>8. t = [u EXCEPT !.told = @ \cup A]
  BY <1>1, <1>2, <1>3, <1>4
<1>9. IsState(t) /\ t.group = n /\ t.outbox = u.outbox /\ t.told = s.told \cup A
  BY <1>7, <1>8 DEF StateSound, IsState, StateFields
<1>10. PICK snap : \A p \in A : p.kind = "snapshot" /\ p.body.event = r.id /\ p.body.snapshot = snap
  <2>1. PICK snap : snap = Snapshot(d, Revised(d, g, r))
    OBVIOUS
  <2>2. IsGroup(g) /\ g.gen \in Nat /\ Ruled(g, h)
    BY <1>5 DEF GroupSound, Core
  <2>3. \A p \in A : p.kind = "snapshot" /\ p.body.event = r.id /\ p.body.snapshot = snap
    BY <1>3, <1>5, <2>1, <2>2, AnnouncedFields
  <2> QED BY <2>3
<1>11. h \/ d = Creator
  BY <1>5 DEF GroupSound, Core, Ruled
<1>12. /\ \A p \in s.told : /\ p.kind = "snapshot"
                            /\ p \in ans \/ p \in s.outbox \/ p \in n.outbound
       /\ h \/ /\ \A p \in s.told : p.body.event \in g.processed
               /\ \A p, q \in s.told :
                    p.body.event = q.body.event => p.body.snapshot = q.body.snapshot
  BY <1>1, <1>6 DEF StateSound, ToldSound
<1>13. \A p \in t.told : /\ p.kind = "snapshot"
                         /\ p \in ans \/ p \in t.outbox \/ p \in t.group.outbound
  BY <1>6, <1>7, <1>9, <1>10, <1>12
<1>14. h \/ \A p, q \in t.told : p.body.event = q.body.event => p.body.snapshot = q.body.snapshot
  BY <1>5, <1>9, <1>10, <1>12
<1>15. h \/ \A p \in t.told : p.body.event \in t.group.processed
  BY <1>6, <1>9, <1>10, <1>12
<1>16. ToldSound(t, d, h, ans)
  BY <1>11, <1>13, <1>14, <1>15 DEF ToldSound
<1>17. StateSound(t, d, h, ans)
  BY <1>6, <1>7, <1>9, <1>16 DEF StateSound
<1> QED BY <1>1, <1>5, <1>7, <1>9, <1>17 DEF HasLeft

LEMMA AppliedFine ==
  ASSUME NEW s, NEW d, NEW h, NEW ans, StateSound(s, d, h, ans), s.group # NoGroup, NEW r,
         IsCoordinator(d, s.group), CanApply(d, s.group, r), NEW w, w = Applied(d, s, r)
  PROVE  Fine(w, s, d, h, ans) /\ w.done.group # NoGroup
<1>1. PICK g : g = Decided(d, s.group, r)
  OBVIOUS
<1>2. PICK t : t = [Saved(s, g) EXCEPT !.told = @ \cup Announced(d, s.group, r)]
  OBVIOUS
<1>3. PICK v : v = Then(Done(t), Completed(t))
  OBVIOUS
<1>4. PICK x : x = Then(v, Transferred(v.done))
  OBVIOUS
<1>5. PICK u : u = Synced(d, x.done, Cleared(g), None)
  OBVIOUS
<1>6. w = Then(x, Done(u))
  BY <1>1, <1>2, <1>3, <1>4, <1>5 DEF Applied
<1>7. StateSound(t, d, h, ans) /\ t.group # NoGroup /\ Stays(s, t)
  BY <1>1, <1>2, DecidedSaved DEF Stays
<1>8. GroupSound(Cleared(g), AccountOf[d], h)
  BY <1>1, DecidedFields, ClearedSame DEF StateSound, IsCoordinator
<1>9. Fine(Done(t), s, d, h, ans) /\ Done(t).done = t
  BY <1>7, DoneFine
<1>10. Fine(Completed(t), t, d, h, ans) /\ Completed(t).done.group # NoGroup
  BY <1>7, CompletedFine DEF Alike
<1>11. Fine(v, s, d, h, ans) /\ v.done.group # NoGroup
  BY <1>3, <1>9, <1>10, ThenFine
<1>12. StateSound(v.done, d, h, ans)
  BY <1>11 DEF Fine
<1>13. Fine(Transferred(v.done), v.done, d, h, ans) /\ Transferred(v.done).done.group # NoGroup
  BY <1>11, <1>12, TransferredFine DEF Alike
<1>14. Fine(x, s, d, h, ans) /\ x.done.group # NoGroup
  BY <1>4, <1>11, <1>13, ThenFine
<1>15. StateSound(x.done, d, h, ans)
  BY <1>14 DEF Fine
<1>16. StateSound(u, d, h, ans) /\ u.group = x.done.group /\ Stays(x.done, u)
  BY <1>5, <1>8, <1>14, <1>15, SyncedSound
<1>17. Fine(Done(u), x.done, d, h, ans) /\ Done(u).done = u
  BY <1>16, DoneFine
<1> QED BY <1>6, <1>14, <1>16, <1>17, ThenFine

(***************************************************************************)
(* What a device does at the end of every pass: departures, a request.     *)
(***************************************************************************)
LEMMA FlushedSound ==
  ASSUME NEW s, NEW d, NEW h, NEW ans, StateSound(s, d, h, ans), s.group # NoGroup,
         NEW t, t = Flushed(d, s)
  PROVE  /\ StateSound(t, d, h, ans) /\ t.group # NoGroup /\ Stays(s, t)
         /\ t.group.gen = s.group.gen /\ t.group.owner = s.group.owner
         /\ t.group.coord = s.group.coord
<1>1. CASE ~s.group.departing
  BY <1>1 DEF Flushed, Stays
<1>2. CASE s.group.departing
  <2>1. PICK P : P = Seal(d, DevicesOf(s.group.members), "departure",
                          [successor |-> s.group.successor])
    OBVIOUS
  <2>2. PICK g : g = s.group
    OBVIOUS
  <2>3. PICK n : n = [g EXCEPT !.departing = FALSE, !.successor = None, !.outbound = @ \cup P]
    OBVIOUS
  <2>4. t = Saved(s, n)
    BY <1>2, <2>1, <2>2, <2>3 DEF Flushed
  <2>5. GroupSound(g, AccountOf[d], h)
    BY <2>2 DEF StateSound
  <2>6. \A p \in P : Carried(p, h) /\ p.kind # "sync"
    <3>1. h \/ AccountOf[d] # Founder
      BY <1>2, <2>2, <2>5 DEF GroupSound, Core
    <3>2. \A p \in P : p.from = d /\ p.from # p.to /\ p.kind = "departure"
      BY <2>1, SealFields
    <3> QED BY <3>1, <3>2, KindsKnown DEF Carried, NeedsGroup
  <2>7. /\ IsGroup(n) /\ n.gen = g.gen /\ n.owner = g.owner /\ n.coord = g.coord
        /\ n.left = g.left /\ n.removed = g.removed /\ n.departing = FALSE
        /\ n.outbound = g.outbound \cup P /\ n.processed = g.processed
    BY <2>3, <2>5 DEF GroupSound, Core, IsGroup, GroupFields
  <2>8. GroupSound(n, AccountOf[d], h)
    BY <2>5, <2>6, <2>7 DEF GroupSound, Core, Ruled
  <2>9. /\ StateSound(t, d, h, ans) /\ t.group = n /\ t.group # NoGroup
        /\ (HasLeft(s) => n.left) => Stays(s, t)
    BY <2>2, <2>4, <2>7, <2>8, SavedSound
  <2> QED BY <2>2, <2>7, <2>9 DEF HasLeft
<1> QED BY <1>1, <1>2

\* The group is replaced by one of the same authority that owes and knows no less.
LEMMA SameSaved ==
  ASSUME NEW s, NEW d, NEW h, NEW ans, StateSound(s, d, h, ans), s.group # NoGroup,
         NEW n, Same(s.group, n), s.group.outbound \subseteq n.outbound,
         s.group.processed \subseteq n.processed,
         \A p \in n.outbound : p \in s.group.outbound \/ (Carried(p, h) /\ p.kind # "sync"),
         NEW t, t = Saved(s, n)
  PROVE  /\ StateSound(t, d, h, ans) /\ Stays(s, t) /\ t.group = n /\ t.group # NoGroup
         /\ t.history = s.history /\ t.outbox = s.outbox
<1>1. GroupSound(n, AccountOf[d], h)
  BY SameSound DEF StateSound
<1>2. /\ StateSound(t, d, h, ans) /\ t.group = n /\ t.group # NoGroup
      /\ t.history = s.history /\ t.outbox = s.outbox
      /\ (HasLeft(s) => n.left) => Stays(s, t)
  BY <1>1, SavedSound
<1> QED BY <1>2 DEF HasLeft, Same

LEMMA WorkedFine ==
  ASSUME NEW s, NEW d, NEW h, NEW ans, StateSound(s, d, h, ans), s.group # NoGroup,
         NEW w, w = Worked(d, s)
  PROVE  /\ Fine(w, s, d, h, ans) /\ w.done.group # NoGroup
         /\ IsCoordinator(d, s.group) \/ (w.done.group = s.group /\ NoLink(w, s.group.gen))
<1>1. PICK g : g = s.group
  OBVIOUS
<1>2. PICK r : r = Head(g.requests)
  OBVIOUS
<1>3. CASE ~IsCoordinator(d, g) \/ g.requests = <<>> \/ r.id \in g.processed
  <2>1. w = Done(s) /\ Stays(s, s)
    BY <1>1, <1>2, <1>3 DEF Worked, Stays
  <2> QED BY <2>1, DoneFine, DoneNoLink
<1>4. CASE /\ IsCoordinator(d, g) /\ g.requests # <<>> /\ r.id \notin g.processed
           /\ CanApply(d, g, r)
  <2>1. w = Applied(d, s, r)
    BY <1>1, <1>2, <1>4 DEF Worked
  <2> QED BY <1>1, <1>4, <2>1, AppliedFine
<1>5. CASE /\ IsCoordinator(d, g) /\ g.requests # <<>> /\ r.id \notin g.processed
           /\ ~CanApply(d, g, r)
  <2>1. PICK to : to = DevicesOf({r.actor} \cap g.members)
    OBVIOUS
  <2>2. PICK P : P = Seal(d, to, "rejected", [event |-> r.id])
    OBVIOUS
  <2>3. PICK Q : Q = Without(g.requests, r.id)
    OBVIOUS
  <2>4. PICK n : n = [g EXCEPT !.requests = Q, !.outbound = @ \cup P]
    OBVIOUS
  <2>5. PICK t : t = Saved(s, n)
    OBVIOUS
  <2>6. w = Done(t)
    BY <1>1, <1>2, <1>5, <2>1, <2>2, <2>3, <2>4, <2>5 DEF Worked
  <2>7. GroupSound(g, AccountOf[d], h)
    BY <1>1 DEF StateSound
  <2>8. Same(g, n) /\ n.outbound = g.outbound \cup P /\ n.processed = g.processed
    BY <2>4, <2>7 DEF GroupSound, Core, Same, IsGroup, GroupFields
  <2>9. \A p \in P : Carried(p, h) /\ p.kind # "sync"
    BY <2>2, SealPlain
  <2>10. StateSound(t, d, h, ans) /\ Stays(s, t) /\ t.group # NoGroup
    BY <1>1, <2>5, <2>8, <2>9, SameSaved
  <2> QED BY <1>1, <1>5, <2>6, <2>10, DoneFine
<1> QED BY <1>3, <1>4, <1>5

\* Only the coordinator makes links, for only he applies requests.
LEMMA ProcessedFine ==
  ASSUME NEW s, NEW d, NEW h, NEW ans, StateSound(s, d, h, ans), s.group # NoGroup,
         NEW w, w = Processed(d, s)
  PROVE  /\ Fine(w, s, d, h, ans)
         /\ IsCoordinator(d, s.group) \/ NoLink(w, s.group.gen)
<1>1. PICK t : t = Flushed(d, s)
  OBVIOUS
<1>2. PICK v : v = Then(Done(t), Transferred(t))
  OBVIOUS
<1>3. PICK x : x = Then(v, Worked(d, v.done))
  OBVIOUS
<1>4. PICK y : y = Then(x, Transferred(x.done))
  OBVIOUS
<1>5. w = Then(y, Completed(y.done))
  BY <1>1, <1>2, <1>3, <1>4 DEF Processed
<1>6. /\ StateSound(t, d, h, ans) /\ t.group # NoGroup /\ Stays(s, t)
      /\ t.group.gen = s.group.gen /\ t.group.owner = s.group.owner
      /\ t.group.coord = s.group.coord
  BY <1>1, FlushedSound
<1>7. Fine(Done(t), s, d, h, ans) /\ Done(t).done = t /\ NoLink(Done(t), s.group.gen)
  BY <1>6, DoneFine, DoneNoLink
<1>8. /\ Fine(Transferred(t), t, d, h, ans) /\ Alike(t.group, Transferred(t).done.group)
      /\ NoLink(Transferred(t), s.group.gen)
  BY <1>6, TransferredFine
<1>9. /\ Fine(v, s, d, h, ans) /\ v.done = Transferred(t).done
      /\ NoLink(v, s.group.gen)
  BY <1>2, <1>7, <1>8, ThenFine, ThenNoLink
<1>10. /\ StateSound(v.done, d, h, ans) /\ v.done.group # NoGroup
       /\ v.done.group.gen = s.group.gen
       /\ IsCoordinator(d, v.done.group) => IsCoordinator(d, s.group)
  BY <1>6, <1>8, <1>9 DEF Fine, Alike, Same, IsCoordinator
<1>11. PICK z : z = Worked(d, v.done)
  OBVIOUS
<1>12. /\ Fine(z, v.done, d, h, ans) /\ z.done.group # NoGroup
       /\ \/ IsCoordinator(d, s.group)
          \/ NoLink(z, s.group.gen) /\ z.done.group.gen = s.group.gen
  BY <1>10, <1>11, WorkedFine
<1>13. Fine(x, s, d, h, ans) /\ x.done = z.done
  BY <1>3, <1>9, <1>11, <1>12, ThenFine
<1>14. IsCoordinator(d, s.group) \/ NoLink(x, s.group.gen)
  BY <1>3, <1>9, <1>11, <1>12, ThenNoLink
<1>15. StateSound(x.done, d, h, ans)
  BY <1>13 DEF Fine
<1>16. PICK q : q = Transferred(x.done)
  OBVIOUS
<1>17. /\ Fine(q, x.done, d, h, ans) /\ Alike(x.done.group, q.done.group)
       /\ NoLink(q, x.done.group.gen)
  BY <1>12, <1>13, <1>15, <1>16, TransferredFine
<1>18. Fine(y, s, d, h, ans) /\ y.done = q.done
  BY <1>4, <1>13, <1>16, <1>17, ThenFine
<1>19. /\ y.done.group # NoGroup
       /\ \/ IsCoordinator(d, s.group)
          \/ NoLink(y, s.group.gen) /\ y.done.group.gen = s.group.gen
  BY <1>4, <1>12, <1>13, <1>14, <1>16, <1>17, <1>18, ThenNoLink DEF Alike
<1>20. StateSound(y.done, d, h, ans)
  BY <1>18 DEF Fine
<1>21. PICK o : o = Completed(y.done)
  OBVIOUS
<1>22. Fine(o, y.done, d, h, ans) /\ NoLink(o, y.done.group.gen)
  BY <1>19, <1>20, <1>21, CompletedFine
<1>23. Fine(w, s, d, h, ans)
  BY <1>5, <1>18, <1>21, <1>22, ThenFine
<1> QED BY <1>5, <1>19, <1>21, <1>22, <1>23, ThenNoLink

(***************************************************************************)
(* Handling a packet.                                                      *)
(***************************************************************************)
LEMMA IgnoredFine ==
  ASSUME NEW s, NEW d, NEW h, NEW ans, StateSound(s, d, h, ans)
  PROVE  Fine(Ignored(s), s, d, h, ans)
BY DoneFine DEF Ignored, Stays

\* A saved group whose effects are then carried out.
LEMMA AdoptedFine ==
  ASSUME NEW s, NEW d, NEW h, NEW ans, NEW g, StateSound(Saved(s, g), d, h, ans),
         Stays(s, Saved(s, g)), Saved(s, g).group # NoGroup
  PROVE  Fine(Adopted(s, g), s, d, h, ans)
<1>1. PICK t : t = Saved(s, g)
  OBVIOUS
<1>2. Adopted(s, g) = Then(Done(t), Completed(t))
  BY <1>1 DEF Adopted
<1>3. Fine(Done(t), s, d, h, ans) /\ Done(t).done = t
  BY <1>1, DoneFine
<1>4. Fine(Completed(t), t, d, h, ans)
  BY <1>1, CompletedFine
<1> QED BY <1>2, <1>3, <1>4, ThenFine

\* A packet that a device has in its outbox may arrive.
Arrives(p, d, h) == PacketSound(p, h) /\ p.to = d

LEMMA DepartureFine ==
  ASSUME NEW s, NEW d, NEW h, NEW ans, StateSound(s, d, h, ans), s.group # NoGroup,
         NEW p, Arrives(p, d, h), p.kind = "departure"
  PROVE  Fine(OnDeparture(d, s, p), s, d, h, ans)
<1>1. PICK g : g = s.group
  OBVIOUS
<1>2. PICK from : from = Sender(p)
  OBVIOUS
<1>3. PICK next : next = p.body.successor
  OBVIOUS
<1>4. PICK gone : gone = [g EXCEPT !.members = @ \ {from}, !.roles[from] = None,
                                   !.departed = @ \cup {from}]
  OBVIOUS
<1>5. PICK c : c = IF next = AccountOf[d] THEN d ELSE Primary[next]
  OBVIOUS
<1>6. PICK new : new = IF g.owner = from
                       THEN [gone EXCEPT !.owner = next, !.rev = @ + 1, !.invite = 0,
                                         !.shared = 0, !.coord = c]
                       ELSE [gone EXCEPT !.rev = IF IsCoordinator(d, g) THEN @ + 1 ELSE @]
  OBVIOUS
<1>7. PICK t : t = Saved(s, new)
  OBVIOUS
<1>8. PICK u : u = Synced(d, t, Cleared(new), None)
  OBVIOUS
<1>9. \/ OnDeparture(d, s, p) = Ignored(s)
      \/ OnDeparture(d, s, p) = Then(Done(t), Done(u)) /\ ~g.left
  BY <1>1, <1>2, <1>3, <1>4, <1>5, <1>6, <1>7, <1>8 DEF OnDeparture
<1>10. GroupSound(g, AccountOf[d], h)
  BY <1>1 DEF StateSound
<1>11. /\ Same(g, gone) /\ gone.outbound = g.outbound /\ gone.processed = g.processed
  BY <1>4, <1>10 DEF GroupSound, Core, Same, IsGroup, GroupFields
<1>12. h \/ g.owner # from
  BY <1>2, <1>10 DEF Arrives, PacketSound, Carried, Sender, GroupSound, Core, Ruled
<1>13. /\ IsGroup(new) /\ new.gen = gone.gen /\ new.left = gone.left /\ new.removed = gone.removed
       /\ new.departing = gone.departing /\ new.outbound = gone.outbound
       /\ new.processed = gone.processed
       /\ h \/ (new.owner = gone.owner /\ new.coord = gone.coord)
  <2>1. CASE g.owner = from
    BY <1>6, <1>11, <1>12, <2>1 DEF Same, IsGroup, GroupFields
  <2>2. CASE g.owner # from
    BY <1>6, <1>11, <2>2 DEF Same, IsGroup, GroupFields
  <2> QED BY <2>1, <2>2
<1>14. GroupSound(new, AccountOf[d], h)
  BY <1>10, <1>11, <1>13 DEF GroupSound, Core, Ruled, Same
<1>15. /\ StateSound(t, d, h, ans) /\ t.group # NoGroup
       /\ (HasLeft(s) => new.left) => Stays(s, t)
  BY <1>1, <1>7, <1>11, <1>13, <1>14, SavedSound
<1>16. CASE OnDeparture(d, s, p) = Then(Done(t), Done(u)) /\ ~g.left
  <2>1. Stays(s, t)
    BY <1>1, <1>15, <1>16 DEF HasLeft
  <2>2. StateSound(u, d, h, ans) /\ Stays(t, u)
    BY <1>8, <1>14, <1>15, ClearedSame, SyncedSound
  <2>3. Fine(Done(t), s, d, h, ans) /\ Done(t).done = t
    BY <1>15, <2>1, DoneFine
  <2>4. Fine(Done(u), t, d, h, ans)
    BY <2>2, DoneFine
  <2> QED BY <1>16, <2>3, <2>4, ThenFine
<1> QED BY <1>9, <1>16, IgnoredFine

LEMMA SnapshotFine ==
  ASSUME NEW s, NEW d, NEW h, NEW ans, StateSound(s, d, h, ans),
         NEW p, Arrives(p, d, h), p.kind = "snapshot"
  PROVE  Fine(OnSnapshot(d, s, p), s, d, h, ans)
<1>1. PICK g : g = s.group
  OBVIOUS
<1>2. PICK got : got = p.body.snapshot
  OBVIOUS
<1>3. PICK base : base = [got EXCEPT !.removed = AccountOf[d] \notin got.members,
                                     !.members = @ \ {AccountOf[d]}, !.effect = TRUE]
  OBVIOUS
<1>4. PICK gone : gone = g.departed \cap base.members
  OBVIOUS
<1>5. PICK Q : Q = SelectSeq(g.requests, LAMBDA q :
                               q.id # p.body.event /\ ~AlreadyApplied(base, q))
  OBVIOUS
<1>6. PICK new : new = [base EXCEPT !.departed = gone, !.members = @ \ gone, !.requests = Q,
                                    !.outbound = g.outbound, !.shared = g.shared]
  OBVIOUS
<1>7. Bare(got, h)
  BY <1>2 DEF Arrives, PacketSound, Carried
<1>8. /\ IsGroup(base) /\ base.gen \in Nat /\ base.owner = got.owner /\ base.coord = got.coord
      /\ base.left = FALSE /\ base.departing = FALSE /\ base.outbound = {}
  BY <1>3, <1>7 DEF Bare, IsGroup, GroupFields
<1>9. GroupSound(base, AccountOf[d], h)
  BY <1>7, <1>8 DEF GroupSound, Core, Bare, Ruled
<1>10. CASE g = NoGroup
  <2>1. OnSnapshot(d, s, p) \in {Ignored(s), Adopted(s, base)}
    BY <1>1, <1>2, <1>3, <1>10 DEF OnSnapshot
  <2>2. PICK t : t = Saved(s, base)
    OBVIOUS
  <2>3. s.group = NoGroup
    BY <1>1, <1>10
  <2>4. StateSound(t, d, h, ans) /\ t.group # NoGroup
    BY <1>9, <2>2, <2>3, SavedSound
  <2>5. Stays(s, t)
    BY <2>3 DEF Stays, HasLeft
  <2> QED BY <2>1, <2>2, <2>4, <2>5, IgnoredFine, AdoptedFine
<1>11. CASE g # NoGroup
  <2>1. \/ OnSnapshot(d, s, p) = Ignored(s)
        \/ OnSnapshot(d, s, p) = Adopted(s, new) /\ ~g.left /\ g.coord = p.from
    BY <1>1, <1>2, <1>3, <1>4, <1>5, <1>6, <1>11 DEF OnSnapshot
  <2>2. GroupSound(g, AccountOf[d], h)
    BY <1>1, <1>11 DEF StateSound
  <2>3. /\ Same(base, new) /\ new.outbound = g.outbound
    BY <1>6, <1>8 DEF Same, IsGroup, GroupFields
  <2>4. GroupSound(new, AccountOf[d], h)
    BY <1>9, <2>2, <2>3, SameSound DEF GroupSound
  <2>5. CASE OnSnapshot(d, s, p) = Adopted(s, new) /\ ~g.left /\ g.coord = p.from
    <3>1. h \/ d # Creator
      BY <2>2, <2>5 DEF GroupSound, Core, Ruled, Arrives, PacketSound, Carried
    <3>2. PICK t : t = Saved(s, new)
      OBVIOUS
    <3>3. StateSound(t, d, h, ans) /\ t.group # NoGroup /\ Stays(s, t)
      BY <1>1, <2>3, <2>4, <2>5, <3>1, <3>2, SavedSound DEF Stays, HasLeft
    <3> QED BY <2>5, <3>2, <3>3, AdoptedFine
  <2> QED BY <2>1, <2>5, IgnoredFine
<1> QED BY <1>10, <1>11

\* A request, or a Join turned into one, waits for the next pass.
LEMMA QueuedFine ==
  ASSUME NEW s, NEW d, NEW h, NEW ans, StateSound(s, d, h, ans), s.group # NoGroup, NEW r
  PROVE  Fine(Queued(s, r), s, d, h, ans)
<1>1. PICK g : g = s.group
  OBVIOUS
<1>2. PICK n : n = [g EXCEPT !.requests = Append(@, r)]
  OBVIOUS
<1>3. PICK t : t = Saved(s, n)
  OBVIOUS
<1>4. Queued(s, r) = Done(t)
  BY <1>1, <1>2, <1>3 DEF Queued
<1>5. Same(g, n) /\ n.outbound = g.outbound /\ n.processed = g.processed
  BY <1>1, <1>2 DEF StateSound, GroupSound, Core, Same, IsGroup, GroupFields
<1>6. StateSound(t, d, h, ans) /\ Stays(s, t)
  BY <1>1, <1>3, <1>5, SameSaved
<1> QED BY <1>4, <1>6, DoneFine

LEMMA RequestFine ==
  ASSUME NEW s, NEW d, NEW h, NEW ans, StateSound(s, d, h, ans), s.group # NoGroup, NEW p
  PROVE  Fine(OnRequest(d, s, p), s, d, h, ans)
<1>1. \/ OnRequest(d, s, p) = Ignored(s)
      \/ OnRequest(d, s, p) = Queued(s, p.body.request)
  BY DEF OnRequest
<1> QED BY <1>1, IgnoredFine, QueuedFine

LEMMA JoinFine ==
  ASSUME NEW s, NEW d, NEW h, NEW ans, StateSound(s, d, h, ans), s.group # NoGroup, NEW p,
         NEW expired
  PROVE  Fine(OnJoin(d, s, p, expired), s, d, h, ans)
<1>1. PICK r : r = [id |-> p.body.id, actor |-> s.group.owner, kind |-> "add",
                    who |-> Sender(p), rights |-> {}]
  OBVIOUS
<1>2. OnJoin(d, s, p, expired) \in {Ignored(s), Queued(s, r)}
  BY <1>1 DEF OnJoin
<1> QED BY <1>2, IgnoredFine, QueuedFine

LEMMA InviteFine ==
  ASSUME NEW s, NEW d, NEW h, NEW ans, StateSound(s, d, h, ans), s.group # NoGroup, NEW p
  PROVE  Fine(OnInvite(s, p), s, d, h, ans)
<1>1. PICK g : g = s.group
  OBVIOUS
<1>2. PICK n : n = [g EXCEPT !.shared = p.body.generation]
  OBVIOUS
<1>3. PICK t : t = Saved(s, n)
  OBVIOUS
<1>4. OnInvite(s, p) \in {Ignored(s), Done(t)}
  BY <1>1, <1>2, <1>3 DEF OnInvite
<1>5. Same(g, n) /\ n.outbound = g.outbound /\ n.processed = g.processed
  BY <1>1, <1>2 DEF StateSound, GroupSound, Core, Same, IsGroup, GroupFields
<1>6. StateSound(t, d, h, ans) /\ Stays(s, t)
  BY <1>1, <1>3, <1>5, SameSaved
<1> QED BY <1>4, <1>6, DoneFine, IgnoredFine

LEMMA RejectedFine ==
  ASSUME NEW s, NEW d, NEW h, NEW ans, StateSound(s, d, h, ans), s.group # NoGroup, NEW p
  PROVE  Fine(OnRejected(s, p), s, d, h, ans)
<1>1. PICK g : g = s.group
  OBVIOUS
<1>2. PICK n : n = [g EXCEPT !.effect = TRUE, !.requests = Without(@, p.body.event)]
  OBVIOUS
<1>3. OnRejected(s, p) \in {Ignored(s), Adopted(s, n)}
  BY <1>1, <1>2 DEF OnRejected
<1>4. Same(g, n) /\ n.outbound = g.outbound /\ n.processed = g.processed
  BY <1>1, <1>2 DEF StateSound, GroupSound, Core, Same, IsGroup, GroupFields
<1>5. PICK t : t = Saved(s, n)
  OBVIOUS
<1>6. StateSound(t, d, h, ans) /\ Stays(s, t) /\ t.group # NoGroup
  BY <1>1, <1>4, <1>5, SameSaved
<1> QED BY <1>3, <1>5, <1>6, AdoptedFine, IgnoredFine

LEMMA InvitationFine ==
  ASSUME NEW s, NEW d, NEW h, NEW ans, StateSound(s, d, h, ans),
         NEW p, Arrives(p, d, h), p.kind = "invitation"
  PROVE  Fine(OnInvitation(d, s, p), s, d, h, ans)
<1>1. PICK got : got = p.body.invitation
  OBVIOUS
<1>2. PICK n : n = [got EXCEPT !.members = (@ \ {AccountOf[d]}) \cup {Sender(p)}]
  OBVIOUS
<1>3. PICK t : t = Saved(s, n)
  OBVIOUS
<1>4. \/ OnInvitation(d, s, p) = Ignored(s)
      \/ OnInvitation(d, s, p) = Done(t) /\ s.group = NoGroup
  BY <1>1, <1>2, <1>3 DEF OnInvitation
<1>5. Bare(got, h)
  BY <1>1 DEF Arrives, PacketSound, Carried
<1>6. Same(got, n) /\ n.outbound = {}
  BY <1>2, <1>5 DEF Bare, Same, IsGroup, GroupFields
<1>7. GroupSound(n, AccountOf[d], h)
  BY <1>5, <1>6 DEF GroupSound, Core, Bare, Ruled, Same
<1>8. CASE OnInvitation(d, s, p) = Done(t) /\ s.group = NoGroup
  <2>1. StateSound(t, d, h, ans) /\ Stays(s, t)
    BY <1>3, <1>7, <1>8, SavedSound DEF Stays, HasLeft
  <2> QED BY <1>8, <2>1, DoneFine
<1> QED BY <1>4, <1>8, IgnoredFine

LEMMA TextFine ==
  ASSUME NEW s, NEW d, NEW h, NEW ans, StateSound(s, d, h, ans), s.group # NoGroup, NEW p
  PROVE  Fine(OnText(d, s, p), s, d, h, ans)
<1>1. PICK m : m = p.body.text
  OBVIOUS
<1>2. PICK t : t = [s EXCEPT !.history = @ \cup {m}]
  OBVIOUS
<1>3. PICK u : u = Synced(d, t, s.group, m)
  OBVIOUS
<1>4. \/ OnText(d, s, p) = Ignored(s)
      \/ OnText(d, s, p) = Then(Done(t), Done(u)) /\ ~s.group.removed
  BY <1>1, <1>2, <1>3 DEF OnText
<1>5. CASE OnText(d, s, p) = Then(Done(t), Done(u)) /\ ~s.group.removed
  <2>1. GroupSound(s.group, AccountOf[d], h) /\ ~HasLeft(s)
    BY <1>5 DEF StateSound, GroupSound, Core, HasLeft
  <2>2. StateSound(t, d, h, ans) /\ t.group = s.group /\ Stays(s, t)
    BY <1>2, <2>1, HistoryWritten
  <2>3. StateSound(u, d, h, ans) /\ Stays(t, u)
    BY <1>3, <2>1, <2>2, SyncedSound
  <2>4. Fine(Done(t), s, d, h, ans) /\ Done(t).done = t
    BY <2>2, DoneFine
  <2>5. Fine(Done(u), t, d, h, ans)
    BY <2>3, DoneFine
  <2> QED BY <1>5, <2>4, <2>5, ThenFine
<1> QED BY <1>4, <1>5, IgnoredFine

LEMMA SyncFine ==
  ASSUME NEW s, NEW d, NEW h, NEW ans, StateSound(s, d, h, ans),
         NEW p, Arrives(p, d, h), p.kind = "sync"
  PROVE  Fine(OnSync(s, p), s, d, h, ans)
<1> DEFINE G == Merged(s.group, p.body.sync)
           T == [s EXCEPT !.history = @ \cup (IF G.closed \/ G.left \/ G.removed THEN {}
                                              ELSE ({p.body.text} \ {None}) \ G.deleted)]
           U == IF G.left THEN Cancelled(T, T.history) ELSE T
           V == IF G.left THEN [U EXCEPT !.history = {}] ELSE U
<1>0. OnSync(s, p) = [stops |-> {T, U, V}, done |-> Saved(V, G)]
  BY DEF OnSync
<1>1. PICK got : got = p.body.sync
  OBVIOUS
<1>2. PICK g : g = G /\ g = Merged(s.group, got)
  BY <1>1
<1>4. PICK with : /\ with = IF G.closed \/ G.left \/ G.removed THEN {}
                            ELSE ({p.body.text} \ {None}) \ G.deleted
                  /\ g.left => with = {}
  BY <1>2
<1>5. PICK t : t = T /\ t = [s EXCEPT !.history = @ \cup with]
  BY <1>4
<1> HIDE DEF G, T
<1>6. PICK u : u = U /\ u = IF g.left THEN Cancelled(t, t.history) ELSE t
  BY <1>2, <1>5
<1> HIDE DEF U
<1>7. PICK v : v = V /\ v = IF g.left THEN [u EXCEPT !.history = {}] ELSE u
  BY <1>2, <1>6
<1> HIDE DEF V
<1>8. PICK z : z = Saved(V, G) /\ z = Saved(v, g)
  BY <1>2, <1>7
<1>9. OnSync(s, p) = [stops |-> {t, u, v}, done |-> z]
  BY <1>0, <1>5, <1>6, <1>7, <1>8
<1>10. /\ GroupSound(got, AccountOf[d], h)
       /\ s.group # NoGroup => GroupSound(s.group, AccountOf[d], h)
  BY <1>1 DEF Arrives, PacketSound, StateSound
<1>11. /\ GroupSound(g, AccountOf[d], h)
       /\ s.group # NoGroup => /\ s.group.left => g.left
                               /\ g.left \/ g.outbound = s.group.outbound
                               /\ g.processed = s.group.processed
  BY <1>2, <1>10, MergedSound
<1>12. HasLeft(s) => s.history \cup with \subseteq s.history
  BY <1>4, <1>11 DEF HasLeft
<1>13. StateSound(t, d, h, ans) /\ t.group = s.group /\ Stays(s, t)
  BY <1>5, <1>12, HistoryWritten
<1>14. StateSound(u, d, h, ans) /\ u.group = s.group /\ Stays(t, u)
  <2>1. CASE g.left
    BY <1>6, <1>13, <2>1, CancelledSound
  <2>2. CASE ~g.left
    BY <1>6, <1>13, <2>2 DEF Stays
  <2> QED BY <2>1, <2>2
<1>15. StateSound(v, d, h, ans) /\ v.group = s.group /\ Stays(u, v)
  <2>1. CASE g.left
    BY <1>7, <1>14, <2>1, HistoryWritten
  <2>2. CASE ~g.left
    BY <1>7, <1>14, <2>2 DEF Stays
  <2> QED BY <2>1, <2>2
<1>16. StateSound(z, d, h, ans) /\ Stays(v, z)
  BY <1>8, <1>11, <1>15, SavedSound DEF HasLeft
<1>17. Stays(s, u) /\ Stays(s, v) /\ Stays(s, z)
  BY <1>13, <1>14, <1>15, <1>16 DEF Stays
<1> QED BY <1>9, <1>13, <1>14, <1>15, <1>16, <1>17 DEF Fine

LEMMA OutcomeFine ==
  ASSUME NEW s, NEW d, NEW h, NEW ans, StateSound(s, d, h, ans), NEW p, Arrives(p, d, h),
         p.kind \in NeedsGroup \cup {"join"} => s.group # NoGroup, NEW expired
  PROVE  Fine(Outcome(d, s, p, expired), s, d, h, ans)
<1>1. p.kind \in PacketKinds
  BY DEF Arrives, PacketSound, Carried
<1>2. CASE p.kind = "departure"
  BY <1>2, DepartureFine DEF Outcome, NeedsGroup
<1>3. CASE p.kind = "snapshot"
  BY <1>3, SnapshotFine DEF Outcome
<1>4. CASE p.kind = "request"
  BY <1>4, RequestFine DEF Outcome, NeedsGroup
<1>5. CASE p.kind = "join"
  BY <1>5, JoinFine DEF Outcome
<1>6. CASE p.kind = "invite"
  BY <1>6, InviteFine DEF Outcome, NeedsGroup
<1>7. CASE p.kind = "rejected"
  BY <1>7, RejectedFine DEF Outcome, NeedsGroup
<1>8. CASE p.kind = "invitation"
  BY <1>8, InvitationFine DEF Outcome
<1>9. CASE p.kind = "text"
  BY <1>9, TextFine DEF Outcome, NeedsGroup
<1>10. CASE p.kind = "sync"
  BY <1>10, SyncFine DEF Outcome
<1> QED
  BY <1>1, <1>2, <1>3, <1>4, <1>5, <1>6, <1>7, <1>8, <1>9, <1>10 DEF PacketKinds, NeedsGroup

(***************************************************************************)
(* Steps.                                                                  *)
(***************************************************************************)

\* More snapshots dealt with, or an authority handed over, ask for less.
LEMMA SoundLater ==
  ASSUME NEW s, NEW d, NEW h, NEW ans, StateSound(s, d, h, ans),
         NEW h2, h => h2, NEW ans2, ans \subseteq ans2
  PROVE  StateSound(s, d, h2, ans2)
<1>1. \A g : Ruled(g, h) => Ruled(g, h2)
  BY DEF Ruled
<1>2. \A g, a : Core(g, a, h) => Core(g, a, h2)
  BY <1>1 DEF Core
<1>3. \A g : Bare(g, h) => Bare(g, h2)
  BY <1>1 DEF Bare
<1>4. \A p : Carried(p, h) => Carried(p, h2)
  BY <1>3 DEF Carried
<1>5. \A g, a : GroupSound(g, a, h) => GroupSound(g, a, h2)
  BY <1>2, <1>4 DEF GroupSound
<1>6. \A p : PacketSound(p, h) => PacketSound(p, h2)
  BY <1>4, <1>5 DEF PacketSound
<1>7. ToldSound(s, d, h2, ans2)
  BY DEF StateSound, ToldSound
<1> QED BY <1>5, <1>6, <1>7 DEF StateSound

\* A packet that was handed over leaves the outbox.
LEMMA HandedSound ==
  ASSUME NEW d, NEW h, NEW ans, StateSound(dev[d], d, h, ans), NEW p,
         NEW ans2, ans \subseteq ans2, p.kind = "snapshot" => p \in ans2
  PROVE  StateSound(Handed(d, p), d, h, ans2) /\ Stays(dev[d], Handed(d, p))
<1>1. PICK s : s = dev[d]
  OBVIOUS
<1>2. PICK t : t = [s EXCEPT !.outbox = @ \ {p}]
  OBVIOUS
<1>3. PICK u : u = Synced(d, t, s.group, p.body.text)
  OBVIOUS
<1>4. StateSound(s, d, h, ans2)
  BY <1>1, SoundLater
<1>5. /\ IsState(t) /\ t.history = s.history /\ t.group = s.group
      /\ t.outbox = s.outbox \ {p} /\ t.told = s.told
  BY <1>2, <1>4 DEF StateSound, IsState, StateFields
<1>6. ToldSound(t, d, h, ans2)
  BY <1>4, <1>5 DEF StateSound, ToldSound
<1>7. StateSound(t, d, h, ans2) /\ Stays(s, t)
  BY <1>4, <1>5, <1>6 DEF StateSound, Stays, HasLeft
<1>8. Handed(d, p) = t \/ (Handed(d, p) = u /\ p \in s.outbox)
  BY <1>1, <1>2, <1>3 DEF Handed
<1>9. CASE Handed(d, p) = u /\ p \in s.outbox
  <2>1. t.group # NoGroup /\ GroupSound(s.group, AccountOf[d], h)
    BY <1>4, <1>5, <1>9 DEF StateSound
  <2>2. StateSound(u, d, h, ans2) /\ Stays(t, u)
    BY <1>3, <1>7, <2>1, SyncedSound
  <2> QED BY <1>1, <1>7, <1>9, <2>2 DEF Stays
<1> QED BY <1>1, <1>7, <1>8, <1>9

\* The states of the devices, as the invariant has them.
AllSound(h, ans) ==
  /\ dev = [d \in Device |-> dev[d]]
  /\ \A d \in Device : StateSound(dev[d], d, h, ans)

AllStay == \A d \in Device : Stays(dev[d], dev'[d])

LEMMA CommandSound ==
  ASSUME NEW h, NEW ans, AllSound(h, ans), NEW d \in Device, NEW w, Command(d, w),
         \A t \in w.stops \cup {w.done} : StateSound(t, d, h, ans)
  PROVE  /\ dev' = [e \in Device |-> dev'[e]] /\ dev'[d] \in w.stops \cup {w.done}
         /\ \A e \in Device : StateSound(dev'[e], e, h, ans)
         /\ \A e \in Device : e # d => dev'[e] = dev[e]
<1>1. PICK t \in w.stops \cup {w.done} : dev' = [dev EXCEPT ![d] = t]
  BY DEF Command
<1>2. dev' = [e \in Device |-> IF e = d THEN t ELSE dev[e]]
  BY <1>1 DEF AllSound
<1> QED BY <1>1, <1>2 DEF AllSound

LEMMA CommandFine ==
  ASSUME NEW h, NEW ans, AllSound(h, ans), NEW d \in Device, NEW w, Command(d, w),
         Fine(w, dev[d], d, h, ans)
  PROVE  /\ dev' = [e \in Device |-> dev'[e]] /\ dev'[d] \in w.stops \cup {w.done}
         /\ \A e \in Device : StateSound(dev'[e], e, h, ans)
         /\ AllStay
<1>1. \A t \in w.stops \cup {w.done} : StateSound(t, d, h, ans) /\ Stays(dev[d], t)
  BY DEF Fine
<1>2. /\ dev' = [e \in Device |-> dev'[e]] /\ dev'[d] \in w.stops \cup {w.done}
      /\ \A e \in Device : StateSound(dev'[e], e, h, ans)
      /\ \A e \in Device : e # d => dev'[e] = dev[e]
  BY <1>1, CommandSound
<1> QED BY <1>1, <1>2 DEF AllStay, Stays

LEMMA CreateStep ==
  ASSUME IInv, NEW d \in Device, Create(d)
  PROVE  IInv' /\ AllStay
<1>1. PICK g : g = NewGroup(d, Founders)
  OBVIOUS
<1>2. PICK s : s = [dev[d] EXCEPT !.group = g]
  OBVIOUS
<1>3. PICK P : P = Seal(d, DevicesOf(Founders), "invitation", [invitation |-> g])
  OBVIOUS
<1>4. PICK t : t = [s EXCEPT !.outbox = @ \cup P]
  OBVIOUS
<1>5. PICK u : u = Synced(d, t, g, None)
  OBVIOUS
<1>6. PICK w : w = Then(Then(Done(s), Done(t)), Done(u))
  OBVIOUS
<1>7. /\ d = Creator /\ dev[d].group = NoGroup /\ Command(d, w)
      /\ UNCHANGED <<links, HandedOver, answered>>
  BY <1>1, <1>2, <1>3, <1>4, <1>5, <1>6 DEF Create, HasGroup, HandedOver
<1>8. AllSound(HandedOver, answered)
  BY DEF IInv, AllSound
<1>9. Bare(g, HandedOver)
  BY <1>1, <1>7, NewGroupFields
<1>10. GroupSound(g, AccountOf[d], HandedOver) /\ g # NoGroup
  BY <1>9, SomeGroup DEF Bare, GroupSound, Core
<1>11. StateSound(dev[d], d, HandedOver, answered) /\ ~HasLeft(dev[d])
  BY <1>7 DEF IInv, HasLeft
<1>12. /\ IsState(s) /\ s.group = g /\ s.outbox = {} /\ s.told = {}
  BY <1>2, <1>7, <1>11 DEF StateSound, IsState, StateFields
<1>13. StateSound(s, d, HandedOver, answered)
  BY <1>10, <1>12 DEF StateSound, ToldSound
<1>14. \A p \in P : PacketSound(p, HandedOver)
  <2>1. TAKE p \in P
  <2>2. p.from # p.to /\ p.kind = "invitation" /\ p.body = [invitation |-> g]
    BY <1>3, SealFields
  <2> QED BY <1>9, <2>2, KindsKnown DEF PacketSound, Carried
<1>15. StateSound(t, d, HandedOver, answered) /\ t.group = g
  BY <1>4, <1>10, <1>12, <1>13, <1>14, OutboxWritten
<1>16. StateSound(u, d, HandedOver, answered)
  BY <1>5, <1>10, <1>15, SyncedSound
<1>17. Stays(dev[d], s) /\ Stays(s, t) /\ Stays(t, u)
  BY <1>5, <1>4, <1>10, <1>11, <1>12, <1>13, <1>14, <1>15, OutboxWritten, SyncedSound DEF Stays
<1>18. Fine(Done(s), dev[d], d, HandedOver, answered) /\ Done(s).done = s
  BY <1>13, <1>17, DoneFine
<1>19. Fine(Done(t), s, d, HandedOver, answered) /\ Done(t).done = t
  BY <1>15, <1>17, DoneFine
<1>20. Fine(Done(u), t, d, HandedOver, answered) /\ Done(u).done = u
  BY <1>16, <1>17, DoneFine
<1>21. PICK v : v = Then(Done(s), Done(t))
  OBVIOUS
<1>22. Fine(v, dev[d], d, HandedOver, answered) /\ v.done = t
  BY <1>18, <1>19, <1>21, ThenFine
<1>23. Fine(w, dev[d], d, HandedOver, answered)
  BY <1>6, <1>20, <1>21, <1>22, ThenFine
<1> QED BY <1>7, <1>8, <1>23, CommandFine DEF IInv

\* Only its coordinator makes links to a group.
LEMMA CoordinatorKnown ==
  ASSUME IInv, NEW d \in Device, dev[d].group # NoGroup, IsCoordinator(d, dev[d].group)
  PROVE  HandedOver \/ d = Creator
BY DEF IInv, StateSound, GroupSound, Core, Ruled, IsCoordinator

LEMMA ActStep ==
  ASSUME IInv, NEW d \in Device, NEW r, Act(d, r)
  PROVE  IInv' /\ AllStay
<1>1. PICK s : s = dev[d]
  OBVIOUS
<1>2. PICK g : g = s.group
  OBVIOUS
<1>3. PICK P : P = Seal(d, {g.coord}, "request", [request |-> r])
  OBVIOUS
<1>4. PICK n : n = [g EXCEPT !.requests = Append(@, r), !.outbound = @ \cup P]
  OBVIOUS
<1>5. PICK t : t = Saved(s, n)
  OBVIOUS
<1>6. PICK w : w = Then(Done(t), Transferred(t))
  OBVIOUS
<1>7. /\ g # NoGroup
      /\ \/ IsCoordinator(d, g) /\ CanApply(d, g, r) /\ Command(d, Applied(d, s, r))
         \/ ~IsCoordinator(d, g) /\ Command(d, w)
      /\ links' = links \/ (IsCoordinator(d, g) /\ \A l \in links' : l \in links \/ l.coord = d)
      /\ UNCHANGED <<HandedOver, answered>>
  BY <1>1, <1>2, <1>3, <1>4, <1>5, <1>6 DEF Act, HasGroup, HandedOver
<1>8. AllSound(HandedOver, answered) /\ StateSound(s, d, HandedOver, answered) /\ s.group # NoGroup
  BY <1>1, <1>2, <1>7 DEF IInv, AllSound
<1>9. HandedOver' \/ \A l \in links' : l.coord = Creator
  BY <1>1, <1>2, <1>7, CoordinatorKnown DEF IInv
<1>10. PICK v : Command(d, v) /\ Fine(v, s, d, HandedOver, answered)
  <2>1. CASE IsCoordinator(d, g)
    BY <1>2, <1>7, <1>8, <2>1, AppliedFine
  <2>2. CASE ~IsCoordinator(d, g)
    <3>1. Same(g, n) /\ n.outbound = g.outbound \cup P /\ n.processed = g.processed
      BY <1>2, <1>4, <1>8 DEF StateSound, GroupSound, Core, Same, IsGroup, GroupFields
    <3>2. \A p \in P : Carried(p, HandedOver) /\ p.kind # "sync"
      BY <1>3, SealPlain
    <3>3. StateSound(t, d, HandedOver, answered) /\ Stays(s, t) /\ t.group # NoGroup
      BY <1>2, <1>5, <1>8, <3>1, <3>2, SameSaved
    <3>4. Fine(Done(t), s, d, HandedOver, answered) /\ Done(t).done = t
      BY <3>3, DoneFine
    <3>5. Fine(Transferred(t), t, d, HandedOver, answered)
      BY <3>3, TransferredFine
    <3>6. Fine(w, s, d, HandedOver, answered)
      BY <1>6, <3>4, <3>5, ThenFine
    <3> QED BY <1>7, <2>2, <3>6
  <2> QED BY <2>1, <2>2
<1> QED BY <1>1, <1>7, <1>8, <1>9, <1>10, CommandFine DEF IInv

LEMMA SendTextStep ==
  ASSUME IInv, NEW d \in Device, NEW m, SendText(d, m)
  PROVE  IInv' /\ AllStay
<1>1. PICK s : s = dev[d]
  OBVIOUS
<1>2. PICK P : P = Seal(d, DevicesOf(s.group.members), "text", [text |-> m])
  OBVIOUS
<1>3. PICK u : u = [s EXCEPT !.history = @ \cup {m}]
  OBVIOUS
<1>4. PICK t : t = [u EXCEPT !.outbox = @ \cup P]
  OBVIOUS
<1>5. /\ s.group # NoGroup /\ Command(d, Done(t)) /\ MayWrite(d, s.group, AccountOf[d])
      /\ UNCHANGED <<links, HandedOver, answered>>
  BY <1>1, <1>2, <1>3, <1>4 DEF SendText, HasGroup, HandedOver
<1>6. AllSound(HandedOver, answered) /\ StateSound(s, d, HandedOver, answered)
  BY <1>1 DEF IInv, AllSound
<1>7. ~HasLeft(s)
  BY <1>5, <1>6, MayWriteStays DEF HasLeft
<1>8. \A p \in P : PacketSound(p, HandedOver)
  BY <1>2, SealPlain
<1>9. StateSound(u, d, HandedOver, answered) /\ u.group = s.group
  BY <1>3, <1>6, <1>7, HistoryWritten
<1>10. StateSound(t, d, HandedOver, answered)
  BY <1>4, <1>5, <1>8, <1>9, OutboxWritten
<1>11. Fine(Done(t), s, d, HandedOver, answered)
  BY <1>7, <1>10, DoneFine DEF Stays
<1> QED BY <1>1, <1>5, <1>6, <1>11, CommandFine DEF IInv

LEMMA ProcessStep ==
  ASSUME IInv, NEW d \in Device, Process(d)
  PROVE  IInv' /\ AllStay
<1>1. PICK s : s = dev[d]
  OBVIOUS
<1>2. PICK w : w = Processed(d, s)
  OBVIOUS
<1>3. /\ s.group # NoGroup /\ Command(d, w)
      /\ links' = links \/ (/\ dev'[d].group.gen > s.group.gen
                            /\ \A l \in links' : l \in links \/ l.coord = d)
      /\ UNCHANGED <<HandedOver, answered>>
  BY <1>1, <1>2 DEF Process, HasGroup, HandedOver
<1>4. AllSound(HandedOver, answered) /\ StateSound(s, d, HandedOver, answered)
  BY <1>1 DEF IInv, AllSound
<1>5. /\ Fine(w, s, d, HandedOver, answered)
      /\ IsCoordinator(d, s.group) \/ NoLink(w, s.group.gen)
  BY <1>2, <1>3, <1>4, ProcessedFine
<1>6. /\ dev' = [e \in Device |-> dev'[e]] /\ dev'[d] \in w.stops \cup {w.done}
      /\ \A e \in Device : StateSound(dev'[e], e, HandedOver, answered)
      /\ AllStay
  BY <1>1, <1>3, <1>4, <1>5, CommandFine
<1>7. links' = links \/ IsCoordinator(d, s.group)
  <2>1. s.group.gen \in Nat
    BY <1>3, <1>4 DEF StateSound, GroupSound, Core
  <2>2. NoLink(w, s.group.gen) => dev'[d].group.gen = s.group.gen
    BY <1>6 DEF NoLink
  <2> QED BY <1>3, <1>5, <2>1, <2>2
<1>8. HandedOver' \/ \A l \in links' : l.coord = Creator
  BY <1>1, <1>3, <1>7, CoordinatorKnown DEF IInv
<1> QED BY <1>3, <1>6, <1>8 DEF IInv

\* A device of the creator's account that leaves may leave the group to another account.
LEMMA LeavingSound ==
  ASSUME NEW s, NEW d, NEW h, NEW ans, StateSound(s, d, h, ans), s.group # NoGroup,
         h \/ AccountOf[d] # Founder, NEW successor,
         NEW g, g = Leaving(s.group, successor), NEW u, u = Saved(s, g)
  PROVE  /\ StateSound(u, d, h, ans) /\ u.group = g /\ g # NoGroup /\ g.left
         /\ GroupSound(g, AccountOf[d], h)
<1>1. /\ IsGroup(g) /\ g.gen = s.group.gen /\ g.owner = s.group.owner /\ g.coord = s.group.coord
      /\ g.left /\ g.removed /\ g.outbound = {} /\ g.processed = s.group.processed
  BY DEF StateSound, GroupSound, Core, IsGroup, GroupFields, Leaving
<1>2. GroupSound(g, AccountOf[d], h)
  BY <1>1 DEF StateSound, GroupSound, Core, Ruled
<1>3. StateSound(u, d, h, ans) /\ u.group = g /\ u.group # NoGroup
  BY <1>1, <1>2, SavedSound
<1> QED BY <1>1, <1>2, <1>3

LEMMA LeaveStep ==
  ASSUME IInv, NEW d \in Device, Leave(d)
  PROVE  IInv' /\ AllStay
<1>1. PICK s : s = dev[d]
  OBVIOUS
<1>2. PICK successor : \E g, t, u, v, z :
        /\ g = Leaving(s.group, successor) /\ t = Cancelled(s, s.history) /\ u = Saved(t, g)
        /\ v = [u EXCEPT !.history = {}] /\ z = Synced(d, v, g, None)
        /\ Command(d, [stops |-> {t, u, v}, done |-> z])
  BY <1>1 DEF Leave
<1>3. PICK g, t, u, v, z :
        /\ g = Leaving(s.group, successor) /\ t = Cancelled(s, s.history) /\ u = Saved(t, g)
        /\ v = [u EXCEPT !.history = {}] /\ z = Synced(d, v, g, None)
        /\ Command(d, [stops |-> {t, u, v}, done |-> z])
  BY <1>2
<1>4. /\ s.group # NoGroup /\ ~s.group.left
      /\ HandedOver' <=> (HandedOver \/ (AccountOf[d] = Founder /\ dev'[d].group.left))
      /\ UNCHANGED <<links, answered>>
  BY <1>1 DEF Leave, HasGroup, Founder, HandedOver
<1>5. AllSound(HandedOver, answered) /\ StateSound(s, d, HandedOver, answered)
  BY <1>1 DEF IInv, AllSound
<1>6. PICK w : w = [stops |-> {t, u, v}, done |-> z]
  OBVIOUS
<1>7. Command(d, w) /\ w.stops \cup {w.done} = {t, u, v, z}
  BY <1>3, <1>6
<1>8. StateSound(t, d, HandedOver, answered) /\ t.group = s.group
  BY <1>3, <1>5, CancelledSound
<1>9. PICK yes \in BOOLEAN : yes
  OBVIOUS
<1>10. AllSound(yes, answered) /\ StateSound(t, d, yes, answered)
  BY <1>5, <1>8, <1>9, SoundLater DEF AllSound
<1>11. \A h : StateSound(t, d, h, answered) /\ (h \/ AccountOf[d] # Founder)
                => \A x \in {u, v, z} : StateSound(x, d, h, answered) /\ x.group.left
  <2>1. SUFFICES ASSUME NEW h, StateSound(t, d, h, answered), h \/ AccountOf[d] # Founder
                 PROVE  \A x \in {u, v, z} : StateSound(x, d, h, answered) /\ x.group.left
    OBVIOUS
  <2>2. t.group # NoGroup /\ g = Leaving(t.group, successor)
    BY <1>3, <1>4, <1>8
  <2>3. /\ StateSound(u, d, h, answered) /\ u.group = g /\ g # NoGroup /\ g.left
        /\ GroupSound(g, AccountOf[d], h)
    BY <1>3, <2>1, <2>2, LeavingSound
  <2>4. v = [u EXCEPT !.history = {}]
    BY <1>3
  <2>5. StateSound(v, d, h, answered) /\ v.group = g
    BY <2>3, <2>4, HistoryWritten
  <2>6. z = Synced(d, v, g, None)
    BY <1>3
  <2>7. StateSound(z, d, h, answered) /\ z.group = g
    BY <2>3, <2>5, <2>6, SyncedSound
  <2> QED BY <2>3, <2>5, <2>7
<1>12. \A x \in {u, v, z} : StateSound(x, d, yes, answered) /\ x.group.left
  BY <1>9, <1>10, <1>11
<1>13. \A x \in w.stops \cup {w.done} : StateSound(x, d, yes, answered)
  BY <1>7, <1>10, <1>12
<1>14. /\ dev' = [e \in Device |-> dev'[e]] /\ dev'[d] \in {t, u, v, z}
       /\ \A e \in Device : StateSound(dev'[e], e, yes, answered)
       /\ \A e \in Device : e # d => dev'[e] = dev[e]
  BY <1>7, <1>10, <1>13, CommandSound
<1>15. HandedOver' \/ \A l \in links' : l.coord = Creator
  BY <1>4 DEF IInv
<1>16. \A e \in Device : StateSound(dev'[e], e, HandedOver', answered)
  <2>1. CASE HandedOver'
    <3>1. HandedOver' = yes
      BY <1>9, <2>1 DEF HandedOver
    <3> QED BY <1>14, <3>1
  <2>2. CASE ~HandedOver'
    <3>1. HandedOver' = HandedOver
      BY <1>4, <2>2 DEF HandedOver
    <3>2. dev'[d] \in {u, v, z} => AccountOf[d] # Founder
      BY <1>4, <1>12, <2>2
    <3>3. StateSound(dev'[d], d, HandedOver, answered)
      BY <1>8, <1>11, <1>14, <3>2
    <3> QED BY <1>5, <1>14, <3>1, <3>3 DEF AllSound
  <2> QED BY <2>1, <2>2
<1>17. AllStay
  BY <1>1, <1>4, <1>14 DEF AllStay, Stays, HasLeft
<1> QED BY <1>4, <1>14, <1>15, <1>16, <1>17 DEF IInv

LEMMA JoinStep ==
  ASSUME IInv, NEW d \in Device, NEW link \in links, NEW id, Join(d, link, id)
  PROVE  IInv' /\ joins' # joins
<1>1. PICK s : s = dev[d]
  OBVIOUS
<1>2. PICK owner : owner = AccountOf[link.coord]
  OBVIOUS
<1>3. PICK f : f = NewGroup(link.coord, {owner})
  OBVIOUS
<1>4. PICK base : base = IF s.group # NoGroup THEN s.group ELSE [f EXCEPT !.removed = TRUE]
  OBVIOUS
<1>5. PICK P : P = Seal(d, {link.coord}, "join", [token |-> link.token, id |-> id])
  OBVIOUS
<1>6. PICK g : g = [base EXCEPT !.left = FALSE, !.departing = FALSE, !.successor = None,
                               !.outbound = @ \cup P]
  OBVIOUS
<1>7. PICK t : t = Saved(s, g)
  OBVIOUS
<1>8. PICK w : w = Then(Done(t), Transferred(t))
  OBVIOUS
<1>9. /\ Command(d, w) /\ id \notin joins /\ joins' = joins \cup {id}
      /\ UNCHANGED <<links, HandedOver, answered>>
  BY <1>1, <1>2, <1>3, <1>4, <1>5, <1>6, <1>7, <1>8 DEF Join, HasGroup, HandedOver
<1>10. AllSound(HandedOver, answered) /\ StateSound(s, d, HandedOver, answered)
  BY <1>1 DEF IInv, AllSound
<1>11. /\ IsGroup(base) /\ base.gen \in Nat /\ Ruled(base, HandedOver)
       /\ \A p \in base.outbound : Carried(p, HandedOver) /\ p.kind # "sync"
       /\ s.group # NoGroup => base = s.group
  <2>1. CASE s.group # NoGroup
    BY <1>4, <1>10, <2>1 DEF StateSound, GroupSound, Core
  <2>2. CASE s.group = NoGroup
    <3>1. Bare(f, HandedOver)
      BY <1>3, NewGroupFields DEF IInv
    <3>2. base = [f EXCEPT !.removed = TRUE]
      BY <1>4, <2>2
    <3>3. /\ IsGroup(base) /\ base.gen = f.gen /\ base.owner = f.owner /\ base.coord = f.coord
          /\ base.outbound = f.outbound
      BY <3>1, <3>2 DEF Bare, IsGroup, GroupFields
    <3> QED BY <2>2, <3>1, <3>3 DEF Bare, Ruled
  <2> QED BY <2>1, <2>2
<1>12. /\ IsGroup(g) /\ g.gen = base.gen /\ g.owner = base.owner /\ g.coord = base.coord
       /\ g.left = FALSE /\ g.departing = FALSE
       /\ g.outbound = base.outbound \cup P /\ g.processed = base.processed
  BY <1>6, <1>11 DEF IsGroup, GroupFields
<1>13. \A p \in P : Carried(p, HandedOver) /\ p.kind # "sync"
  BY <1>5, SealPlain
<1>14. GroupSound(g, AccountOf[d], HandedOver)
  BY <1>11, <1>12, <1>13 DEF GroupSound, Core, Ruled
<1>15. StateSound(t, d, HandedOver, answered) /\ t.group # NoGroup
  BY <1>7, <1>10, <1>11, <1>12, <1>14, SavedSound
<1>16. Fine(Transferred(t), t, d, HandedOver, answered)
  BY <1>15, TransferredFine
<1>17. \A x \in w.stops \cup {w.done} : StateSound(x, d, HandedOver, answered)
  BY <1>8, <1>15, <1>16 DEF Fine, Then, Done
<1> QED BY <1>9, <1>10, <1>17, CommandSound DEF IInv

LEMMA ReceiveStep ==
  ASSUME IInv, NEW d \in Device, NEW p \in UNION {dev[e].outbox : e \in Device}, Receive(d, p)
  PROVE  IInv' /\ AllStay
<1>1. PICK s : s = dev[d]
  OBVIOUS
<1>2. PICK expired : \E w :
        /\ w = IF p.kind = "join" /\ ~HasGroup(d) THEN Ignored(s) ELSE Outcome(d, s, p, expired)
        /\ \/ /\ dev' = [e \in Device |-> IF e = d THEN w.done ELSE Handed(e, p)]
              /\ answered' = answered \cup (IF p.kind = "snapshot" THEN {p} ELSE {})
           \/ /\ \E t \in w.stops \cup {w.done} : dev' = [dev EXCEPT ![d] = t]
              /\ UNCHANGED answered
  BY <1>1 DEF Receive
<1>3. PICK w :
        /\ w = IF p.kind = "join" /\ ~HasGroup(d) THEN Ignored(s) ELSE Outcome(d, s, p, expired)
        /\ \/ /\ dev' = [e \in Device |-> IF e = d THEN w.done ELSE Handed(e, p)]
              /\ answered' = answered \cup (IF p.kind = "snapshot" THEN {p} ELSE {})
           \/ /\ \E t \in w.stops \cup {w.done} : dev' = [dev EXCEPT ![d] = t]
              /\ UNCHANGED answered
  BY <1>2
<1>4. /\ p.to = d /\ (p.kind \in NeedsGroup => s.group # NoGroup)
      /\ UNCHANGED <<links, HandedOver>>
  BY <1>1 DEF Receive, HasGroup, HandedOver
<1>5. AllSound(HandedOver, answered) /\ StateSound(s, d, HandedOver, answered)
  BY <1>1 DEF IInv, AllSound
<1>6. Arrives(p, d, HandedOver)
  BY <1>4, <1>5 DEF AllSound, StateSound, Arrives
<1>7. Fine(w, s, d, HandedOver, answered)
  <2>1. CASE p.kind = "join" /\ ~HasGroup(d)
    BY <1>3, <1>5, <2>1, IgnoredFine
  <2>2. CASE ~(p.kind = "join" /\ ~HasGroup(d))
    BY <1>1, <1>3, <1>4, <1>5, <1>6, <2>2, OutcomeFine DEF HasGroup
  <2> QED BY <2>1, <2>2
<1>8. CASE /\ dev' = [e \in Device |-> IF e = d THEN w.done ELSE Handed(e, p)]
           /\ answered' = answered \cup (IF p.kind = "snapshot" THEN {p} ELSE {})
  <2>1. answered \subseteq answered' /\ (p.kind = "snapshot" => p \in answered')
    BY <1>8
  <2>2. StateSound(w.done, d, HandedOver, answered) /\ Stays(s, w.done)
    BY <1>7 DEF Fine
  <2>3. StateSound(w.done, d, HandedOver, answered')
    BY <2>1, <2>2, SoundLater
  <2>4. \A e \in Device : /\ StateSound(Handed(e, p), e, HandedOver, answered')
                          /\ Stays(dev[e], Handed(e, p))
    BY <1>5, <2>1, HandedSound DEF AllSound
  <2> QED BY <1>1, <1>4, <1>8, <2>2, <2>3, <2>4 DEF IInv, AllStay
<1>9. CASE /\ \E t \in w.stops \cup {w.done} : dev' = [dev EXCEPT ![d] = t]
           /\ UNCHANGED answered
  <2>1. PICK t \in w.stops \cup {w.done} : dev' = [dev EXCEPT ![d] = t]
    BY <1>9
  <2>2. StateSound(t, d, HandedOver, answered) /\ Stays(s, t)
    BY <1>7, <2>1 DEF Fine
  <2>3. dev' = [e \in Device |-> IF e = d THEN t ELSE dev[e]]
    BY <1>5, <2>1 DEF AllSound
  <2> QED BY <1>1, <1>4, <1>5, <1>9, <2>2, <2>3 DEF IInv, AllSound, AllStay, Stays
<1> QED BY <1>3, <1>8, <1>9

(***************************************************************************)
(* Theorems.                                                               *)
(***************************************************************************)

LEMMA InitSound == Init => IInv
<1>1. SUFFICES ASSUME Init PROVE IInv
  OBVIOUS
<1>2. PICK s : s = [group |-> NoGroup, history |-> {}, outbox |-> {}, told |-> {}]
  OBVIOUS
<1>3. IsState(s) /\ s.group = NoGroup /\ s.outbox = {} /\ s.told = {}
  BY <1>2 DEF IsState, StateFields
<1>4. \A d \in Device : StateSound(s, d, HandedOver, answered)
  BY <1>3 DEF StateSound, ToldSound
<1>5. dev = [d \in Device |-> s] /\ ~HandedOver /\ links = {}
  BY <1>1, <1>2 DEF Init, HandedOver
<1> QED BY <1>4, <1>5 DEF IInv

LEMMA StepSound ==
  ASSUME IInv, [Next]_vars
  PROVE  IInv' /\ (joins' = joins => AllStay)
<1>1. CASE Next
  <2>1. PICK d \in Device :
          \/ Create(d)
          \/ \E r \in Request : Act(d, r)
          \/ \E m \in Msg : SendText(d, m)
          \/ Leave(d)
          \/ \E link \in links, id \in JoinId : Join(d, link, id)
          \/ Process(d)
          \/ \E p \in UNION {dev[e].outbox : e \in Device} : Receive(d, p)
    BY <1>1 DEF Next
  <2> QED
    BY <2>1, CreateStep, ActStep, SendTextStep, LeaveStep, JoinStep, ProcessStep, ReceiveStep
<1>2. CASE UNCHANGED vars
  <2>1. UNCHANGED <<dev, links, HandedOver, answered>>
    BY <1>2 DEF vars, HandedOver
  <2>2. IInv'
    BY <2>1 DEF IInv
  <2>3. AllStay
    BY <2>1 DEF AllStay, Stays
  <2> QED BY <2>2, <2>3
<1> QED BY <1>1, <1>2

\* The invariant holds of every group that is stored or on its way.
THEOREM InvariantHolds == Spec => []IInv
<1>1. IInv /\ [Next]_vars => IInv'
  BY StepSound
<1> QED BY <1>1, InitSound, PTL DEF Spec

\* A change that was applied reaches everyone it concerns: what apply_request saved
\* for the members is still with its coordinator, in the group or in the outbox, until
\* each of them has dealt with it, wherever commands die.
THEOREM ToldEveryone == Spec => []EveryoneIsTold
<1>1. IInv => EveryoneIsTold
  <2>1. SUFFICES ASSUME IInv, NEW d \in Device, NEW p \in dev[d].told, p \notin answered
                 PROVE  p \in Owes(d)
    BY DEF EveryoneIsTold
  <2>2. StateSound(dev[d], d, HandedOver, answered)
    BY <2>1 DEF IInv
  <2> QED BY <2>1, <2>2 DEF StateSound, ToldSound, Owes, HasGroup
<1> QED BY <1>1, InvariantHolds, PTL

\* One revision carries a request, until a device of the owner's account leaves:
\* whatever the coordinator told of it, he told the same snapshot.
THEOREM OnceOnly == Spec => []AppliedOnce
<1>1. IInv => AppliedOnce
  <2>1. SUFFICES ASSUME IInv, ~HandedOver, NEW d \in Device, NEW e \in Device,
                        NEW p \in dev[d].told, NEW q \in dev[e].told,
                        p.body.event = q.body.event
                 PROVE  p.body.snapshot = q.body.snapshot
    BY DEF AppliedOnce
  <2>2. ToldSound(dev[d], d, HandedOver, answered) /\ ToldSound(dev[e], e, HandedOver, answered)
    BY <2>1 DEF IInv, StateSound
  <2>3. d = Creator /\ e = Creator
    BY <2>1, <2>2 DEF ToldSound
  <2> QED BY <2>1, <2>2, <2>3 DEF ToldSound
<1> QED BY <1>1, InvariantHolds, PTL

\* A group one has left stays left, and its history does not come back, whatever packet
\* is handled and whichever command runs or dies, unless the device sends a Join.
THEOREM LeftIsKept == Spec => LeftStaysLeft
<1>1. IInv /\ [Next]_vars =>
        [\A d \in Device :
           (HasGroup(d) /\ dev[d].group.left /\ joins' = joins)
             => /\ dev'[d].group.left
                /\ dev'[d].history \subseteq dev[d].history]_vars
  BY StepSound DEF AllStay, Stays, HasLeft, HasGroup
<1> QED BY <1>1, InvariantHolds, PTL DEF Spec, LeftStaysLeft

(***************************************************************************)
(* What the groups say, while the creator rules.  c is a chronicle of his  *)
(* group: what it says and at which revision, since which one everybody    *)
(* was told of it, and whose devices have left.  A group of that revision  *)
(* or a later one says the same, stored or on its way.                     *)
(***************************************************************************)
About(g, since, gone) ==
  [rev |-> g.rev, since |-> since, quit |-> gone, info |-> g.info, deleted |-> g.deleted,
   closed |-> g.closed, gen |-> g.gen, roles |-> g.roles,
   members |-> g.members \cup {Founder}, departed |-> g.departed]

\* The group g of the account a says what c says, but for those it knows to be gone.
Says(g, a, c) ==
  /\ g.info = c.info /\ g.deleted = c.deleted /\ g.closed = c.closed /\ g.gen = c.gen
  /\ \A x \in Account \ (g.departed \cup c.departed) :
       /\ g.roles[x] = c.roles[x]
       /\ ~g.removed => (x \in g.members \cup {a} <=> x \in c.members)

\* A closed group takes no more snapshots: it has what everybody was told.
Dated(g, a, c) ==
  /\ IsGroup(g) /\ g.rev \in Nat /\ g.gen \in Nat /\ g.rev <= c.rev
  /\ g.owner = Founder /\ g.coord = Creator
  /\ g.roles = [x \in Account |-> g.roles[x]]
  /\ g.rev >= c.since => Says(g, a, c)
  /\ g.closed => g.rev >= c.since
  /\ g.left => a \in c.quit
  /\ a = Founder => ~g.removed

\* A group as snapshots and invitations carry it.
Whole(g, c) ==
  Dated(g, Founder, c) /\ g.left = FALSE /\ g.outbound = {} /\ g.departed = {}

Conveys(p, c) ==
  /\ p.kind = "snapshot" =>
       /\ Whole(p.body.snapshot, c) /\ Founder \in p.body.snapshot.members
       /\ p.from = Creator
  /\ p.kind = "invitation" =>
       /\ Whole(p.body.invitation, c) /\ p.body.invitation.deleted = {}
       /\ AccountOf[p.from] = Founder
       /\ AccountOf[p.to] \in p.body.invitation.members \cup {Founder}

GroupTells(g, a, c) == Dated(g, a, c) /\ \A p \in g.outbound : Conveys(p, c) /\ p.kind # "sync"

PacketTells(p, c) ==
  /\ Conveys(p, c)
  /\ p.kind = "sync" => GroupTells(p.body.sync, AccountOf[p.to], c) /\ ~Alone(p.to)

\* g is the group that c is about.
Presents(g, c) ==
  /\ g.rev = c.rev /\ g.info = c.info /\ g.deleted = c.deleted /\ g.closed = c.closed
  /\ g.gen = c.gen /\ g.roles = c.roles /\ g.departed = c.departed
  /\ c.members = g.members \cup {Founder} /\ g.members \cap g.departed = {}

\* No text stays behind that is deleted, unless its deletion is due.
Purified(g, history, d) ==
  Alone(d) /\ ~g.effect /\ ~g.removed => history \cap g.deleted = {}

StateTells(s, d, c) ==
  /\ IsState(s) /\ d \in Device /\ Founder \notin c.quit
  /\ s.group # NoGroup => GroupTells(s.group, AccountOf[d], c) /\ Purified(s.group, s.history, d)
  /\ \A p \in s.outbox : PacketTells(p, c)
  /\ d = Creator => s.group # NoGroup /\ Presents(s.group, c)

\* Who has the group g knows what everybody was told, or s still has it for the device d.
UpToDate(g, c) == c.since = 0 \/ (g # NoGroup /\ g.rev >= c.since)

Reached(d, g, s, c, ans) ==
  \/ UpToDate(g, c)
  \/ \E p \in s.told \ ans : p.to = d /\ p.body.snapshot.rev = c.since

Copied(d, g, s, c) ==
  \/ UpToDate(g, c)
  \/ \E p \in s.outbox : p.kind = "sync" /\ p.to = d /\ p.body.sync.rev >= c.since

\* The bounds of a chronicle, and of the snapshots dealt with.
Counts(c) == c.rev \in Nat /\ c.since \in Nat /\ c.since <= c.rev

Dealt(ans, c) == \A p \in ans : p.body.snapshot.rev \in Nat /\ p.body.snapshot.rev <= c.rev

\* The members are reached, and so are the linked devices of the creator, who have
\* copies alone, as long as no command dies.
Chronicle(states, c, ans, cut) ==
  /\ Counts(c) /\ Dealt(ans, c)
  /\ \A d \in Device : StateTells(states[d], d, c)
  /\ \A d \in Device : AccountOf[d] \in c.members \ (c.quit \cup {Founder})
                         => Reached(d, states[d].group, states[Creator], c, ans)
  /\ cut = 0 => \A d \in Device : AccountOf[d] = Founder /\ d # Creator
                                    => Copied(d, states[d].group, states[Creator], c)

Told(c) ==
  /\ c.quit = quit /\ (links # {} => c.since >= 1)
  /\ Chronicle(dev, c, answered, cuts)

\* Nobody has the group yet.
Blank == links = {} /\ answered = {} /\ \A d \in Device : dev[d].group = NoGroup

Agreeing == cuts \in Nat /\ (HandedOver \/ Blank \/ \E c : Told(c))

(***************************************************************************)
(* Chronicles: what told the older one tells the newer one.                *)
(***************************************************************************)

\* e continues c: some accounts went, or everybody is told something new.
Onto(c, e) ==
  /\ c.rev \in Nat /\ c.since \in Nat /\ e.rev \in Nat /\ e.since \in Nat
  /\ c.since <= c.rev /\ c.rev <= e.rev /\ e.since <= e.rev /\ c.quit \subseteq e.quit
  /\ \/ /\ e.since = c.since
        /\ e.info = c.info /\ e.deleted = c.deleted /\ e.closed = c.closed /\ e.gen = c.gen
        /\ c.departed \subseteq e.departed
        /\ \A x \in Account \ e.departed : /\ e.roles[x] = c.roles[x]
                                           /\ x \in e.members <=> x \in c.members
        /\ \A x \in Account : x \in e.members => x \in c.members
     \/ c.rev < e.since /\ ~c.closed

LEMMA OntoSelf ==
  ASSUME NEW c, c.rev \in Nat, c.since \in Nat, c.since <= c.rev
  PROVE  Onto(c, c)
BY DEF Onto

LEMMA DatedLater ==
  ASSUME NEW g, NEW a, NEW c, NEW e, Dated(g, a, c), Onto(c, e)
  PROVE  Dated(g, a, e)
<1>1. g.rev \in Nat /\ g.rev <= e.rev /\ (g.left => a \in e.quit)
  BY DEF Dated, Onto
<1>2. CASE e.since = c.since
  <2>1. g.rev >= c.since => Says(g, a, e)
    BY <1>2 DEF Dated, Onto, Says
  <2> QED BY <1>1, <1>2, <2>1 DEF Dated
<1>3. CASE c.rev < e.since /\ ~c.closed
  <2>1. ~(g.rev >= e.since)
    BY <1>1, <1>3 DEF Dated, Onto
  <2>2. ~g.closed
    BY <1>3 DEF Dated, Says
  <2> QED BY <1>1, <2>1, <2>2 DEF Dated
<1> QED BY <1>2, <1>3 DEF Onto

LEMMA ConveysLater ==
  ASSUME NEW p, NEW c, NEW e, Conveys(p, c), Onto(c, e)
  PROVE  Conveys(p, e)
<1>1. \A g : Whole(g, c) => Whole(g, e)
  BY DatedLater DEF Whole
<1> QED BY <1>1 DEF Conveys

LEMMA GroupLater ==
  ASSUME NEW g, NEW a, NEW c, NEW e, GroupTells(g, a, c), Onto(c, e)
  PROVE  GroupTells(g, a, e)
BY DatedLater, ConveysLater DEF GroupTells

LEMMA PacketLater ==
  ASSUME NEW p, NEW c, NEW e, PacketTells(p, c), Onto(c, e)
  PROVE  PacketTells(p, e)
BY GroupLater, ConveysLater DEF PacketTells

LEMMA StateLater ==
  ASSUME NEW s, NEW d, NEW c, NEW e, StateTells(s, d, c), Onto(c, e), d # Creator,
         Founder \notin e.quit
  PROVE  StateTells(s, d, e)
<1>1. \A p \in s.outbox : PacketTells(p, e)
  BY PacketLater DEF StateTells
<1>2. s.group # NoGroup => GroupTells(s.group, AccountOf[d], e)
  BY GroupLater DEF StateTells
<1> QED BY <1>1, <1>2 DEF StateTells

(***************************************************************************)
(* Single writes, and commands, under one chronicle.                       *)
(***************************************************************************)

\* n says what g says, to those g was for.
Mirrors(g, n) ==
  /\ IsGroup(n) /\ n.gen = g.gen /\ n.rev = g.rev /\ n.owner = g.owner /\ n.coord = g.coord
  /\ n.info = g.info /\ n.deleted = g.deleted /\ n.closed = g.closed
  /\ n.roles = g.roles /\ n.members = g.members /\ n.departed = g.departed
  /\ n.removed = g.removed /\ (n.left => g.left)

LEMMA MirrorSelf ==
  ASSUME NEW g, IsGroup(g)
  PROVE  Mirrors(g, g)
BY DEF Mirrors

LEMMA MirrorTransitive ==
  ASSUME NEW f, NEW g, NEW n, Mirrors(f, g), Mirrors(g, n)
  PROVE  Mirrors(f, n)
BY DEF Mirrors

LEMMA MirrorTells ==
  ASSUME NEW g, NEW n, NEW a, NEW c, GroupTells(g, a, c), Mirrors(g, n),
         \A p \in n.outbound : p \in g.outbound \/ (Conveys(p, c) /\ p.kind # "sync")
  PROVE  GroupTells(n, a, c) /\ (Presents(g, c) => Presents(n, c))
<1>1. Says(g, a, c) => Says(n, a, c)
  BY DEF Mirrors, Says
<1>2. Dated(n, a, c)
  BY <1>1 DEF GroupTells, Dated, Mirrors
<1>3. \A p \in n.outbound : Conveys(p, c) /\ p.kind # "sync"
  BY DEF GroupTells
<1>4. Presents(g, c) => Presents(n, c)
  BY DEF Presents, Mirrors
<1> QED BY <1>2, <1>3, <1>4 DEF GroupTells

\* Between two states of a device that has not left, nothing is lost: neither the group
\* nor its revision, neither what was told nor a copy on its way.
Advances(s, t) ==
  /\ s.group # NoGroup => t.group # NoGroup /\ s.group.rev <= t.group.rev
  /\ s.told \subseteq t.told
  /\ \A p \in s.outbox : p.kind = "sync" => p \in t.outbox

Onward(s, t, d, c) ==
  StateTells(t, d, c) /\ (AccountOf[d] \in c.quit \/ Advances(s, t))

LEMMA RevKnown ==
  ASSUME NEW s, NEW d, NEW c, StateTells(s, d, c), s.group # NoGroup
  PROVE  s.group.rev \in Nat
BY DEF StateTells, GroupTells, Dated

LEMMA OnwardSelf ==
  ASSUME NEW s, NEW d, NEW c, StateTells(s, d, c)
  PROVE  Onward(s, s, d, c)
BY RevKnown DEF Onward, Advances

LEMMA OnwardTransitive ==
  ASSUME NEW s, NEW t, NEW u, NEW d, NEW c, NEW e, s.group # NoGroup => s.group.rev \in Nat,
         Onward(s, t, d, c), Onward(t, u, d, e), c.quit \subseteq e.quit
  PROVE  Onward(s, u, d, e)
<1>1. /\ t.group # NoGroup => t.group.rev \in Nat
      /\ u.group # NoGroup => u.group.rev \in Nat
  BY RevKnown DEF Onward
<1>2. Advances(s, t) /\ Advances(t, u) => Advances(s, u)
  BY <1>1 DEF Advances
<1> QED BY <1>2 DEF Onward

AllOnward(w, s, d, c) == \A t \in w.stops \cup {w.done} : Onward(s, t, d, c)

LEMMA DoneOnward ==
  ASSUME NEW s, NEW t, NEW d, NEW c, Onward(s, t, d, c)
  PROVE  AllOnward(Done(t), s, d, c) /\ Done(t).done = t
BY DEF AllOnward, Done

LEMMA ThenOnward ==
  ASSUME NEW s, NEW d, NEW c, s.group # NoGroup => s.group.rev \in Nat, NEW w, NEW v,
         AllOnward(w, s, d, c), AllOnward(v, w.done, d, c)
  PROVE  AllOnward(Then(w, v), s, d, c) /\ Then(w, v).done = v.done
<1>1. Then(w, v).done = v.done /\ Then(w, v).stops = w.stops \cup {w.done} \cup v.stops
  BY DEF Then
<1>2. ASSUME NEW t \in v.stops \cup {v.done} PROVE Onward(s, t, d, c)
  BY <1>2, OnwardTransitive DEF AllOnward
<1> QED BY <1>1, <1>2 DEF AllOnward

LEMMA LinkedTells ==
  ASSUME NEW d \in Device, NEW g, NEW text, NEW c, GroupTells(g, AccountOf[d], c),
         NEW p \in Linked(d, g, text)
  PROVE  PacketTells(p, c)
<1>1. /\ p.from # p.to /\ p.from = d /\ p.kind = "sync" /\ p.to \in DevicesOf({AccountOf[d]})
      /\ p.body = [sync |-> g, text |-> text]
  BY SealFields DEF Linked
<1>2. p.body.sync = g /\ AccountOf[p.to] = AccountOf[d]
  BY <1>1 DEF DevicesOf
<1>3. d \in DevicesOf({AccountOf[p.to]})
  BY <1>2 DEF DevicesOf
<1>4. ~Alone(p.to)
  BY <1>1, <1>3 DEF Alone
<1> QED BY <1>1, <1>2, <1>4 DEF PacketTells, Conveys

LEMMA HistoryOnward ==
  ASSUME NEW s, NEW d, NEW c, StateTells(s, d, c), NEW H,
         s.group # NoGroup => Purified(s.group, H, d), NEW t, t = [s EXCEPT !.history = H]
  PROVE  /\ Onward(s, t, d, c) /\ t.history = H
         /\ t.group = s.group /\ t.outbox = s.outbox /\ t.told = s.told
<1>1. /\ IsState(t) /\ t.history = H
      /\ t.group = s.group /\ t.outbox = s.outbox /\ t.told = s.told
  BY DEF StateTells, IsState, StateFields
<1>2. StateTells(t, d, c)
  BY <1>1 DEF StateTells
<1>3. Advances(s, t)
  BY <1>1, RevKnown DEF Advances
<1> QED BY <1>1, <1>2, <1>3 DEF Onward

LEMMA OutboxOnward ==
  ASSUME NEW s, NEW d, NEW c, StateTells(s, d, c), NEW P, \A p \in P : PacketTells(p, c),
         NEW t, t = [s EXCEPT !.outbox = @ \cup P]
  PROVE  /\ Onward(s, t, d, c) /\ t.outbox = s.outbox \cup P
         /\ t.group = s.group /\ t.history = s.history /\ t.told = s.told
<1>1. /\ IsState(t) /\ t.history = s.history
      /\ t.group = s.group /\ t.outbox = s.outbox \cup P /\ t.told = s.told
  BY DEF StateTells, IsState, StateFields
<1>2. StateTells(t, d, c)
  BY <1>1 DEF StateTells
<1>3. Advances(s, t)
  BY <1>1, RevKnown DEF Advances
<1> QED BY <1>1, <1>2, <1>3 DEF Onward

LEMMA SyncedOnward ==
  ASSUME NEW s, NEW d, NEW c, StateTells(s, d, c), NEW g, GroupTells(g, AccountOf[d], c),
         NEW text, NEW t, t = Synced(d, s, g, text)
  PROVE  /\ Onward(s, t, d, c) /\ t.outbox = s.outbox \cup Linked(d, g, text)
         /\ t.group = s.group /\ t.history = s.history /\ t.told = s.told
<1>1. \A p \in Linked(d, g, text) : PacketTells(p, c)
  BY LinkedTells DEF StateTells
<1> QED BY <1>1, OutboxOnward DEF Synced

LEMMA CancelledOnward ==
  ASSUME NEW s, NEW d, NEW c, StateTells(s, d, c), NEW msgs, NEW t, t = Cancelled(s, msgs)
  PROVE  /\ Onward(s, t, d, c)
         /\ t.group = s.group /\ t.history = s.history /\ t.told = s.told
<1>1. /\ IsState(t) /\ t.history = s.history /\ t.group = s.group /\ t.told = s.told
      /\ t.outbox = s.outbox \ TextOf(s.outbox, msgs)
  BY DEF StateTells, IsState, StateFields, Cancelled
<1>2. \A p \in s.outbox : p.kind = "sync" => p \in t.outbox
  BY <1>1 DEF TextOf
<1>3. StateTells(t, d, c)
  BY <1>1 DEF StateTells
<1>4. Advances(s, t)
  BY <1>1, <1>2, RevKnown DEF Advances
<1> QED BY <1>1, <1>3, <1>4 DEF Onward

LEMMA SavedOnward ==
  ASSUME NEW s, NEW d, NEW c, StateTells(s, d, c), NEW g, GroupTells(g, AccountOf[d], c),
         s.group # NoGroup => AccountOf[d] \in c.quit \/ s.group.rev <= g.rev,
         Purified(g, s.history, d), d = Creator => Presents(g, c), NEW t, t = Saved(s, g)
  PROVE  /\ Onward(s, t, d, c) /\ t.group = g /\ t.group # NoGroup
         /\ t.history = s.history /\ t.outbox = s.outbox
<1>1. /\ IsState(t) /\ t.group = g /\ t.history = s.history /\ t.outbox = s.outbox
      /\ t.told = IF g.left THEN s.told \cap s.outbox ELSE s.told
  BY DEF StateTells, IsState, StateFields, Saved
<1>2. g # NoGroup /\ (g.left => AccountOf[d] \in c.quit)
  BY SomeGroup DEF GroupTells, Dated
<1>3. StateTells(t, d, c)
  BY <1>1, <1>2 DEF StateTells
<1>4. AccountOf[d] \in c.quit \/ Advances(s, t)
  BY <1>1, <1>2 DEF Advances
<1> QED BY <1>1, <1>2, <1>3, <1>4 DEF Onward

\* The group is replaced by one that says the same.
LEMMA MirrorSaved ==
  ASSUME NEW s, NEW d, NEW c, StateTells(s, d, c), s.group # NoGroup, NEW n, Mirrors(s.group, n),
         \A p \in n.outbound : p \in s.group.outbound \/ (Conveys(p, c) /\ p.kind # "sync"),
         ~n.effect => ~s.group.effect, NEW t, t = Saved(s, n)
  PROVE  /\ Onward(s, t, d, c) /\ t.group = n /\ t.group # NoGroup
         /\ t.history = s.history /\ t.outbox = s.outbox
<1>1. GroupTells(s.group, AccountOf[d], c) /\ Purified(s.group, s.history, d)
  BY DEF StateTells
<1>2. GroupTells(n, AccountOf[d], c) /\ (Presents(s.group, c) => Presents(n, c))
  BY <1>1, MirrorTells
<1>3. Purified(n, s.history, d)
  BY <1>1 DEF Purified, Mirrors
<1>4. s.group.rev <= n.rev
  BY RevKnown DEF Mirrors
<1>5. d = Creator => Presents(n, c)
  BY <1>2 DEF StateTells
<1> QED BY <1>2, <1>3, <1>4, <1>5, SavedOnward

\* The same for a group that is changed in place.
LEMMA MirrorWritten ==
  ASSUME NEW s, NEW d, NEW c, StateTells(s, d, c), s.group # NoGroup, NEW n, Mirrors(s.group, n),
         n.outbound \subseteq s.group.outbound, Purified(n, s.history, d),
         NEW t, t = [s EXCEPT !.group = n]
  PROVE  Onward(s, t, d, c) /\ t.group = n /\ t.group # NoGroup
<1>1. IsState(t) /\ t.group = n /\ t.history = s.history /\ t.outbox = s.outbox /\ t.told = s.told
  BY DEF StateTells, IsState, StateFields
<1>2. GroupTells(n, AccountOf[d], c) /\ (Presents(s.group, c) => Presents(n, c))
  BY MirrorTells DEF StateTells
<1>3. n # NoGroup
  BY SomeGroup DEF Mirrors
<1>4. StateTells(t, d, c)
  BY <1>1, <1>2, <1>3 DEF StateTells
<1>5. Advances(s, t)
  BY <1>1, <1>3, RevKnown DEF Advances, Mirrors
<1> QED BY <1>1, <1>3, <1>4, <1>5 DEF Onward

\* What is deleted leaves the history.
LEMMA PurgedOnward ==
  ASSUME NEW s, NEW d, NEW c, StateTells(s, d, c), s.group # NoGroup, NEW w, w = Purged(s)
  PROVE  /\ AllOnward(w, s, d, c) /\ w.done.group = s.group
         /\ w.done.history \cap s.group.deleted = {}
<1>1. PICK t : t = [s EXCEPT !.history = Kept(s.group, @)]
  OBVIOUS
<1>2. PICK u : u = Cancelled(t, s.history \ t.history)
  OBVIOUS
<1>3. PICK H : H = Kept(s.group, s.history)
  OBVIOUS
<1>4. H \subseteq s.history /\ H \cap s.group.deleted = {}
  BY <1>3 DEF Kept
<1>5. Purified(s.group, H, d)
  BY <1>4 DEF Purified
<1>6. Onward(s, t, d, c) /\ t.group = s.group /\ t.history = H
  BY <1>1, <1>3, <1>5, HistoryOnward
<1>7. StateTells(t, d, c)
  BY <1>6 DEF Onward
<1>8. Onward(t, u, d, c) /\ u.group = t.group /\ u.history = t.history
  BY <1>2, <1>7, CancelledOnward
<1>9. w = Then(Done(t), Done(u))
  BY <1>1, <1>2 DEF Purged
<1>10. AllOnward(Done(t), s, d, c) /\ Done(t).done = t
  BY <1>6, DoneOnward
<1>11. AllOnward(Done(u), t, d, c) /\ Done(u).done = u
  BY <1>8, DoneOnward
<1>12. AllOnward(w, s, d, c) /\ w.done = u
  BY <1>9, <1>10, <1>11, RevKnown, ThenOnward
<1> QED BY <1>4, <1>6, <1>8, <1>12

LEMMA CompletedOnward ==
  ASSUME NEW s, NEW d, NEW c, StateTells(s, d, c), s.group # NoGroup, NEW w, w = Completed(s)
  PROVE  /\ AllOnward(w, s, d, c) /\ w.done.group # NoGroup
         /\ Mirrors(s.group, w.done.group)
<1>0. IsGroup(s.group)
  BY DEF StateTells, GroupTells, Dated
<1>1. CASE ~s.group.effect
  <2>1. w = Done(s)
    BY <1>1 DEF Completed
  <2>2. AllOnward(w, s, d, c) /\ w.done = s
    BY <2>1, OnwardSelf, DoneOnward
  <2> QED BY <1>0, <2>2, MirrorSelf
<1>2. CASE s.group.effect
  <2>1. PICK v : v = Purged(s)
    OBVIOUS
  <2>2. PICK x : x = v.done
    OBVIOUS
  <2>3. PICK n : n = [s.group EXCEPT !.effect = FALSE]
    OBVIOUS
  <2>4. PICK t : t = [x EXCEPT !.group = n]
    OBVIOUS
  <2>5. /\ AllOnward(v, s, d, c) /\ x.group = s.group
        /\ x.history \cap s.group.deleted = {}
    BY <2>1, <2>2, PurgedOnward
  <2>6. StateTells(x, d, c)
    BY <2>2, <2>5 DEF AllOnward, Onward
  <2>7. Mirrors(s.group, n) /\ n.outbound = s.group.outbound
    BY <1>0, <2>3 DEF Mirrors, IsGroup, GroupFields
  <2>8. Purified(n, x.history, d)
    BY <2>5, <2>7 DEF Purified, Mirrors
  <2>9. Onward(x, t, d, c) /\ t.group = n /\ t.group # NoGroup
    BY <2>4, <2>5, <2>6, <2>7, <2>8, MirrorWritten
  <2>10. t = [x EXCEPT !.group.effect = FALSE]
    BY <2>3, <2>4, <2>5
  <2>11. w = Then(v, Done(t))
    BY <1>2, <2>1, <2>2, <2>10 DEF Completed
  <2>12. AllOnward(Done(t), v.done, d, c) /\ Done(t).done = t
    BY <2>2, <2>9, DoneOnward
  <2>13. AllOnward(w, s, d, c) /\ w.done = t
    BY <2>5, <2>11, <2>12, RevKnown, ThenOnward
  <2> QED BY <2>7, <2>9, <2>13
<1> QED BY <1>1, <1>2

LEMMA TransferredOnward ==
  ASSUME NEW s, NEW d, NEW c, StateTells(s, d, c), s.group # NoGroup, NEW w, w = Transferred(s)
  PROVE  /\ AllOnward(w, s, d, c) /\ w.done.group # NoGroup
         /\ Mirrors(s.group, w.done.group)
<1>1. PICK t : t = [s EXCEPT !.outbox = @ \cup s.group.outbound]
  OBVIOUS
<1>2. PICK n : n = [s.group EXCEPT !.outbound = {}]
  OBVIOUS
<1>3. PICK u : u = [t EXCEPT !.group = n]
  OBVIOUS
<1>4. \A p \in s.group.outbound : PacketTells(p, c)
  BY DEF StateTells, GroupTells, PacketTells
<1>5. Onward(s, t, d, c) /\ t.group = s.group /\ t.history = s.history
  BY <1>1, <1>4, OutboxOnward
<1>6. StateTells(t, d, c)
  BY <1>5 DEF Onward
<1>7. Mirrors(s.group, n) /\ n.outbound = {} /\ n.effect = s.group.effect
  BY <1>2 DEF StateTells, GroupTells, Dated, Mirrors, IsGroup, GroupFields
<1>8. Purified(n, t.history, d)
  BY <1>5, <1>7 DEF StateTells, Purified, Mirrors
<1>9. Onward(t, u, d, c) /\ u.group = n /\ u.group # NoGroup
  BY <1>3, <1>5, <1>6, <1>7, <1>8, MirrorWritten
<1>10. u = [t EXCEPT !.group.outbound = {}]
  BY <1>2, <1>3, <1>5
<1>11. w = Then(Done(t), Done(u))
  BY <1>1, <1>10 DEF Transferred
<1>12. AllOnward(Done(t), s, d, c) /\ Done(t).done = t
  BY <1>5, DoneOnward
<1>13. AllOnward(Done(u), t, d, c) /\ Done(u).done = u
  BY <1>9, DoneOnward
<1>14. AllOnward(w, s, d, c) /\ w.done = u
  BY <1>11, <1>12, <1>13, RevKnown, ThenOnward
<1> QED BY <1>7, <1>9, <1>14

LEMMA FlushedOnward ==
  ASSUME NEW s, NEW d, NEW c, StateTells(s, d, c), s.group # NoGroup, NEW t, t = Flushed(d, s)
  PROVE  Onward(s, t, d, c) /\ t.group # NoGroup
<1>1. CASE ~s.group.departing
  BY <1>1, OnwardSelf DEF Flushed
<1>2. CASE s.group.departing
  <2>1. PICK P : P = Seal(d, DevicesOf(s.group.members), "departure",
                          [successor |-> s.group.successor])
    OBVIOUS
  <2>2. PICK g : g = s.group
    OBVIOUS
  <2>3. PICK n : n = [g EXCEPT !.departing = FALSE, !.successor = None, !.outbound = @ \cup P]
    OBVIOUS
  <2>4. t = Saved(s, n)
    BY <1>2, <2>1, <2>2, <2>3 DEF Flushed
  <2>5. \A p \in P : Conveys(p, c) /\ p.kind # "sync"
    BY <2>1, SealFields DEF Conveys
  <2>6. Mirrors(g, n) /\ n.outbound = g.outbound \cup P /\ n.effect = g.effect
    BY <2>2, <2>3 DEF StateTells, GroupTells, Dated, Mirrors, IsGroup, GroupFields
  <2> QED BY <2>2, <2>4, <2>5, <2>6, MirrorSaved
<1> QED BY <1>1, <1>2

\* A group that was saved, and whose effects are then carried out.
LEMMA AdoptedOnward ==
  ASSUME NEW s, NEW d, NEW c, NEW g, s.group # NoGroup => s.group.rev \in Nat,
         Onward(s, Saved(s, g), d, c), Saved(s, g).group = g, g # NoGroup, NEW w, w = Adopted(s, g)
  PROVE  AllOnward(w, s, d, c) /\ w.done.group # NoGroup /\ w.done.group.rev = g.rev
<1>1. PICK t : t = Saved(s, g)
  OBVIOUS
<1>2. PICK v : v = Completed(t)
  OBVIOUS
<1>3. w = Then(Done(t), v)
  BY <1>1, <1>2 DEF Adopted
<1>4. StateTells(t, d, c) /\ t.group = g
  BY <1>1 DEF Onward
<1>5. AllOnward(v, t, d, c) /\ v.done.group # NoGroup /\ Mirrors(g, v.done.group)
  BY <1>2, <1>4, CompletedOnward
<1>6. AllOnward(Done(t), s, d, c) /\ Done(t).done = t
  BY <1>1, DoneOnward
<1>7. AllOnward(w, s, d, c) /\ w.done = v.done
  BY <1>3, <1>5, <1>6, ThenOnward
<1> QED BY <1>5, <1>7 DEF Mirrors

(***************************************************************************)
(* The coordinator applies a request: a revision nobody else has yet.      *)
(***************************************************************************)

\* What the chronicle takes from a change: the members are never among the departed.
LEMMA ChangedRoster ==
  ASSUME NEW g, IsGroup(g), g.gen \in Nat, g.roles = [x \in Account |-> g.roles[x]],
         g.members \cap g.departed = {}, NEW r, NEW n, n = Changed(g, r)
  PROVE  /\ n.roles = [x \in Account |-> n.roles[x]]
         /\ n.members \cap n.departed = {} /\ n.rev = g.rev
<1>1. CASE r.kind = "info"
  BY <1>1 DEF IsGroup, GroupFields, Changed, Described
<1>2. CASE r.kind = "delete"
  BY <1>2 DEF IsGroup, GroupFields, Changed
<1>3. CASE r.kind = "add"
  BY <1>3 DEF IsGroup, GroupFields, Changed
<1>4. CASE r.kind = "remove"
  <2>1. PICK f : f = [g.roles EXCEPT ![r.who] = None]
    OBVIOUS
  <2>2. n = [g EXCEPT !.members = @ \ {r.who}, !.roles = f, !.departed = @ \cup {r.who}]
    BY <1>4, <2>1 DEF Changed
  <2>3. f = [x \in Account |-> f[x]]
    BY <2>1
  <2>4. n.roles = f /\ n.rev = g.rev /\ n.members = g.members \ {r.who}
        /\ n.departed = g.departed \cup {r.who}
    BY <2>2 DEF IsGroup, GroupFields
  <2> QED BY <2>3, <2>4
<1>5. CASE r.kind = "grant"
  <2>1. PICK f : f = [g.roles EXCEPT ![r.who] = r.rights]
    OBVIOUS
  <2>2. n = [g EXCEPT !.roles = f]
    BY <1>5, <2>1 DEF Changed
  <2>3. f = [x \in Account |-> f[x]]
    BY <2>1
  <2> QED BY <2>2, <2>3 DEF IsGroup, GroupFields
<1>6. CASE r.kind = "revoke role"
  <2>1. PICK f : f = [g.roles EXCEPT ![r.who] = None]
    OBVIOUS
  <2>2. n = [g EXCEPT !.roles = f]
    BY <1>6, <2>1 DEF Changed
  <2>3. f = [x \in Account |-> f[x]]
    BY <2>1
  <2> QED BY <2>2, <2>3 DEF IsGroup, GroupFields
<1>7. CASE r.kind = "close"
  BY <1>7 DEF IsGroup, GroupFields, Changed
<1>8. CASE r.kind = "link"
  <2>1. PICK k : k = g.gen + 1
    OBVIOUS
  <2>2. n = [g EXCEPT !.gen = k, !.invite = k]
    BY <1>8, <2>1 DEF Changed
  <2> QED BY <2>2 DEF IsGroup, GroupFields
<1>9. CASE r.kind \notin {"info", "delete", "add", "remove", "grant", "revoke role", "close",
                          "link"}
  <2>1. PICK k : k = g.gen + 1
    OBVIOUS
  <2>2. n = [g EXCEPT !.gen = k, !.invite = 0]
    BY <1>9, <2>1 DEF Changed
  <2> QED BY <2>2 DEF IsGroup, GroupFields
<1> QED BY <1>1, <1>2, <1>3, <1>4, <1>5, <1>6, <1>7, <1>8, <1>9

LEMMA RevisedRoster ==
  ASSUME NEW g, IsGroup(g), g.gen \in Nat, g.roles = [x \in Account |-> g.roles[x]],
         g.members \cap g.departed = {}, NEW d, NEW r, NEW n, n = Revised(d, g, r)
  PROVE  /\ n.roles = [x \in Account |-> n.roles[x]]
         /\ n.members \cap n.departed = {} /\ n.rev = g.rev + 1
<1>1. PICK f : f = [g EXCEPT !.coord = d]
  OBVIOUS
<1>2. PICK b : b = Changed(f, r)
  OBVIOUS
<1>3. /\ IsGroup(f) /\ f.gen = g.gen /\ f.rev = g.rev /\ f.roles = g.roles
      /\ f.members = g.members /\ f.departed = g.departed
  BY <1>1 DEF IsGroup, GroupFields
<1>4. IsGroup(b)
  BY <1>2, <1>3, ChangedSame DEF Same
<1>5. /\ b.roles = [x \in Account |-> b.roles[x]]
      /\ b.members \cap b.departed = {} /\ b.rev = f.rev
  BY <1>2, <1>3, ChangedRoster
<1>6. PICK P, Q : n = [b EXCEPT !.rev = @ + 1, !.processed = P, !.requests = Q]
  BY <1>1, <1>2 DEF Revised, Counted
<1>7. n.rev = b.rev + 1 /\ n.roles = b.roles /\ n.members = b.members /\ n.departed = b.departed
  BY <1>4, <1>6 DEF IsGroup, GroupFields
<1> QED BY <1>3, <1>5, <1>7

\* A group of the creator that a new chronicle can be about.
Ruling(n) ==
  /\ IsGroup(n) /\ n.rev \in Nat /\ n.gen \in Nat /\ n.owner = Founder /\ n.coord = Creator
  /\ n.roles = [x \in Account |-> n.roles[x]] /\ n.members \cap n.departed = {}
  /\ ~n.left /\ ~n.removed

LEMMA AboutDated ==
  ASSUME NEW n, Ruling(n), NEW since, since <= n.rev, NEW gone, NEW e, e = About(n, since, gone)
  PROVE  Dated(n, Founder, e) /\ Presents(n, e) /\ e.since = since /\ e.quit = gone
<1>1. Presents(n, e) /\ e.since = since /\ e.quit = gone
  BY DEF About, Presents, Ruling
<1>2. Says(n, Founder, e)
  BY <1>1 DEF Says, Presents
<1> QED BY <1>1, <1>2 DEF Dated, Presents, Ruling

\* Of the creator's own group the invariant says the rest.
LEMMA PresentRuling ==
  ASSUME NEW s, NEW c, StateTells(s, Creator, c)
  PROVE  /\ Ruling(s.group) /\ s.group # NoGroup /\ Presents(s.group, c)
         /\ GroupTells(s.group, Founder, c)
<1>1. s.group # NoGroup /\ Presents(s.group, c) /\ GroupTells(s.group, Founder, c)
  BY DEF StateTells, Founder
<1>2. ~s.group.left /\ ~s.group.removed
  BY <1>1 DEF StateTells, GroupTells, Dated
<1> QED BY <1>1, <1>2 DEF Ruling, GroupTells, Dated, Presents

LEMMA SnapshotWhole ==
  ASSUME NEW n, Ruling(n), NEW since, since <= n.rev, NEW gone, NEW e, e = About(n, since, gone),
         NEW g, g = Snapshot(Creator, n)
  PROVE  Whole(g, e) /\ Founder \in g.members /\ g.rev = n.rev
<1>1. PICK b : b = Cleared(n)
  OBVIOUS
<1>2. /\ IsGroup(b) /\ b.gen = n.gen /\ b.rev = n.rev /\ b.owner = n.owner /\ b.coord = n.coord
      /\ b.info = n.info /\ b.deleted = n.deleted /\ b.closed = n.closed /\ b.roles = n.roles
      /\ b.members = n.members /\ b.removed = n.removed /\ b.outbound = {}
  BY <1>1 DEF Ruling, Cleared, IsGroup, GroupFields
<1>3. g = [b EXCEPT !.members = @ \cup {Founder}, !.processed = {},
             !.invite = 0, !.shared = 0, !.left = FALSE, !.departing = FALSE,
             !.successor = None, !.departed = {}]
  BY <1>1 DEF Snapshot, Founder
<1>4. /\ IsGroup(g) /\ g.gen = b.gen /\ g.rev = b.rev /\ g.owner = b.owner /\ g.coord = b.coord
      /\ g.info = b.info /\ g.deleted = b.deleted /\ g.closed = b.closed /\ g.roles = b.roles
      /\ g.members = b.members \cup {Founder} /\ g.removed = b.removed /\ g.outbound = {}
      /\ g.left = FALSE /\ g.departed = {}
  BY <1>2, <1>3 DEF IsGroup, GroupFields
<1>5. Presents(n, e) /\ e.since = since
  BY AboutDated
<1>6. Says(g, Founder, e)
  BY <1>2, <1>4, <1>5 DEF Says, Presents
<1>7. Dated(g, Founder, e)
  BY <1>2, <1>4, <1>5, <1>6 DEF Dated, Presents, Ruling
<1> QED BY <1>2, <1>4, <1>7 DEF Whole

\* Everybody is told what is new, and so are the linked devices at the end.
Announces(t, e, ans) ==
  e.since >= 1 /\ \A x \in Device : AccountOf[x] \in e.members \ {Founder}
                    => \E p \in t.told \ ans : p.to = x /\ p.body.snapshot.rev = e.since

Copies(t, e) ==
  \A x \in Device : AccountOf[x] = Founder /\ x # Creator
    => \E p \in t.outbox : p.kind = "sync" /\ p.to = x /\ p.body.sync.rev >= e.since

\* The command w continues the chronicle c by e, and then tells everybody, or
\* tells nothing that concerns them.
Turns(w, s, d, c, e, ans) ==
  /\ Onto(c, e) /\ e.quit = c.quit /\ AllOnward(w, s, d, e)
  /\ \/ e.since = c.since
     \/ (\A t \in w.stops \cup {w.done} : Announces(t, e, ans)) /\ Copies(w.done, e)

LEMMA AdvancesAnnounces ==
  ASSUME NEW s, NEW t, NEW e, NEW ans, Advances(s, t)
  PROVE  /\ Announces(s, e, ans) => Announces(t, e, ans)
         /\ Copies(s, e) => Copies(t, e)
<1>1. Announces(s, e, ans) => Announces(t, e, ans)
  BY DEF Advances, Announces
<1>2. Copies(s, e) => Copies(t, e)
  BY DEF Advances, Copies
<1> QED BY <1>1, <1>2

LEMMA CreatorAdvances ==
  ASSUME NEW s, NEW t, NEW e, Onward(s, t, Creator, e)
  PROVE  Advances(s, t)
BY DEF Onward, StateTells, Founder

\* The decision: n is the new revision, e the chronicle of it, t the state that is saved.
Decision(s, r, c, n, e, t) ==
  /\ n = Decided(Creator, s.group, r) /\ e = About(n, n.rev, c.quit)
  /\ t = [Saved(s, n) EXCEPT !.told = @ \cup Announced(Creator, s.group, r)]

LEMMA DecidedTells ==
  ASSUME NEW s, NEW c, StateTells(s, Creator, c), NEW r, ~s.group.closed, NEW ans, Dealt(ans, c),
         c.rev \in Nat, c.since \in Nat, c.since <= c.rev,
         NEW n, NEW e, NEW t, Decision(s, r, c, n, e, t)
  PROVE  /\ Onto(c, e) /\ e.quit = c.quit /\ Onward(s, t, Creator, e) /\ t.group # NoGroup
         /\ Announces(t, e, ans)
         /\ GroupTells(n, Founder, e) /\ n.rev = e.since /\ IsGroup(n) /\ c.rev < n.rev
<1>1. PICK g : g = s.group
  OBVIOUS
<1>2. PICK v : v = Revised(Creator, g, r)
  OBVIOUS
<1>3. PICK A : A = Announced(Creator, g, r)
  OBVIOUS
<1>21. PICK u : u = Saved(s, n)
  OBVIOUS
<1>23. /\ n = Decided(Creator, g, r) /\ e = About(n, n.rev, c.quit)
       /\ t = [u EXCEPT !.told = @ \cup A]
  BY <1>1, <1>3, <1>21 DEF Decision
<1>4. PICK I : I = Invited(Creator, g, r)
  OBVIOUS
<1>5. Ruling(g) /\ Presents(g, c) /\ GroupTells(g, Founder, c)
  BY <1>1, PresentRuling
<1>6. Ruling(v) /\ v.outbound = g.outbound /\ v.rev = g.rev + 1
  BY <1>2, <1>5, RevisedSame, RevisedRoster DEF Ruling
<1>7. n = [v EXCEPT !.effect = TRUE, !.outbound = @ \cup A \cup I]
  BY <1>2, <1>3, <1>4, <1>23 DEF Decided
<1>8. /\ Mirrors(v, n) /\ n.outbound = g.outbound \cup A \cup I /\ n.effect = TRUE
      /\ n.left = v.left
  BY <1>6, <1>7 DEF Ruling, Mirrors, IsGroup, GroupFields
<1>9. Ruling(n) /\ n.rev = g.rev + 1 /\ c.rev < n.rev
  BY <1>5, <1>6, <1>8 DEF Ruling, Mirrors, Presents
<1>10. Dated(n, Founder, e) /\ Presents(n, e) /\ e.since = n.rev /\ e.quit = c.quit
  <2>1. PICK N : N = n.rev /\ N <= n.rev
    BY <1>9 DEF Ruling
  <2> QED BY <1>9, <1>23, <2>1, AboutDated
<1>11. Onto(c, e)
  <2>1. e.rev \in Nat /\ e.since \in Nat /\ c.rev < e.since /\ e.rev = e.since
    BY <1>9, <1>10 DEF Ruling, Presents
  <2>2. ~c.closed
    BY <1>1, <1>5 DEF Presents
  <2> QED BY <1>10, <2>1, <2>2 DEF Onto
<1>12. e = About(v, v.rev, c.quit)
  BY <1>8, <1>23 DEF About, Mirrors
<1>13. PICK snap : snap = Snapshot(Creator, v)
  OBVIOUS
<1>14. Whole(snap, e) /\ Founder \in snap.members /\ snap.rev = n.rev
  <2>1. PICK N : N = v.rev /\ N <= v.rev /\ v.rev = n.rev
    BY <1>6, <1>8 DEF Ruling, Mirrors
  <2> QED BY <1>6, <1>12, <1>13, <2>1, SnapshotWhole
<1>15. PICK body : body = [snapshot |-> snap, event |-> r.id]
  OBVIOUS
<1>16. A = Seal(Creator, DevicesOf(g.members \cup v.members), "snapshot", body)
  BY <1>2, <1>3, <1>13, <1>15 DEF Announced
<1>17. \A p \in A : p.from = Creator /\ p.kind = "snapshot" /\ p.body = body
  BY <1>16, SealFields
<1>18. \A p \in A : Conveys(p, e) /\ p.kind # "sync" /\ p.body.snapshot.rev = e.since
  BY <1>10, <1>14, <1>15, <1>17 DEF Conveys
<1>19. \A p \in I : Conveys(p, e) /\ p.kind # "sync"
  <2>1. TAKE p \in I
  <2>2. PICK to, what : p \in Seal(Creator, to, "invite", what)
    BY <1>4 DEF Invited
  <2> QED BY <2>2, SealFields DEF Conveys
<1>20. GroupTells(n, Founder, e)
  <2>1. \A p \in g.outbound : Conveys(p, e) /\ p.kind # "sync"
    BY <1>5, <1>11, ConveysLater DEF GroupTells
  <2> QED BY <1>8, <1>10, <1>18, <1>19, <2>1 DEF GroupTells
<1>22. /\ IsState(u) /\ u.group = n /\ u.history = s.history /\ u.outbox = s.outbox
       /\ u.told = s.told
  BY <1>9, <1>21 DEF StateTells, IsState, StateFields, Saved, Ruling
<1>24. /\ IsState(t) /\ t.group = n /\ t.history = s.history /\ t.outbox = s.outbox
       /\ t.told = s.told \cup A
  BY <1>22, <1>23 DEF IsState, StateFields
<1>25. n # NoGroup /\ IsGroup(n)
  BY <1>9, SomeGroup DEF Ruling
<1>26. StateTells(t, Creator, e)
  <2>1. \A p \in s.outbox : PacketTells(p, e)
    BY <1>11, PacketLater DEF StateTells
  <2>2. Purified(n, s.history, Creator)
    BY <1>8 DEF Purified
  <2> QED BY <1>10, <1>20, <1>24, <1>25, <2>1, <2>2 DEF StateTells, Founder
<1>27. Advances(s, t)
  BY <1>1, <1>5, <1>9, <1>24, <1>25 DEF Advances, Ruling
<1>28. Announces(t, e, ans)
  <2>1. SUFFICES ASSUME NEW x \in Device, AccountOf[x] \in e.members \ {Founder}
                 PROVE  \E p \in t.told \ ans : p.to = x /\ p.body.snapshot.rev = e.since
    BY <1>9, <1>10, <1>5 DEF Announces, Ruling
  <2>2. AccountOf[x] \in v.members /\ x # Creator
    BY <1>8, <1>10, <2>1 DEF Presents, Mirrors, Founder
  <2>3. PICK p : p = [from |-> Creator, to |-> x, kind |-> "snapshot", body |-> body]
    OBVIOUS
  <2>4. p \in A /\ p.to = x
    BY <1>16, <2>2, <2>3 DEF Seal, DevicesOf
  <2>5. p.body.snapshot.rev = e.since /\ c.rev < e.since /\ e.since \in Nat
    BY <1>9, <1>10, <1>18, <2>4 DEF Ruling
  <2>6. p \notin ans
    BY <2>5 DEF Dealt
  <2> QED BY <1>24, <2>4, <2>5, <2>6
<1> QED BY <1>9, <1>10, <1>11, <1>20, <1>24, <1>25, <1>26, <1>27, <1>28 DEF Onward

LEMMA ClearedTells ==
  ASSUME NEW g, NEW a, NEW c, GroupTells(g, a, c), NEW n, n = Cleared(g)
  PROVE  GroupTells(n, a, c) /\ n.rev = g.rev
<1>1. Mirrors(g, n) /\ n.outbound = {}
  BY DEF GroupTells, Dated, Mirrors, IsGroup, GroupFields, Cleared
<1> QED BY <1>1, MirrorTells DEF Mirrors

LEMMA AppliedTurns ==
  ASSUME NEW s, NEW c, StateTells(s, Creator, c), NEW r, ~s.group.closed, NEW ans, Dealt(ans, c),
         c.rev \in Nat, c.since \in Nat, c.since <= c.rev, NEW w, w = Applied(Creator, s, r)
  PROVE  \E e : Turns(w, s, Creator, c, e, ans) /\ w.done.group # NoGroup /\ e.since # c.since
<1>1. PICK n : n = Decided(Creator, s.group, r)
  OBVIOUS
<1>2. PICK e : e = About(n, n.rev, c.quit)
  OBVIOUS
<1>3. PICK t : t = [Saved(s, n) EXCEPT !.told = @ \cup Announced(Creator, s.group, r)]
  OBVIOUS
<1>25. Decision(s, r, c, n, e, t)
  BY <1>1, <1>2, <1>3 DEF Decision
<1>4. PICK v : v = Then(Done(t), Completed(t))
  OBVIOUS
<1>5. PICK x : x = Then(v, Transferred(v.done))
  OBVIOUS
<1>6. PICK f : f = Cleared(n)
  OBVIOUS
<1>7. PICK u : u = Synced(Creator, x.done, f, None)
  OBVIOUS
<1>8. w = Then(x, Done(u))
  BY <1>1, <1>3, <1>4, <1>5, <1>6, <1>7 DEF Applied
<1>9. /\ Onto(c, e) /\ e.quit = c.quit /\ Onward(s, t, Creator, e) /\ t.group # NoGroup
      /\ Announces(t, e, ans)
      /\ GroupTells(n, Founder, e) /\ n.rev = e.since /\ c.rev < n.rev
  BY <1>25, DecidedTells
<1>10. StateTells(t, Creator, e) /\ s.group.rev \in Nat /\ t.group.rev \in Nat
  BY <1>9, RevKnown, PresentRuling DEF Onward, Ruling
<1>11. AllOnward(Done(t), s, Creator, e) /\ AllOnward(Done(t), t, Creator, e) /\ Done(t).done = t
  BY <1>9, <1>10, OnwardSelf, DoneOnward
<1>12. AllOnward(Completed(t), t, Creator, e) /\ Completed(t).done.group # NoGroup
  BY <1>9, <1>10, CompletedOnward
<1>13. /\ AllOnward(v, s, Creator, e) /\ AllOnward(v, t, Creator, e)
       /\ v.done.group # NoGroup
  BY <1>4, <1>10, <1>11, <1>12, ThenOnward
<1>14. StateTells(v.done, Creator, e)
  BY <1>13 DEF AllOnward, Onward
<1>15. PICK y : y = Transferred(v.done)
  OBVIOUS
<1>16. AllOnward(y, v.done, Creator, e) /\ y.done.group # NoGroup
  BY <1>13, <1>14, <1>15, TransferredOnward
<1>17. /\ AllOnward(x, s, Creator, e) /\ AllOnward(x, t, Creator, e)
       /\ x.done.group # NoGroup
  BY <1>5, <1>10, <1>13, <1>15, <1>16, ThenOnward
<1>18. StateTells(x.done, Creator, e)
  BY <1>17 DEF AllOnward, Onward
<1>19. GroupTells(f, Founder, e) /\ f.rev = e.since
  BY <1>6, <1>9, ClearedTells
<1>20. /\ Onward(x.done, u, Creator, e) /\ u.group = x.done.group
       /\ u.outbox = x.done.outbox \cup Linked(Creator, f, None)
  BY <1>7, <1>18, <1>19, SyncedOnward DEF Founder
<1>21. AllOnward(Done(u), x.done, Creator, e) /\ Done(u).done = u
  BY <1>20, DoneOnward
<1>22. /\ AllOnward(w, s, Creator, e) /\ AllOnward(w, t, Creator, e) /\ w.done = u
  BY <1>8, <1>10, <1>17, <1>21, ThenOnward
<1>23. \A z \in w.stops \cup {w.done} : Announces(z, e, ans)
  BY <1>9, <1>22, CreatorAdvances, AdvancesAnnounces DEF AllOnward
<1>24. Copies(u, e)
  <2>1. SUFFICES ASSUME NEW z \in Device, AccountOf[z] = Founder, z # Creator
                 PROVE  \E p \in u.outbox : p.kind = "sync" /\ p.to = z
                                            /\ p.body.sync.rev >= e.since
    BY DEF Copies
  <2>2. PICK p : p = [from |-> Creator, to |-> z, kind |-> "sync",
                      body |-> [sync |-> f, text |-> None]]
    OBVIOUS
  <2>3. p \in Linked(Creator, f, None)
    BY <2>1, <2>2 DEF Linked, Seal, DevicesOf, Founder
  <2>4. p.kind = "sync" /\ p.to = z /\ p.body.sync.rev = e.since /\ e.since \in Nat
    BY <1>9, <1>19, <2>2 DEF Onto
  <2> QED BY <1>20, <2>3, <2>4
<1> QED BY <1>9, <1>17, <1>20, <1>22, <1>23, <1>24 DEF Turns

\* A command that only goes on turns nothing.
LEMMA OnwardTurns ==
  ASSUME NEW w, NEW s, NEW d, NEW c, AllOnward(w, s, d, c), NEW ans,
         c.rev \in Nat, c.since \in Nat, c.since <= c.rev
  PROVE  Turns(w, s, d, c, c, ans)
BY OntoSelf DEF Turns

(***************************************************************************)
(* The end of a pass.                                                      *)
(***************************************************************************)

LEMMA WorkedTurns ==
  ASSUME NEW s, NEW d, NEW c, StateTells(s, d, c), s.group # NoGroup, Counts(c),
         NEW ans, Dealt(ans, c), NEW w, w = Worked(d, s)
  PROVE  /\ \E e : Turns(w, s, d, c, e, ans) /\ (d = Creator \/ e = c)
         /\ w.done.group # NoGroup
<1>1. PICK g : g = s.group
  OBVIOUS
<1>2. PICK r : r = Head(g.requests)
  OBVIOUS
<1>3. CASE ~IsCoordinator(d, g) \/ g.requests = <<>> \/ r.id \in g.processed
  <2>1. w = Done(s)
    BY <1>1, <1>2, <1>3 DEF Worked
  <2>2. AllOnward(w, s, d, c) /\ w.done = s
    BY <2>1, OnwardSelf, DoneOnward
  <2> QED BY <2>2, OnwardTurns DEF Counts
<1>4. CASE /\ IsCoordinator(d, g) /\ g.requests # <<>> /\ r.id \notin g.processed
           /\ CanApply(d, g, r)
  <2>1. w = Applied(d, s, r)
    BY <1>1, <1>2, <1>4 DEF Worked
  <2>2. d = Creator /\ ~s.group.closed
    BY <1>1, <1>4 DEF IsCoordinator, StateTells, GroupTells, Dated, CanApply, Authorized, MayWrite
  <2>3. \E e : Turns(w, s, Creator, c, e, ans) /\ w.done.group # NoGroup
    BY <2>1, <2>2, AppliedTurns DEF Counts
  <2> QED BY <2>2, <2>3
<1>5. CASE /\ IsCoordinator(d, g) /\ g.requests # <<>> /\ r.id \notin g.processed
           /\ ~CanApply(d, g, r)
  <2>1. PICK to : to = DevicesOf({r.actor} \cap g.members)
    OBVIOUS
  <2>2. PICK P : P = Seal(d, to, "rejected", [event |-> r.id])
    OBVIOUS
  <2>3. PICK Q : Q = Without(g.requests, r.id)
    OBVIOUS
  <2>4. PICK n : n = [g EXCEPT !.requests = Q, !.outbound = @ \cup P]
    OBVIOUS
  <2>5. PICK t : t = Saved(s, n)
    OBVIOUS
  <2>6. w = Done(t)
    BY <1>1, <1>2, <1>5, <2>1, <2>2, <2>3, <2>4, <2>5 DEF Worked
  <2>7. Mirrors(g, n) /\ n.outbound = g.outbound \cup P /\ n.effect = g.effect
    BY <1>1, <2>4 DEF StateTells, GroupTells, Dated, Mirrors, IsGroup, GroupFields
  <2>8. \A p \in P : Conveys(p, c) /\ p.kind # "sync"
    BY <2>2, SealFields DEF Conveys
  <2>9. Onward(s, t, d, c) /\ t.group # NoGroup
    BY <1>1, <2>5, <2>7, <2>8, MirrorSaved
  <2>10. AllOnward(w, s, d, c) /\ w.done = t
    BY <2>6, <2>9, DoneOnward
  <2> QED BY <2>9, <2>10, OnwardTurns DEF Counts
<1> QED BY <1>3, <1>4, <1>5

\* A state of a command: it goes on under the chronicle c, or under one that turned it;
\* if it is the last, the linked devices have their copies.
Turned(t, s, d, c, e, ans, last) ==
  /\ Onto(c, e) /\ e.quit = c.quit /\ Onward(s, t, d, e) /\ (d = Creator \/ e = c)
  /\ e.since = c.since \/ (Announces(t, e, ans) /\ (last => Copies(t, e)))

Heeds(t, s, d, c, ans, last) == \E e : Turned(t, s, d, c, e, ans, last)

AllHeed(w, s, d, c, ans) ==
  /\ \A t \in w.stops : Heeds(t, s, d, c, ans, FALSE)
  /\ Heeds(w.done, s, d, c, ans, TRUE)

LEMMA OnwardHeeds ==
  ASSUME NEW s, NEW t, NEW d, NEW c, Onward(s, t, d, c), Counts(c), NEW ans
  PROVE  Heeds(t, s, d, c, ans, TRUE) /\ Heeds(t, s, d, c, ans, FALSE)
BY OntoSelf DEF Heeds, Turned, Counts

LEMMA TurnsHeed ==
  ASSUME NEW w, NEW s, NEW d, NEW c, NEW e, NEW ans, Turns(w, s, d, c, e, ans), d = Creator \/ e = c
  PROVE  AllHeed(w, s, d, c, ans)
<1>1. /\ Onto(c, e) /\ e.quit = c.quit /\ AllOnward(w, s, d, e)
      /\ \/ e.since = c.since
         \/ (\A t \in w.stops \cup {w.done} : Announces(t, e, ans)) /\ Copies(w.done, e)
  BY DEF Turns
<1>2. \A t \in w.stops : Heeds(t, s, d, c, ans, FALSE)
  BY <1>1 DEF Heeds, Turned, AllOnward
<1>3. Heeds(w.done, s, d, c, ans, TRUE)
  BY <1>1 DEF Heeds, Turned, AllOnward
<1> QED BY <1>2, <1>3 DEF AllHeed

LEMMA ThenAssociative ==
  ASSUME NEW u, NEW v, NEW w
  PROVE  Then(Then(u, v), w) = Then(u, Then(v, w))
<1>1. PICK x : x = Then(u, v)
  OBVIOUS
<1>2. PICK y : y = Then(v, w)
  OBVIOUS
<1>3. /\ x.stops = u.stops \cup {u.done} \cup v.stops /\ x.done = v.done
      /\ y.stops = v.stops \cup {v.done} \cup w.stops /\ y.done = w.done
  BY <1>1, <1>2 DEF Then
<1>4. /\ Then(x, w) = [stops |-> x.stops \cup {x.done} \cup w.stops, done |-> w.done]
      /\ Then(u, y) = [stops |-> u.stops \cup {u.done} \cup y.stops, done |-> y.done]
  BY DEF Then
<1>5. x.stops \cup {x.done} \cup w.stops = u.stops \cup {u.done} \cup y.stops
  BY <1>3
<1> QED BY <1>1, <1>2, <1>3, <1>4, <1>5

\* What turned the chronicle goes on.
LEMMA TurnsThen ==
  ASSUME NEW s, NEW d, NEW c, NEW e, NEW ans, s.group # NoGroup => s.group.rev \in Nat,
         d = Creator \/ e = c, NEW w, Turns(w, s, d, c, e, ans),
         NEW v, AllOnward(v, w.done, d, e)
  PROVE  Turns(Then(w, v), s, d, c, e, ans) /\ Then(w, v).done = v.done
<1>1. PICK x : x = Then(w, v)
  OBVIOUS
<1>2. AllOnward(x, s, d, e) /\ x.done = v.done
  BY <1>1, ThenOnward DEF Turns
<1>3. x.stops = w.stops \cup {w.done} \cup v.stops
  BY <1>1 DEF Then
<1>4. CASE e.since = c.since
  BY <1>1, <1>2, <1>4 DEF Turns
<1>5. CASE (\A t \in w.stops \cup {w.done} : Announces(t, e, ans)) /\ Copies(w.done, e)
  <2>1. CASE d = Creator
    <3>1. \A t \in v.stops \cup {v.done} : Advances(w.done, t)
      BY <2>1, CreatorAdvances DEF AllOnward
    <3>2. \A t \in v.stops \cup {v.done} : Announces(t, e, ans) /\ Copies(t, e)
      BY <1>5, <3>1, AdvancesAnnounces
    <3> QED BY <1>1, <1>2, <1>3, <1>5, <3>2 DEF Turns
  <2>2. CASE e = c
    BY <1>1, <1>2, <2>2 DEF Turns
  <2> QED BY <2>1, <2>2
<1> QED BY <1>4, <1>5 DEF Turns

\* What only goes on may be followed by what turns the chronicle.
LEMMA ThenHeeds ==
  ASSUME NEW s, NEW d, NEW c, NEW ans, s.group # NoGroup => s.group.rev \in Nat, Counts(c),
         NEW v, AllOnward(v, s, d, c), NEW w, AllHeed(w, v.done, d, c, ans)
  PROVE  AllHeed(Then(v, w), s, d, c, ans)
<1>1. PICK x : x = Then(v, w)
  OBVIOUS
<1>2. x.stops = v.stops \cup {v.done} \cup w.stops /\ x.done = w.done
  BY <1>1 DEF Then
<1>3. \A t \in v.stops \cup {v.done} : Heeds(t, s, d, c, ans, FALSE)
  BY OnwardHeeds DEF AllOnward
<1>4. PICK y : y = v.done
  OBVIOUS
<1>5. Onward(s, y, d, c)
  BY <1>4 DEF AllOnward
<1>6. ASSUME NEW t, NEW last, Heeds(t, y, d, c, ans, last)
      PROVE  Heeds(t, s, d, c, ans, last)
  <2>1. PICK e : Turned(t, y, d, c, e, ans, last)
    BY <1>6 DEF Heeds
  <2>2. Onward(s, t, d, e)
    BY <1>5, <2>1, OnwardTransitive DEF Turned
  <2> QED BY <2>1, <2>2 DEF Heeds, Turned
<1> QED BY <1>1, <1>2, <1>3, <1>4, <1>6 DEF AllHeed

LEMMA ProcessedHeeds ==
  ASSUME NEW s, NEW d, NEW c, StateTells(s, d, c), s.group # NoGroup, Counts(c),
         NEW ans, Dealt(ans, c), NEW w, w = Processed(d, s)
  PROVE  AllHeed(w, s, d, c, ans)
<1>1. PICK t : t = Flushed(d, s)
  OBVIOUS
<1>2. PICK b : b = Transferred(t)
  OBVIOUS
<1>3. PICK v : v = Then(Done(t), b)
  OBVIOUS
<1>4. PICK z : z = Worked(d, v.done)
  OBVIOUS
<1>5. PICK q : q = Transferred(z.done)
  OBVIOUS
<1>6. PICK y : y = Then(z, q)
  OBVIOUS
<1>7. PICK o : o = Completed(y.done)
  OBVIOUS
<1>8. PICK x : x = Then(y, o)
  OBVIOUS
<1>9. w = Then(v, x)
  <2>1. Then(v, z).done = z.done
    BY DEF Then
  <2>2. PICK m : m = Then(Then(v, z), q)
    OBVIOUS
  <2>3. m = Then(v, y)
    BY <1>6, <2>2, ThenAssociative
  <2>4. m.done = y.done
    BY <1>6, <2>2 DEF Then
  <2>5. w = Then(m, o)
    BY <1>1, <1>2, <1>3, <1>4, <1>5, <1>7, <2>1, <2>2, <2>4 DEF Processed
  <2> QED BY <1>8, <2>3, <2>5, ThenAssociative
<1>10. s.group.rev \in Nat
  BY RevKnown
<1>11. Onward(s, t, d, c) /\ t.group # NoGroup
  BY <1>1, FlushedOnward
<1>12. StateTells(t, d, c)
  BY <1>11 DEF Onward
<1>13. AllOnward(b, t, d, c) /\ b.done.group # NoGroup
  BY <1>2, <1>11, <1>12, TransferredOnward
<1>14. AllOnward(v, s, d, c) /\ v.done.group # NoGroup
  BY <1>3, <1>10, <1>11, <1>13, DoneOnward, ThenOnward
<1>15. PICK k : k = v.done
  OBVIOUS
<1>16. StateTells(k, d, c) /\ k.group # NoGroup /\ k.group.rev \in Nat
  BY <1>14, <1>15, RevKnown DEF AllOnward, Onward
<1>17. /\ \E e : Turns(z, k, d, c, e, ans) /\ (d = Creator \/ e = c)
       /\ z.done.group # NoGroup
  BY <1>4, <1>15, <1>16, WorkedTurns
<1>18. PICK e : Turns(z, k, d, c, e, ans) /\ (d = Creator \/ e = c)
  BY <1>17
<1>19. StateTells(z.done, d, e)
  BY <1>18 DEF Turns, AllOnward, Onward
<1>20. AllOnward(q, z.done, d, e) /\ q.done.group # NoGroup
  BY <1>5, <1>17, <1>19, TransferredOnward
<1>21. Turns(y, k, d, c, e, ans) /\ y.done = q.done
  BY <1>6, <1>16, <1>18, <1>20, TurnsThen
<1>22. y.done.group # NoGroup /\ StateTells(y.done, d, e)
  BY <1>20, <1>21 DEF Turns, AllOnward, Onward
<1>23. AllOnward(o, y.done, d, e)
  BY <1>7, <1>22, CompletedOnward
<1>24. Turns(x, k, d, c, e, ans)
  BY <1>8, <1>16, <1>18, <1>21, <1>23, TurnsThen
<1>25. AllHeed(x, k, d, c, ans)
  BY <1>18, <1>24, TurnsHeed
<1> QED BY <1>9, <1>10, <1>14, <1>15, <1>25, ThenHeeds

(***************************************************************************)
(* Handling a packet, under a chronicle.                                   *)
(***************************************************************************)

\* A state in which the packet is handled or was left: nobody is told anything new.
Heeded(t, s, d, c) ==
  \E e : /\ Onto(c, e) /\ e.quit = c.quit /\ e.since = c.since
         /\ Onward(s, t, d, e) /\ (d = Creator \/ e = c)

\* Whoever takes part has what everybody was told, once the packet that tells it is handled.
Settles(t, d, p, c) ==
  AccountOf[d] \notin c.quit =>
    /\ /\ p.kind = "snapshot" /\ p.body.snapshot.rev = c.since
       /\ AccountOf[d] \in c.members \ (c.departed \cup {Founder})
       => UpToDate(t.group, c)
    /\ p.kind = "sync" /\ p.body.sync.rev >= c.since => UpToDate(t.group, c)

Handles(w, s, d, p, c) ==
  (\A t \in w.stops \cup {w.done} : Heeded(t, s, d, c)) /\ Settles(w.done, d, p, c)

LEMMA OnwardHandles ==
  ASSUME NEW w, NEW s, NEW d, NEW c, AllOnward(w, s, d, c), Counts(c), NEW p,
         Settles(w.done, d, p, c)
  PROVE  Handles(w, s, d, p, c)
<1>1. ASSUME NEW t \in w.stops \cup {w.done} PROVE Heeded(t, s, d, c)
  BY <1>1, OntoSelf DEF AllOnward, Heeded, Counts
<1> QED BY <1>1 DEF Handles

LEMMA IgnoredOnward ==
  ASSUME NEW s, NEW d, NEW c, StateTells(s, d, c)
  PROVE  AllOnward(Ignored(s), s, d, c) /\ Ignored(s).done = s
BY OnwardSelf, DoneOnward DEF Ignored

\* The creator saves a group under the chronicle that is about it.
LEMMA RulingSaved ==
  ASSUME NEW s, NEW c, StateTells(s, Creator, c), NEW n, Ruling(n), s.group.rev <= n.rev,
         NEW since, since <= n.rev, NEW e, e = About(n, since, c.quit), Onto(c, e),
         \A p \in n.outbound : p \in s.group.outbound,
         Purified(n, s.history, Creator), NEW t, t = Saved(s, n)
  PROVE  Onward(s, t, Creator, e) /\ t.group = n /\ GroupTells(n, Founder, e)
<1>1. /\ IsState(t) /\ t.group = n /\ t.history = s.history /\ t.outbox = s.outbox
      /\ t.told = s.told
  BY DEF StateTells, IsState, StateFields, Saved, Ruling
<1>2. n # NoGroup
  BY SomeGroup DEF Ruling
<1>3. Dated(n, Founder, e) /\ Presents(n, e) /\ e.quit = c.quit
  BY AboutDated
<1>4. GroupTells(s.group, Founder, c)
  BY PresentRuling
<1>5. \A p \in n.outbound : Conveys(p, e) /\ p.kind # "sync"
  BY <1>4, ConveysLater DEF GroupTells
<1>6. GroupTells(n, Founder, e)
  BY <1>3, <1>5 DEF GroupTells
<1>7. \A p \in s.outbox : PacketTells(p, e)
  BY PacketLater DEF StateTells
<1>8. StateTells(t, Creator, e)
  BY <1>1, <1>2, <1>3, <1>6, <1>7 DEF StateTells, Founder
<1>9. Advances(s, t)
  BY <1>1, <1>2 DEF Advances
<1> QED BY <1>1, <1>6, <1>8, <1>9 DEF Onward

\* Someone has left: his role and his membership go.
LEMMA DepartureHandles ==
  ASSUME NEW s, NEW d \in Device, NEW c, StateTells(s, d, c), s.group # NoGroup, Counts(c),
         NEW p, Arrives(p, d, FALSE), p.kind = "departure"
  PROVE  Handles(OnDeparture(d, s, p), s, d, p, c)
<1>1. PICK g : g = s.group
  OBVIOUS
<1>2. PICK from : from = Sender(p)
  OBVIOUS
<1>20. PICK roles : roles = [g.roles EXCEPT ![from] = None]
  OBVIOUS
<1>3. PICK gone : gone = [g EXCEPT !.members = @ \ {from}, !.roles = roles,
                                   !.departed = @ \cup {from}]
  OBVIOUS
<1>4. PICK new : new = [gone EXCEPT !.rev = IF IsCoordinator(d, g) THEN @ + 1 ELSE @]
  OBVIOUS
<1>5. PICK t : t = Saved(s, new)
  OBVIOUS
<1>6. PICK f : f = Cleared(new)
  OBVIOUS
<1>7. PICK u : u = Synced(d, t, f, None)
  OBVIOUS
<1>8. PICK w : w = OnDeparture(d, s, p)
  OBVIOUS
<1>9. GroupTells(g, AccountOf[d], c) /\ g # NoGroup /\ Purified(g, s.history, d)
  BY <1>1 DEF StateTells
<1>10. g.owner = Founder /\ from # Founder
  BY <1>2, <1>9 DEF GroupTells, Dated, Arrives, PacketSound, Carried, Sender
<1>11. w = Ignored(s) \/ w = Then(Done(t), Done(u))
  BY <1>1, <1>2, <1>20, <1>3, <1>4, <1>5, <1>6, <1>7, <1>8, <1>10 DEF OnDeparture
<1>12. /\ IsGroup(gone) /\ gone.gen = g.gen /\ gone.rev = g.rev /\ gone.owner = g.owner
       /\ gone.coord = g.coord /\ gone.info = g.info /\ gone.deleted = g.deleted
       /\ gone.closed = g.closed /\ gone.removed = g.removed /\ gone.left = g.left
       /\ gone.effect = g.effect /\ gone.outbound = g.outbound
       /\ gone.members = g.members \ {from} /\ gone.departed = g.departed \cup {from}
       /\ gone.roles = roles
  <2>1. IsGroup(g)
    BY <1>9 DEF GroupTells, Dated
  <2> QED BY <1>3, <2>1 DEF IsGroup, GroupFields
<1>13. /\ IsGroup(new) /\ new.gen = g.gen /\ new.owner = g.owner
       /\ new.coord = g.coord /\ new.info = g.info /\ new.deleted = g.deleted
       /\ new.closed = g.closed /\ new.removed = g.removed /\ new.left = g.left
       /\ new.effect = g.effect /\ new.outbound = g.outbound
       /\ new.members = g.members \ {from} /\ new.departed = g.departed \cup {from}
       /\ new.roles = roles
       /\ new.rev = IF IsCoordinator(d, g) THEN g.rev + 1 ELSE g.rev
  BY <1>4, <1>12 DEF IsGroup, GroupFields
<1>14. /\ new.roles = [x \in Account |-> new.roles[x]]
       /\ \A x \in Account : x # from => new.roles[x] = g.roles[x]
  BY <1>9, <1>13, <1>20 DEF GroupTells, Dated
<1>15. Purified(new, s.history, d)
  BY <1>9, <1>13 DEF Purified
<1>16. Settles(w.done, d, p, c)
  BY DEF Settles
<1>17. CASE w = Ignored(s)
  BY <1>8, <1>16, <1>17, IgnoredOnward, OnwardHandles
<1>18. CASE d # Creator /\ w = Then(Done(t), Done(u))
  <2>1. new.rev = g.rev /\ g.rev \in Nat
    BY <1>9, <1>13, <1>18 DEF IsCoordinator, GroupTells, Dated
  <2>2. Says(g, AccountOf[d], c) => Says(new, AccountOf[d], c)
    BY <1>13, <1>14 DEF Says
  <2>3. Dated(new, AccountOf[d], c)
    BY <1>9, <1>13, <1>14, <2>1, <2>2 DEF GroupTells, Dated
  <2>4. GroupTells(new, AccountOf[d], c)
    BY <1>9, <1>13, <2>3 DEF GroupTells
  <2>5. Onward(s, t, d, c) /\ t.group = new /\ t.group # NoGroup
    BY <1>1, <1>5, <1>15, <1>18, <2>1, <2>4, SavedOnward
  <2>6. GroupTells(f, AccountOf[d], c) /\ StateTells(t, d, c)
    BY <1>6, <2>4, <2>5, ClearedTells DEF Onward
  <2>7. Onward(t, u, d, c)
    BY <1>7, <2>6, SyncedOnward
  <2>8. AllOnward(w, s, d, c)
    BY <1>1, <1>18, <2>1, <2>5, <2>7, DoneOnward, ThenOnward
  <2> QED BY <1>8, <1>16, <2>8, OnwardHandles
<1>19. CASE d = Creator /\ w = Then(Done(t), Done(u))
  <2>1. PICK e : e = About(new, c.since, c.quit)
    OBVIOUS
  <2>2. Ruling(g) /\ Presents(g, c)
    BY <1>1, <1>19, PresentRuling
  <2>3. new.rev = g.rev + 1
    BY <1>13, <1>19, <2>2 DEF IsCoordinator, Ruling, Founder
  <2>4. Ruling(new) /\ c.since <= new.rev /\ g.rev <= new.rev /\ c.rev <= new.rev
    BY <1>13, <1>14, <2>2, <2>3 DEF Ruling, Presents, Counts
  <2>5. Presents(new, e) /\ e.since = c.since /\ e.quit = c.quit
    BY <2>1, <2>4, AboutDated
  <2>6. Onto(c, e)
    BY <1>10, <1>13, <1>14, <2>2, <2>4, <2>5 DEF Onto, Presents, Counts, Ruling
  <2>7. Onward(s, t, Creator, e) /\ t.group = new /\ GroupTells(new, Founder, e)
    BY <1>1, <1>5, <1>13, <1>15, <1>19, <2>1, <2>4, <2>6, RulingSaved
  <2>8. GroupTells(f, Founder, e) /\ StateTells(t, Creator, e)
    BY <1>6, <2>7, ClearedTells DEF Onward
  <2>9. Onward(t, u, Creator, e)
    BY <1>7, <1>19, <2>8, SyncedOnward DEF Founder
  <2>10. AllOnward(w, s, Creator, e)
    BY <1>1, <1>19, <2>2, <2>7, <2>9, DoneOnward, ThenOnward DEF Ruling
  <2>11. \A x \in w.stops \cup {w.done} : Heeded(x, s, d, c)
    BY <1>19, <2>5, <2>6, <2>10 DEF Heeded, AllOnward
  <2> QED BY <1>8, <1>16, <2>11 DEF Handles
<1> QED BY <1>11, <1>17, <1>18, <1>19

LEMMA SnapshotHandles ==
  ASSUME NEW s, NEW d \in Device, NEW c, StateTells(s, d, c), Counts(c),
         NEW p, Arrives(p, d, FALSE), PacketTells(p, c), p.kind = "snapshot"
  PROVE  Handles(OnSnapshot(d, s, p), s, d, p, c)
<1>1. PICK g : g = s.group
  OBVIOUS
<1>2. PICK got : got = p.body.snapshot
  OBVIOUS
<1>3. PICK a : a = AccountOf[d]
  OBVIOUS
<1>4. PICK base : base = [got EXCEPT !.removed = a \notin got.members,
                                     !.members = @ \ {a}, !.effect = TRUE]
  OBVIOUS
<1>5. PICK gone : gone = g.departed \cap base.members
  OBVIOUS
<1>6. PICK Q : Q = SelectSeq(g.requests, LAMBDA q :
                               q.id # p.body.event /\ ~AlreadyApplied(base, q))
  OBVIOUS
<1>7. PICK new : new = [base EXCEPT !.departed = gone, !.members = @ \ gone, !.requests = Q,
                                    !.outbound = g.outbound, !.shared = g.shared]
  OBVIOUS
<1>8. PICK w : w = OnSnapshot(d, s, p)
  OBVIOUS
<1>9. Whole(got, c) /\ Founder \in got.members /\ p.from = Creator
  BY <1>2 DEF PacketTells, Conveys
<1>10. d # Creator /\ Sender(p) = Founder
  BY <1>9 DEF Arrives, PacketSound, Carried, Sender, Founder
<1>11. ~got.removed /\ got.departed = {} /\ got.rev \in Nat /\ Dated(got, Founder, c)
  BY <1>9 DEF Whole, Dated
<1>12. /\ IsGroup(base) /\ base.gen = got.gen /\ base.rev = got.rev /\ base.owner = got.owner
       /\ base.coord = got.coord /\ base.info = got.info /\ base.deleted = got.deleted
       /\ base.closed = got.closed /\ base.roles = got.roles /\ base.departed = {}
       /\ base.left = FALSE /\ base.outbound = {} /\ base.effect = TRUE
       /\ (base.removed <=> a \notin got.members) /\ base.members = got.members \ {a}
  BY <1>4, <1>9, <1>11 DEF Whole, Dated, IsGroup, GroupFields
<1>13. Says(got, Founder, c) => Says(base, a, c)
  BY <1>9, <1>11, <1>12 DEF Says
<1>14. Dated(base, a, c)
  BY <1>9, <1>11, <1>12, <1>13 DEF Dated
<1>15. \A n, H : n.effect = TRUE => Purified(n, H, d)
  BY DEF Purified
<1>16. p.body.snapshot.rev = c.since /\ a \in c.members \ (c.departed \cup {Founder})
         => a \in got.members
  <2>1. SUFFICES ASSUME got.rev = c.since, a \in c.members \ (c.departed \cup {Founder})
                 PROVE  a \in got.members
    BY <1>2
  <2>2. Says(got, Founder, c) /\ a \in Account
    BY <1>3, <1>11, <2>1, GroupAssumption DEF Dated
  <2> QED BY <1>11, <2>1, <2>2 DEF Says
<1>17. CASE g = NoGroup
  <2>1. w = IF a \in got.members THEN Adopted(s, base) ELSE Ignored(s)
    BY <1>1, <1>2, <1>3, <1>4, <1>8, <1>17 DEF OnSnapshot
  <2>2. GroupTells(base, a, c)
    BY <1>12, <1>14 DEF GroupTells
  <2>6. s.group = NoGroup
    BY <1>1, <1>17
  <2>7. Purified(base, s.history, d)
    BY <1>12, <1>15
  <2>8. PICK t : t = Saved(s, base)
    OBVIOUS
  <2>3. Onward(s, t, d, c) /\ t.group = base /\ t.group # NoGroup
    BY <1>3, <1>10, <2>2, <2>6, <2>7, <2>8, SavedOnward
  <2>4. CASE w = Ignored(s) /\ a \notin got.members
    <3>1. Settles(w.done, d, p, c)
      BY <1>3, <1>16, <2>4 DEF Settles
    <3> QED BY <1>8, <2>4, <3>1, IgnoredOnward, OnwardHandles
  <2>5. CASE w = Adopted(s, base)
    <3>1. AllOnward(w, s, d, c) /\ w.done.group # NoGroup /\ w.done.group.rev = base.rev
      BY <2>3, <2>5, <2>6, <2>8, AdoptedOnward
    <3>2. Settles(w.done, d, p, c)
      BY <1>2, <1>12, <3>1 DEF Settles, UpToDate, Counts
    <3> QED BY <1>8, <3>1, <3>2, OnwardHandles
  <2> QED BY <2>1, <2>4, <2>5
<1>18. CASE g # NoGroup
  <2>1. GroupTells(g, a, c) /\ g.rev \in Nat
    BY <1>1, <1>3, <1>18 DEF StateTells, GroupTells, Dated
  <2>2. g.owner = Sender(p) /\ g.coord = p.from
    BY <1>9, <1>10, <2>1 DEF GroupTells, Dated
  <2>3. w = IF g.left \/ got.rev <= g.rev \/ g.closed THEN Ignored(s) ELSE Adopted(s, new)
    BY <1>1, <1>2, <1>3, <1>4, <1>5, <1>6, <1>7, <1>8, <1>18, <2>2 DEF OnSnapshot
  <2>4. CASE (g.left \/ got.rev <= g.rev \/ g.closed) /\ w = Ignored(s)
    <3>1. p.body.snapshot.rev = c.since => UpToDate(g, c) \/ a \in c.quit
      BY <1>2, <1>18, <2>1, <2>4 DEF UpToDate, GroupTells, Dated, Counts
    <3>2. AllOnward(w, s, d, c) /\ w.done = s
      BY <2>4, IgnoredOnward
    <3>3. Settles(w.done, d, p, c)
      BY <1>1, <1>3, <3>1, <3>2 DEF Settles
    <3> QED BY <1>8, <3>2, <3>3, OnwardHandles
  <2>5. CASE g.rev < got.rev /\ w = Adopted(s, new)
    <3>1. /\ IsGroup(new) /\ new.gen = base.gen /\ new.rev = base.rev /\ new.owner = base.owner
          /\ new.coord = base.coord /\ new.info = base.info /\ new.deleted = base.deleted
          /\ new.closed = base.closed /\ new.roles = base.roles /\ new.departed = gone
          /\ new.left = FALSE /\ new.outbound = g.outbound /\ new.effect = TRUE
          /\ new.removed = base.removed /\ new.members = base.members \ gone
      BY <1>7, <1>12 DEF IsGroup, GroupFields
    <3>2. Says(base, a, c) => Says(new, a, c)
      BY <1>12, <3>1 DEF Says
    <3>3. Dated(new, a, c)
      BY <1>14, <3>1, <3>2 DEF Dated
    <3>4. GroupTells(new, a, c)
      BY <2>1, <3>1, <3>3 DEF GroupTells
    <3>5. s.group.rev <= new.rev
      BY <1>1, <1>11, <1>12, <2>1, <2>5, <3>1
    <3>6. /\ Onward(s, Saved(s, new), d, c) /\ Saved(s, new).group = new
          /\ new # NoGroup
      BY <1>3, <1>10, <1>15, <3>1, <3>4, <3>5, SavedOnward
    <3>7. AllOnward(w, s, d, c) /\ w.done.group # NoGroup /\ w.done.group.rev = new.rev
      BY <1>1, <2>1, <2>5, <3>6, AdoptedOnward
    <3>8. Settles(w.done, d, p, c)
      BY <1>2, <1>12, <3>1, <3>7 DEF Settles, UpToDate, Counts
    <3> QED BY <1>8, <3>7, <3>8, OnwardHandles
  <2> QED BY <1>11, <2>1, <2>3, <2>4, <2>5
<1> QED BY <1>17, <1>18

\* A group in which only the queue, or what a link shows, changes.
LEMMA QueuedOnward ==
  ASSUME NEW s, NEW d, NEW c, StateTells(s, d, c), s.group # NoGroup, NEW r
  PROVE  AllOnward(Queued(s, r), s, d, c)
<1>1. PICK g : g = s.group
  OBVIOUS
<1>2. PICK n : n = [g EXCEPT !.requests = Append(@, r)]
  OBVIOUS
<1>3. PICK t : t = Saved(s, n)
  OBVIOUS
<1>4. Queued(s, r) = Done(t)
  BY <1>1, <1>2, <1>3 DEF Queued
<1>5. Mirrors(g, n) /\ n.outbound = g.outbound /\ n.effect = g.effect
  BY <1>1, <1>2 DEF StateTells, GroupTells, Dated, Mirrors, IsGroup, GroupFields
<1>6. Onward(s, t, d, c)
  BY <1>1, <1>3, <1>5, MirrorSaved
<1> QED BY <1>4, <1>6, DoneOnward

LEMMA RequestOnward ==
  ASSUME NEW s, NEW d, NEW c, StateTells(s, d, c), s.group # NoGroup, NEW p
  PROVE  AllOnward(OnRequest(d, s, p), s, d, c)
<1>1. \/ OnRequest(d, s, p) = Ignored(s)
      \/ OnRequest(d, s, p) = Queued(s, p.body.request)
  BY DEF OnRequest
<1> QED BY <1>1, IgnoredOnward, QueuedOnward

LEMMA JoinOnward ==
  ASSUME NEW s, NEW d, NEW c, StateTells(s, d, c), s.group # NoGroup, NEW p, NEW expired
  PROVE  AllOnward(OnJoin(d, s, p, expired), s, d, c)
<1>1. PICK r : r = [id |-> p.body.id, actor |-> s.group.owner, kind |-> "add",
                    who |-> Sender(p), rights |-> {}]
  OBVIOUS
<1>2. OnJoin(d, s, p, expired) \in {Ignored(s), Queued(s, r)}
  BY <1>1 DEF OnJoin
<1> QED BY <1>2, IgnoredOnward, QueuedOnward

LEMMA InviteOnward ==
  ASSUME NEW s, NEW d, NEW c, StateTells(s, d, c), s.group # NoGroup, NEW p
  PROVE  AllOnward(OnInvite(s, p), s, d, c)
<1>1. PICK g : g = s.group
  OBVIOUS
<1>2. PICK n : n = [g EXCEPT !.shared = p.body.generation]
  OBVIOUS
<1>3. PICK t : t = Saved(s, n)
  OBVIOUS
<1>4. OnInvite(s, p) \in {Ignored(s), Done(t)}
  BY <1>1, <1>2, <1>3 DEF OnInvite
<1>5. Mirrors(g, n) /\ n.outbound = g.outbound /\ n.effect = g.effect
  BY <1>1, <1>2 DEF StateTells, GroupTells, Dated, Mirrors, IsGroup, GroupFields
<1>6. Onward(s, t, d, c)
  BY <1>1, <1>3, <1>5, MirrorSaved
<1> QED BY <1>4, <1>6, DoneOnward, IgnoredOnward

LEMMA RejectedOnward ==
  ASSUME NEW s, NEW d, NEW c, StateTells(s, d, c), s.group # NoGroup, NEW p
  PROVE  AllOnward(OnRejected(s, p), s, d, c)
<1>1. PICK g : g = s.group
  OBVIOUS
<1>2. PICK n : n = [g EXCEPT !.effect = TRUE, !.requests = Without(@, p.body.event)]
  OBVIOUS
<1>3. OnRejected(s, p) \in {Ignored(s), Adopted(s, n)}
  BY <1>1, <1>2 DEF OnRejected
<1>4. Mirrors(g, n) /\ n.outbound = g.outbound /\ n.effect = TRUE
  BY <1>1, <1>2 DEF StateTells, GroupTells, Dated, Mirrors, IsGroup, GroupFields
<1>5. PICK t : t = Saved(s, n)
  OBVIOUS
<1>6. Onward(s, t, d, c) /\ t.group = n /\ n # NoGroup
  BY <1>1, <1>4, <1>5, MirrorSaved
<1>7. AllOnward(Adopted(s, n), s, d, c)
  BY <1>5, <1>6, RevKnown, AdoptedOnward
<1> QED BY <1>3, <1>7, IgnoredOnward

LEMMA InvitationOnward ==
  ASSUME NEW s, NEW d \in Device, NEW c, StateTells(s, d, c), NEW p, p.to = d,
         PacketTells(p, c), p.kind = "invitation"
  PROVE  AllOnward(OnInvitation(d, s, p), s, d, c)
<1>1. PICK got : got = p.body.invitation
  OBVIOUS
<1>2. PICK a : a = AccountOf[d]
  OBVIOUS
<1>3. PICK n : n = [got EXCEPT !.members = (@ \ {a}) \cup {Sender(p)}]
  OBVIOUS
<1>4. PICK t : t = Saved(s, n)
  OBVIOUS
<1>5. \/ OnInvitation(d, s, p) = Ignored(s)
      \/ OnInvitation(d, s, p) = Done(t) /\ s.group = NoGroup
  BY <1>1, <1>2, <1>3, <1>4 DEF OnInvitation
<1>6. /\ Whole(got, c) /\ got.deleted = {} /\ Sender(p) = Founder
      /\ a \in got.members \cup {Founder}
  BY <1>1, <1>2 DEF PacketTells, Conveys, Sender
<1>7. /\ n.outbound = {}
      /\ IsGroup(n) /\ n.gen = got.gen /\ n.rev = got.rev /\ n.owner = got.owner
      /\ n.coord = got.coord /\ n.info = got.info /\ n.deleted = got.deleted
      /\ n.closed = got.closed /\ n.roles = got.roles /\ n.departed = got.departed
      /\ n.left = FALSE /\ n.outbound = {} /\ n.removed = got.removed
      /\ n.members = (got.members \ {a}) \cup {Founder}
  BY <1>3, <1>6 DEF Whole, Dated, Mirrors, IsGroup, GroupFields
<1>8. Says(got, Founder, c) => Says(n, a, c)
  BY <1>6, <1>7 DEF Says
<1>9. Dated(n, a, c)
  BY <1>6, <1>7, <1>8 DEF Whole, Dated
<1>10. GroupTells(n, a, c) /\ Purified(n, s.history, d)
  BY <1>6, <1>7, <1>9 DEF GroupTells, Purified
<1>11. CASE OnInvitation(d, s, p) = Done(t) /\ s.group = NoGroup
  <2>1. d # Creator
    BY <1>11 DEF StateTells
  <2>2. Onward(s, t, d, c)
    BY <1>2, <1>4, <1>10, <1>11, <2>1, SavedOnward
  <2> QED BY <1>11, <2>2, DoneOnward
<1> QED BY <1>5, <1>11, IgnoredOnward

LEMMA TextOnward ==
  ASSUME NEW s, NEW d, NEW c, StateTells(s, d, c), s.group # NoGroup, NEW p
  PROVE  AllOnward(OnText(d, s, p), s, d, c)
<1>1. PICK m : m = p.body.text
  OBVIOUS
<1>2. PICK t : t = [s EXCEPT !.history = @ \cup {m}]
  OBVIOUS
<1>3. PICK u : u = Synced(d, t, s.group, m)
  OBVIOUS
<1>4. \/ OnText(d, s, p) = Ignored(s)
      \/ OnText(d, s, p) = Then(Done(t), Done(u)) /\ m \notin s.group.deleted
  BY <1>1, <1>2, <1>3 DEF OnText
<1>5. CASE OnText(d, s, p) = Then(Done(t), Done(u)) /\ m \notin s.group.deleted
  <2>1. GroupTells(s.group, AccountOf[d], c) /\ s.group.rev \in Nat
    BY DEF StateTells, GroupTells, Dated
  <2>2. Purified(s.group, s.history \cup {m}, d)
    BY <1>5 DEF StateTells, Purified
  <2>3. Onward(s, t, d, c) /\ t.group = s.group
    BY <1>2, <2>2, HistoryOnward
  <2>4. Onward(t, u, d, c)
    BY <1>3, <2>1, <2>3, SyncedOnward DEF Onward
  <2> QED BY <1>5, <2>1, <2>3, <2>4, DoneOnward, ThenOnward
<1> QED BY <1>4, <1>5, IgnoredOnward

\* A copy of a linked device, merged into a group that says the same.
LEMMA PreservedTells ==
  ASSUME NEW g, NEW got, NEW a, NEW c, GroupTells(g, a, c), GroupTells(got, a, c),
         Founder \notin c.quit, NEW n, n = Preserved(g, got)
  PROVE  /\ GroupTells(n, a, c) /\ n.rev = got.rev
         /\ n.members = got.members \ n.departed /\ n.departed = g.departed \cup got.departed
         /\ n.outbound \subseteq g.outbound
         /\ g.left => n.left
<1>1. IsGroup(g) /\ IsGroup(got)
  BY DEF GroupTells, Dated
<1>2. /\ IsGroup(n) /\ n.gen = got.gen /\ n.rev = got.rev /\ n.owner = got.owner
      /\ n.coord = got.coord /\ n.info = got.info /\ n.deleted = got.deleted
      /\ n.closed = got.closed /\ n.roles = got.roles
      /\ n.left <=> g.left \/ got.left
      /\ n.removed <=> got.removed \/ g.left \/ got.left
      /\ n.departed = g.departed \cup got.departed
      /\ n.members = got.members \ n.departed
      /\ n.outbound \subseteq g.outbound
  BY <1>1 DEF IsGroup, GroupFields, Preserved
<1>3. Says(got, a, c) => Says(n, a, c)
  BY <1>2 DEF Says
<1>4. Dated(n, a, c)
  BY <1>2, <1>3 DEF GroupTells, Dated
<1> QED BY <1>2, <1>4 DEF GroupTells

\* The merged group, of which the creator's is the newest and is never left.
LEMMA MergedTells ==
  ASSUME NEW g, NEW got, NEW a, NEW c, g # NoGroup => GroupTells(g, a, c), GroupTells(got, a, c),
         Founder \notin c.quit, Counts(c), NEW n, n = Merged(g, got)
  PROVE  /\ GroupTells(n, a, c)
         /\ a \in c.quit \/ (g # NoGroup => g.rev <= n.rev)
         /\ a \in c.quit \/ got.rev < c.since \/ n.rev >= c.since
         /\ n = g \/ g = NoGroup \/ n = Preserved(g, got)
<1>1. CASE g = NoGroup
  BY <1>1 DEF Merged, GroupTells, Dated, Counts
<1>2. CASE g # NoGroup
  <2>1. PICK m : m = Preserved(g, got)
    OBVIOUS
  <2>2. GroupTells(m, a, c) /\ m.rev = got.rev /\ (g.left => m.left)
    BY <1>2, <2>1, PreservedTells
  <2>3. /\ g.rev \in Nat /\ m.rev \in Nat /\ (m.left => a \in c.quit)
        /\ g.closed => g.rev >= c.since
    BY <1>2, <2>2 DEF GroupTells, Dated
  <2>4. n = IF (m.left /\ ~g.left) \/ (m.rev >= g.rev /\ ~g.closed) THEN m ELSE g
    BY <1>2, <2>1 DEF Merged
  <2>5. CASE n = m /\ (m.left \/ m.rev >= g.rev)
    BY <1>2, <2>1, <2>2, <2>3, <2>5 DEF Counts
  <2>6. CASE n = g /\ (~(m.rev >= g.rev) \/ g.closed)
    BY <1>2, <2>2, <2>3, <2>6 DEF Counts
  <2> QED BY <2>4, <2>5, <2>6
<1> QED BY <1>1, <1>2

\* A copy may be newer than the creator's own group in what it knows of departures.
LEMMA CreatorMerges ==
  ASSUME NEW s, NEW c, StateTells(s, Creator, c), Counts(c), NEW got, GroupTells(got, Founder, c),
         ~Alone(Creator), NEW n, n = Preserved(s.group, got), s.group.rev <= n.rev,
         NEW t, t = Saved(s, n)
  PROVE  \E e : /\ Onto(c, e) /\ e.quit = c.quit /\ e.since = c.since
                /\ Onward(s, t, Creator, e) /\ t.group = n
<1>1. PICK g : g = s.group
  OBVIOUS
<1>2. PICK e : e = About(n, c.since, c.quit)
  OBVIOUS
<1>3. Ruling(g) /\ Presents(g, c) /\ GroupTells(g, Founder, c) /\ Founder \notin c.quit
  BY <1>1, PresentRuling DEF StateTells
<1>4. /\ GroupTells(n, Founder, c) /\ n.rev = got.rev
      /\ n.members = got.members \ n.departed /\ n.departed = g.departed \cup got.departed
      /\ n.outbound \subseteq g.outbound
  BY <1>1, <1>3, PreservedTells
<1>5. n.rev = c.rev /\ n.rev \in Nat /\ c.rev \in Nat
  BY <1>1, <1>3, <1>4 DEF Presents, Ruling, GroupTells, Dated, Counts
<1>6. Ruling(n) /\ c.since <= n.rev
  <2>1. /\ IsGroup(n) /\ n.rev \in Nat /\ n.gen \in Nat /\ n.owner = Founder /\ n.coord = Creator
        /\ n.roles = [x \in Account |-> n.roles[x]] /\ ~n.left /\ ~n.removed
    BY <1>3, <1>4 DEF GroupTells, Dated
  <2> QED BY <1>4, <1>5, <2>1 DEF Ruling, Counts
<1>7. Presents(n, e) /\ e.since = c.since /\ e.quit = c.quit
  BY <1>2, <1>6, AboutDated
<1>8. Says(n, Founder, c) /\ Says(got, Founder, c)
  BY <1>4, <1>5, <1>6 DEF GroupTells, Dated, Counts
<1>9. Onto(c, e)
  <2>1. c.departed \subseteq e.departed
    BY <1>3, <1>4, <1>7 DEF Presents
  <2>2. \A x \in Account \ e.departed : /\ e.roles[x] = c.roles[x]
                                        /\ x \in e.members <=> x \in c.members
    BY <1>6, <1>7, <1>8, <2>1 DEF Presents, Says, Ruling
  <2>3. \A x \in Account : x \in e.members => x \in c.members
    BY <1>3, <1>4, <1>7, <2>2 DEF Presents
  <2>4. e.info = c.info /\ e.deleted = c.deleted /\ e.closed = c.closed /\ e.gen = c.gen
    BY <1>7, <1>8 DEF Presents, Says
  <2> QED BY <1>5, <1>6, <1>7, <2>1, <2>2, <2>3, <2>4 DEF Onto, Presents, Counts
<1>10. Purified(n, s.history, Creator)
  BY DEF Purified
<1>11. Onward(s, t, Creator, e) /\ t.group = n
  BY <1>1, <1>2, <1>4, <1>6, <1>9, <1>10, RulingSaved
<1> QED BY <1>7, <1>9, <1>11

LEMMA SyncHandles ==
  ASSUME NEW s, NEW d \in Device, NEW c, StateTells(s, d, c), Counts(c),
         NEW p, p.to = d, PacketTells(p, c), p.kind = "sync"
  PROVE  Handles(OnSync(s, p), s, d, p, c)
<1> DEFINE G == Merged(s.group, p.body.sync)
           T == [s EXCEPT !.history = @ \cup (IF G.closed \/ G.left \/ G.removed THEN {}
                                              ELSE ({p.body.text} \ {None}) \ G.deleted)]
           U == IF G.left THEN Cancelled(T, T.history) ELSE T
           V == IF G.left THEN [U EXCEPT !.history = {}] ELSE U
<1>0. OnSync(s, p) = [stops |-> {T, U, V}, done |-> Saved(V, G)]
  BY DEF OnSync
<1>1. PICK got : got = p.body.sync
  OBVIOUS
<1>2. PICK n : n = G /\ n = Merged(s.group, got)
  BY <1>1
<1>3. PICK H : T = [s EXCEPT !.history = H]
  OBVIOUS
<1>4. PICK t : t = T /\ t = [s EXCEPT !.history = H]
  BY <1>3
<1> HIDE DEF G, T
<1>5. PICK u : u = U /\ u = IF n.left THEN Cancelled(t, t.history) ELSE t
  BY <1>2, <1>4
<1> HIDE DEF U
<1>6. PICK v : v = V /\ v = IF n.left THEN [u EXCEPT !.history = {}] ELSE u
  BY <1>2, <1>5
<1> HIDE DEF V
<1>7. PICK z : z = Saved(V, G) /\ z = Saved(v, n)
  BY <1>2, <1>6
<1>8. PICK w : w = OnSync(s, p) /\ w = [stops |-> {t, u, v}, done |-> z]
  BY <1>0, <1>4, <1>5, <1>6, <1>7
<1>9. /\ GroupTells(got, AccountOf[d], c) /\ ~Alone(d) /\ Founder \notin c.quit
      /\ s.group # NoGroup => GroupTells(s.group, AccountOf[d], c)
  BY <1>1 DEF PacketTells, StateTells
<1>10. /\ GroupTells(n, AccountOf[d], c)
       /\ AccountOf[d] \in c.quit \/ (s.group # NoGroup => s.group.rev <= n.rev)
       /\ AccountOf[d] \in c.quit \/ got.rev < c.since \/ n.rev >= c.since
       /\ n = s.group \/ s.group = NoGroup \/ n = Preserved(s.group, got)
  BY <1>2, <1>9, MergedTells
<1>11. \A m, K : Purified(m, K, d)
  BY <1>9 DEF Purified
<1>12. Onward(s, t, d, c) /\ t.group = s.group /\ StateTells(t, d, c)
  BY <1>4, <1>11, HistoryOnward DEF Onward
<1>13. Onward(t, u, d, c) /\ u.group = s.group /\ StateTells(u, d, c)
  <2>1. CASE n.left
    BY <1>5, <1>12, <2>1, CancelledOnward DEF Onward
  <2>2. CASE ~n.left
    BY <1>5, <1>12, <2>2, OnwardSelf
  <2> QED BY <2>1, <2>2
<1>14. Onward(u, v, d, c) /\ v.group = s.group /\ StateTells(v, d, c)
  <2>1. CASE n.left
    <3>1. v = [u EXCEPT !.history = {}]
      BY <1>6, <2>1
    <3> QED BY <1>11, <1>13, <3>1, HistoryOnward DEF Onward
  <2>2. CASE ~n.left
    BY <1>6, <1>13, <2>2, OnwardSelf
  <2> QED BY <2>1, <2>2
<1>15. s.group # NoGroup => s.group.rev \in Nat
  BY RevKnown
<1>16. Onward(s, u, d, c) /\ Onward(s, v, d, c)
  BY <1>12, <1>13, <1>14, <1>15, OnwardTransitive
<1>17. PICK e : /\ Onto(c, e) /\ e.quit = c.quit /\ e.since = c.since /\ Onward(v, z, d, e)
                /\ (d = Creator \/ e = c) /\ z.group = n
  <2>1. CASE d = Creator /\ n = Preserved(s.group, got)
    <3>1. s.group # NoGroup /\ AccountOf[d] = Founder
      BY <2>1 DEF StateTells, Founder
    <3>2. \E e : /\ Onto(c, e) /\ e.quit = c.quit /\ e.since = c.since
                 /\ Onward(v, z, d, e) /\ z.group = n
      BY <1>7, <1>9, <1>10, <1>14, <2>1, <3>1, CreatorMerges
    <3> QED BY <2>1, <3>2
  <2>2. CASE d # Creator \/ n = s.group
    <3>1. d = Creator => Presents(n, c)
      BY <2>2 DEF StateTells
    <3>2. Onward(v, z, d, c) /\ z.group = n
      BY <1>7, <1>10, <1>11, <1>14, <3>1, SavedOnward
    <3> QED BY <3>2, OntoSelf DEF Counts
  <2> QED BY <1>10, <2>1, <2>2 DEF StateTells
<1>18. Onward(s, z, d, e)
  BY <1>15, <1>16, <1>17, OnwardTransitive
<1>19. Heeded(z, s, d, c)
  BY <1>17, <1>18 DEF Heeded
<1>20. \A x \in {t, u, v} : Heeded(x, s, d, c)
  BY <1>12, <1>16, OntoSelf DEF Heeded, Counts
<1>21. Settles(z, d, p, c)
  <2>1. n # NoGroup /\ n.rev \in Nat /\ got.rev \in Nat
    BY <1>9, <1>10, SomeGroup DEF GroupTells, Dated
  <2> QED BY <1>1, <1>10, <1>17, <2>1 DEF Settles, UpToDate, Counts
<1>22. w.stops = {t, u, v} /\ w.done = z
  BY <1>8
<1> QED BY <1>8, <1>19, <1>20, <1>21, <1>22 DEF Handles

\* Whatever packet arrives, and however far its handling gets.
LEMMA OutcomeHandles ==
  ASSUME NEW s, NEW d \in Device, NEW c, StateTells(s, d, c), Counts(c),
         NEW p, Arrives(p, d, FALSE), PacketTells(p, c),
         p.kind \in NeedsGroup \cup {"join"} => s.group # NoGroup, NEW expired
  PROVE  Handles(Outcome(d, s, p, expired), s, d, p, c)
<1>1. p.kind \in PacketKinds /\ p.to = d
  BY DEF Arrives, PacketSound, Carried
<1>2. CASE p.kind = "departure"
  BY <1>2, DepartureHandles DEF Outcome, NeedsGroup
<1>3. CASE p.kind = "snapshot"
  BY <1>3, SnapshotHandles DEF Outcome
<1>4. CASE p.kind = "sync"
  BY <1>1, <1>4, SyncHandles DEF Outcome
<1>5. CASE p.kind \in {"request", "join", "invite", "rejected", "invitation", "text"}
  <2>1. \A t : Settles(t, d, p, c)
    BY <1>5 DEF Settles
  <2>2. p.kind # "invitation" => s.group # NoGroup
    BY <1>5 DEF NeedsGroup
  <2>3. AllOnward(Outcome(d, s, p, expired), s, d, c)
    <3>1. CASE p.kind = "request"
      BY <2>2, <3>1, RequestOnward DEF Outcome
    <3>2. CASE p.kind = "join"
      BY <2>2, <3>2, JoinOnward DEF Outcome
    <3>3. CASE p.kind = "invite"
      BY <2>2, <3>3, InviteOnward DEF Outcome
    <3>4. CASE p.kind = "rejected"
      BY <2>2, <3>4, RejectedOnward DEF Outcome
    <3>5. CASE p.kind = "invitation"
      BY <1>1, <3>5, InvitationOnward DEF Outcome
    <3>6. CASE p.kind = "text"
      BY <2>2, <3>6, TextOnward DEF Outcome
    <3> QED BY <1>5, <3>1, <3>2, <3>3, <3>4, <3>5, <3>6
  <2> QED BY <2>1, <2>3, OnwardHandles
<1> QED BY <1>1, <1>2, <1>3, <1>4, <1>5 DEF PacketKinds, NeedsGroup

(***************************************************************************)
(* Steps of the whole, under a chronicle.                                  *)
(***************************************************************************)

\* What everybody was told still is what they have, or what is kept for them.
LEMMA UpToDateLater ==
  ASSUME NEW s, NEW t, NEW c, NEW e, UpToDate(s.group, c), Advances(s, t), e.since = c.since,
         c.since \in Nat, s.group # NoGroup => s.group.rev \in Nat,
         t.group # NoGroup => t.group.rev \in Nat
  PROVE  UpToDate(t.group, e)
BY DEF UpToDate, Advances

LEMMA MembersFewer ==
  ASSUME NEW c, NEW e, Onto(c, e), e.since = c.since, NEW d \in Device,
         AccountOf[d] \in e.members
  PROVE  AccountOf[d] \in c.members
BY GroupAssumption DEF Onto

\* A command took the device d from one of the states f to t, and died unless it was the last.
Moves(f, g, d, t, cut, cut2, last) ==
  /\ g[d] = t /\ \A x \in Device : x # d => g[x] = f[x]
  /\ cut2 = 0 => cut = 0 /\ last

\* Whom its chronicle concerns is told.
LEMMA TurnedChronicle ==
  ASSUME NEW f, NEW c, NEW ans, NEW cut, Chronicle(f, c, ans, cut), NEW d \in Device,
         NEW t, NEW last, NEW e, Turned(t, f[d], d, c, e, ans, last),
         NEW g, NEW cut2, Moves(f, g, d, t, cut, cut2, last)
  PROVE  Chronicle(g, e, ans, cut2)
<1>13. /\ g[d] = t /\ \A x \in Device : x # d => g[x] = f[x]
       /\ cut2 = 0 => cut = 0 /\ last
  BY DEF Moves
<1>1. /\ Onto(c, e) /\ e.quit = c.quit /\ Onward(f[d], t, d, e) /\ (d = Creator \/ e = c)
      /\ e.since = c.since \/ (Announces(t, e, ans) /\ (last => Copies(t, e)))
  BY DEF Turned
<1>2. Counts(c) /\ Dealt(ans, c) /\ \A x \in Device : StateTells(f[x], x, c)
  BY DEF Chronicle
<1>3. Counts(e) /\ Dealt(ans, e)
  BY <1>1, <1>2 DEF Counts, Dealt, Onto
<1>4. StateTells(g[d], d, e)
  BY <1>1, <1>13 DEF Onward
<1>5. ASSUME NEW x \in Device, x # d PROVE StateTells(g[x], x, e)
  <2>1. StateTells(f[x], x, c) /\ g[x] = f[x] /\ Founder \notin e.quit
    BY <1>1, <1>2, <1>5, <1>13 DEF StateTells
  <2> QED BY <1>1, <1>5, <2>1, StateLater
<1>6. \A x \in Device : StateTells(g[x], x, e)
  BY <1>4, <1>5
<1>7. \A x \in Device : /\ f[x].group # NoGroup => f[x].group.rev \in Nat
                        /\ g[x].group # NoGroup => g[x].group.rev \in Nat
  BY <1>2, <1>6, RevKnown
<1>8. ASSUME NEW x \in Device, AccountOf[x] \notin e.quit PROVE Advances(f[x], g[x])
  <2>1. CASE x = d
    BY <1>1, <1>8, <1>13, <2>1 DEF Onward
  <2>2. CASE x # d
    BY <1>7, <1>13, <2>2 DEF Advances
  <2> QED BY <2>1, <2>2
<1>9. Creator \in Device /\ AccountOf[Creator] \notin e.quit
  BY <1>6, GroupAssumption DEF StateTells, Founder
<1>10. Advances(f[Creator], g[Creator])
  BY <1>8, <1>9
<1>11. ASSUME NEW x \in Device, AccountOf[x] \in e.members \ (e.quit \cup {Founder})
       PROVE  Reached(x, g[x].group, g[Creator], e, ans)
  <2>1. CASE e.since = c.since
    <3>1. AccountOf[x] \in c.members \ (c.quit \cup {Founder})
      BY <1>1, <1>11, <2>1, MembersFewer
    <3>2. Reached(x, f[x].group, f[Creator], c, ans)
      BY <3>1 DEF Chronicle
    <3>3. Advances(f[x], g[x])
      BY <1>8, <1>11
    <3>4. UpToDate(f[x].group, c) => UpToDate(g[x].group, e)
      BY <1>2, <1>7, <2>1, <3>3, UpToDateLater DEF Counts
    <3> QED BY <1>10, <2>1, <3>2, <3>4 DEF Reached, Advances
  <2>2. CASE Announces(t, e, ans) /\ d = Creator
    BY <1>11, <1>13, <2>2 DEF Announces, Reached
  <2> QED BY <1>1, <2>1, <2>2
<1>12. ASSUME cut2 = 0, NEW x \in Device, AccountOf[x] = Founder, x # Creator
       PROVE  Copied(x, g[x].group, g[Creator], e)
  <2>1. CASE e.since = c.since
    <3>2. Copied(x, f[x].group, f[Creator], c)
      BY <1>12, <1>13 DEF Chronicle
    <3>3. Advances(f[x], g[x])
      BY <1>8, <1>9, <1>12 DEF Founder
    <3>4. UpToDate(f[x].group, c) => UpToDate(g[x].group, e)
      BY <1>2, <1>7, <2>1, <3>3, UpToDateLater DEF Counts
    <3> QED BY <1>10, <2>1, <3>2, <3>4 DEF Copied, Advances
  <2>2. CASE Copies(t, e) /\ d = Creator
    BY <1>12, <1>13, <2>2 DEF Copies, Copied
  <2> QED BY <1>1, <1>12, <1>13, <2>1, <2>2
<1> QED BY <1>3, <1>6, <1>11, <1>12 DEF Chronicle

\* A device other than the one that handled p took it from its outbox.
Releases(s, t, d, p, c) ==
  /\ StateTells(t, d, c) /\ t.group = s.group /\ t.told = s.told
  /\ \A q \in s.outbox : q.kind = "sync" /\ q # p => q \in t.outbox

\* The packet p was handled by d.
LEMMA HandledChronicle ==
  ASSUME NEW f, NEW c, NEW ans, NEW cut, Chronicle(f, c, ans, cut), NEW d \in Device,
         NEW p, p.to = d, PacketTells(p, c), NEW t, Heeded(t, f[d], d, c), Settles(t, d, p, c),
         \A q \in f[Creator].told : q.kind = "snapshot",
         NEW g, g[d] = t, \A x \in Device : x # d => Releases(f[x], g[x], x, p, c),
         NEW ans2, ans2 = ans \cup (IF p.kind = "snapshot" THEN {p} ELSE {})
  PROVE  \E e : Chronicle(g, e, ans2, cut) /\ e.quit = c.quit /\ e.since = c.since
<1>1. PICK e : /\ Onto(c, e) /\ e.quit = c.quit /\ e.since = c.since
               /\ Onward(f[d], t, d, e) /\ (d = Creator \/ e = c)
  BY DEF Heeded
<1>2. Counts(c) /\ Dealt(ans, c) /\ \A x \in Device : StateTells(f[x], x, c)
  BY DEF Chronicle
<1>3. Dealt(ans2, c)
  BY <1>2 DEF Dealt, PacketTells, Conveys, Whole, Dated
<1>13. Counts(e) /\ Dealt(ans2, e)
  BY <1>1, <1>2, <1>3 DEF Counts, Dealt, Onto
<1>4. StateTells(g[d], d, e)
  BY <1>1 DEF Onward
<1>5. ASSUME NEW x \in Device, x # d PROVE StateTells(g[x], x, e)
  <2>1. StateTells(g[x], x, c) /\ Founder \notin e.quit
    BY <1>1, <1>2, <1>5 DEF StateTells, Releases
  <2> QED BY <1>1, <1>5, <2>1, StateLater
<1>6. \A x \in Device : StateTells(g[x], x, e)
  BY <1>4, <1>5
<1>7. \A x \in Device : /\ f[x].group # NoGroup => f[x].group.rev \in Nat
                        /\ g[x].group # NoGroup => g[x].group.rev \in Nat
  BY <1>2, <1>6, RevKnown
<1>8. ASSUME NEW x \in Device, AccountOf[x] \notin e.quit, UpToDate(f[x].group, c)
      PROVE  UpToDate(g[x].group, e)
  <2>1. CASE x = d
    <3>1. Advances(f[x], g[x])
      BY <1>1, <1>8, <2>1 DEF Onward
    <3> QED BY <1>1, <1>2, <1>7, <1>8, <3>1, UpToDateLater DEF Counts
  <2>2. CASE x # d
    BY <1>1, <1>8, <2>2 DEF Releases, UpToDate
  <2> QED BY <2>1, <2>2
<1>9. Creator \in Device /\ AccountOf[Creator] \notin e.quit
  BY <1>6, GroupAssumption DEF StateTells, Founder
<1>10. /\ f[Creator].told \subseteq g[Creator].told
       /\ \A q \in f[Creator].outbox : q.kind = "sync" /\ q # p => q \in g[Creator].outbox
  <2>1. CASE d = Creator
    BY <1>1, <1>9, <2>1 DEF Onward, Advances
  <2>2. CASE d # Creator
    BY <1>9, <2>2 DEF Releases
  <2> QED BY <2>1, <2>2
<1>11. ASSUME NEW x \in Device, AccountOf[x] \in e.members \ (e.quit \cup {Founder})
       PROVE  Reached(x, g[x].group, g[Creator], e, ans2)
  <2>1. AccountOf[x] \in c.members \ (c.quit \cup {Founder})
    BY <1>1, <1>11, MembersFewer
  <2>2. CASE UpToDate(f[x].group, c)
    BY <1>8, <1>11, <2>2 DEF Reached
  <2>3. CASE \E q \in f[Creator].told \ ans : q.to = x /\ q.body.snapshot.rev = c.since
    <3>1. PICK q \in f[Creator].told \ ans : q.to = x /\ q.body.snapshot.rev = c.since
      BY <2>3
    <3>2. CASE q = p
      <4>1. p.kind = "snapshot" /\ x = d
        BY <3>1, <3>2
      <4>2. Presents(f[Creator].group, c)
        BY <1>2, <1>9 DEF StateTells
      <4>3. AccountOf[x] \notin c.departed
        BY <2>1, <4>2 DEF Presents
      <4>4. UpToDate(g[x].group, c)
        BY <2>1, <3>1, <3>2, <4>1, <4>3 DEF Settles
      <4> QED BY <1>1, <4>4 DEF Reached, UpToDate
    <3>3. CASE q # p
      <4>1. q \in g[Creator].told \ ans2
        BY <1>10, <3>1, <3>3
      <4> QED BY <1>1, <3>1, <4>1 DEF Reached
    <3> QED BY <3>2, <3>3
  <2>4. Reached(x, f[x].group, f[Creator], c, ans)
    BY <2>1 DEF Chronicle
  <2> QED BY <2>2, <2>3, <2>4 DEF Reached
<1>12. ASSUME cut = 0, NEW x \in Device, AccountOf[x] = Founder, x # Creator
       PROVE  Copied(x, g[x].group, g[Creator], e)
  <2>1. AccountOf[x] \notin e.quit /\ AccountOf[x] \notin c.quit
    BY <1>1, <1>9, <1>12 DEF Founder
  <2>2. CASE UpToDate(f[x].group, c)
    BY <1>8, <2>1, <2>2 DEF Copied
  <2>3. CASE \E q \in f[Creator].outbox : /\ q.kind = "sync" /\ q.to = x
                                          /\ q.body.sync.rev >= c.since
    <3>1. PICK q \in f[Creator].outbox : /\ q.kind = "sync" /\ q.to = x
                                         /\ q.body.sync.rev >= c.since
      BY <2>3
    <3>2. CASE q = p
      <4>1. UpToDate(g[x].group, c)
        BY <2>1, <3>1, <3>2 DEF Settles
      <4> QED BY <1>1, <4>1 DEF Copied, UpToDate
    <3>3. CASE q # p
      <4>1. q \in g[Creator].outbox
        BY <1>10, <3>1, <3>3
      <4> QED BY <1>1, <3>1, <4>1 DEF Copied
    <3> QED BY <3>2, <3>3
  <2>4. Copied(x, f[x].group, f[Creator], c)
    BY <1>12 DEF Chronicle
  <2> QED BY <2>2, <2>3, <2>4 DEF Copied
<1> QED BY <1>1, <1>6, <1>11, <1>12, <1>13 DEF Chronicle

\* An account, not the creator's, leaves: the chronicle no longer counts on it.
LEMMA QuitChronicle ==
  ASSUME NEW f, NEW c, NEW ans, NEW cut, Chronicle(f, c, ans, cut),
         NEW gone, c.quit \subseteq gone, Founder \notin gone
  PROVE  \E e : Chronicle(f, e, ans, cut) /\ e.quit = gone /\ e.since = c.since
<1>1. PICK k : k = f[Creator].group
  OBVIOUS
<1>2. PICK e : e = About(k, c.since, gone)
  OBVIOUS
<1>3. Creator \in Device
  BY GroupAssumption
<1>4. Counts(c) /\ Dealt(ans, c) /\ \A x \in Device : StateTells(f[x], x, c)
  BY DEF Chronicle
<1>5. Ruling(k) /\ Presents(k, c) /\ GroupTells(k, Founder, c) /\ k # NoGroup
  BY <1>1, <1>3, <1>4, PresentRuling
<1>6. c.since <= k.rev
  BY <1>4, <1>5 DEF Presents, Counts
<1>7. Presents(k, e) /\ e.since = c.since /\ e.quit = gone
  BY <1>2, <1>5, <1>6, AboutDated
<1>8. Onto(c, e)
  BY <1>4, <1>5, <1>7 DEF Onto, Presents, Counts, Ruling
<1>9. ASSUME NEW x \in Device, x # Creator PROVE StateTells(f[x], x, e)
  BY <1>4, <1>7, <1>8, <1>9, StateLater
<1>10. StateTells(f[Creator], Creator, e)
  <2>1. GroupTells(k, Founder, e)
    BY <1>5, <1>8, GroupLater
  <2>2. \A p \in f[Creator].outbox : PacketTells(p, e)
    BY <1>3, <1>4, <1>8, PacketLater DEF StateTells
  <2> QED BY <1>1, <1>3, <1>4, <1>5, <1>7, <2>1, <2>2 DEF StateTells, Founder
<1>11. Counts(e) /\ Dealt(ans, e)
  BY <1>4, <1>5, <1>7, <1>8 DEF Counts, Dealt, Onto, Presents
<1>12. e.members = c.members
  BY <1>5, <1>7 DEF Presents
<1>13. \A x \in Device : /\ Reached(x, f[x].group, f[Creator], c, ans)
                             => Reached(x, f[x].group, f[Creator], e, ans)
                         /\ Copied(x, f[x].group, f[Creator], c)
                             => Copied(x, f[x].group, f[Creator], e)
  BY <1>7 DEF Reached, Copied, UpToDate
<1>14. \A x \in Device : StateTells(f[x], x, e)
  BY <1>9, <1>10
<1> QED BY <1>7, <1>11, <1>12, <1>13, <1>14 DEF Chronicle

\* A packet handed over leaves the outbox, the last of a text with copies of the group.
LEMMA HandedReleases ==
  ASSUME NEW d, NEW c, StateTells(dev[d], d, c), NEW p,
         p \in dev[d].outbox => dev[d].group # NoGroup
  PROVE  Releases(dev[d], Handed(d, p), d, p, c)
<1>1. PICK s : s = dev[d]
  OBVIOUS
<1>2. PICK t : t = [s EXCEPT !.outbox = @ \ {p}]
  OBVIOUS
<1>3. PICK u : u = Synced(d, t, s.group, p.body.text)
  OBVIOUS
<1>4. /\ IsState(t) /\ t.history = s.history /\ t.group = s.group
      /\ t.outbox = s.outbox \ {p} /\ t.told = s.told
  BY <1>1, <1>2 DEF StateTells, IsState, StateFields
<1>5. StateTells(t, d, c)
  BY <1>1, <1>4 DEF StateTells
<1>6. Handed(d, p) = t \/ (Handed(d, p) = u /\ p \in s.outbox)
  BY <1>1, <1>2, <1>3 DEF Handed
<1>7. CASE Handed(d, p) = t
  BY <1>1, <1>4, <1>5, <1>7 DEF Releases
<1>8. CASE Handed(d, p) = u /\ p \in s.outbox
  <2>1. GroupTells(s.group, AccountOf[d], c)
    BY <1>1, <1>8 DEF StateTells
  <2>2. /\ Onward(t, u, d, c) /\ u.outbox = t.outbox \cup Linked(d, s.group, p.body.text)
        /\ u.group = t.group /\ u.told = t.told
    BY <1>3, <1>5, <2>1, SyncedOnward
  <2> QED BY <1>1, <1>4, <1>8, <2>2 DEF Releases, Onward
<1> QED BY <1>6, <1>7, <1>8

\* Where the chronicle of a step goes, whoever's step it is.
Followed(c) == Agreeing' \/ \E e : Chronicle(dev', e, answered', cuts') /\ e.quit = quit'
                                   /\ e.since = c.since

LEMMA FollowedAgrees ==
  ASSUME NEW c, Told(c), links' = links, cuts' \in Nat, Followed(c)
  PROVE  Agreeing'
<1>1. CASE Agreeing'
  BY <1>1
<1>2. CASE \E e : /\ Chronicle(dev', e, answered', cuts') /\ e.quit = quit'
                  /\ e.since = c.since
  <2>1. PICK e : Chronicle(dev', e, answered', cuts') /\ e.quit = quit' /\ e.since = c.since
    BY <1>2
  <2>2. Told(e)'
    BY <2>1 DEF Told
  <2> QED BY <2>2 DEF Agreeing
<1> QED BY <1>1, <1>2 DEF Followed

\* What a command writes: its last state, or one before when it dies.
LEMMA CommandStates ==
  ASSUME NEW d \in Device, NEW w, Command(d, w), dev = [e \in Device |-> dev[e]], cuts \in Nat
  PROVE  /\ \A x \in Device : x # d => dev'[x] = dev[x]
         /\ cuts' \in Nat
         /\ \/ dev'[d] = w.done /\ cuts' = cuts
            \/ dev'[d] \in w.stops /\ cuts' # 0
<1>1. PICK t : /\ dev' = [dev EXCEPT ![d] = t]
               /\ \/ t = w.done /\ cuts' = cuts
                  \/ t \in w.stops /\ cuts' = cuts + 1
  BY DEF Command
<1>2. dev' = [x \in Device |-> IF x = d THEN t ELSE dev[x]]
  BY <1>1
<1> QED BY <1>1, <1>2

\* The state a command ends in, or dies in, turned the chronicle.
LEMMA StateTurned ==
  ASSUME NEW c, Chronicle(dev, c, answered, cuts), NEW d \in Device,
         NEW e, NEW last, Turned(dev'[d], dev[d], d, c, e, answered, last),
         \A x \in Device : x # d => dev'[x] = dev[x], cuts' = 0 => cuts = 0 /\ last
  PROVE  Chronicle(dev', e, answered, cuts')
<1>1. PICK t, g : t = dev'[d] /\ g = dev'
  OBVIOUS
<1>2. PICK f, ans, cut, cut2 : f = dev /\ ans = answered /\ cut = cuts /\ cut2 = cuts'
  OBVIOUS
<1>3. Turned(t, f[d], d, c, e, ans, last)
  BY <1>1, <1>2
<1>4. Chronicle(f, c, ans, cut) /\ Moves(f, g, d, t, cut, cut2, last)
  BY <1>1, <1>2 DEF Moves
<1>5. Chronicle(g, e, ans, cut2)
  BY <1>3, <1>4, TurnedChronicle
<1> QED BY <1>1, <1>2, <1>5

\* A command that turns the chronicle, at its end or where it dies.
LEMMA CommandTurned ==
  ASSUME dev = [x \in Device |-> dev[x]], cuts \in Nat,
         NEW c, Chronicle(dev, c, answered, cuts), NEW d \in Device, NEW w, Command(d, w),
         AllHeed(w, dev[d], d, c, answered)
  PROVE  \E e : /\ Chronicle(dev', e, answered, cuts') /\ e.quit = c.quit /\ Onto(c, e)
                /\ (d = Creator \/ e = c)
<1>1. /\ \A x \in Device : x # d => dev'[x] = dev[x]
      /\ \/ dev'[d] = w.done /\ cuts' = cuts
         \/ dev'[d] \in w.stops /\ cuts' # 0
  BY CommandStates
<1>2. PICK last \in BOOLEAN : /\ Heeds(dev'[d], dev[d], d, c, answered, last)
                              /\ cuts' = 0 => cuts = 0 /\ last
  <2>1. CASE dev'[d] = w.done /\ cuts' = cuts
    BY <2>1 DEF AllHeed
  <2>2. CASE dev'[d] \in w.stops /\ cuts' # 0
    BY <2>2 DEF AllHeed
  <2> QED BY <1>1, <2>1, <2>2
<1>3. PICK e : Turned(dev'[d], dev[d], d, c, e, answered, last)
  BY <1>2 DEF Heeds
<1>4. Chronicle(dev', e, answered, cuts')
  BY <1>1, <1>2, <1>3, StateTurned
<1> QED BY <1>3, <1>4 DEF Turned

LEMMA CommandOnward ==
  ASSUME dev = [x \in Device |-> dev[x]], cuts \in Nat,
         NEW c, Told(c), NEW d \in Device, NEW w, Command(d, w), AllOnward(w, dev[d], d, c),
         UNCHANGED <<links, quit, answered>>
  PROVE  Agreeing'
<1>1. Counts(c) /\ c.quit = quit /\ Chronicle(dev, c, answered, cuts)
  BY DEF Told, Chronicle
<1>2. /\ \A x \in Device : x # d => dev'[x] = dev[x]
      /\ cuts' \in Nat
      /\ \/ dev'[d] = w.done /\ cuts' = cuts
         \/ dev'[d] \in w.stops /\ cuts' # 0
  BY CommandStates
<1>3. Onward(dev[d], dev'[d], d, c)
  BY <1>2 DEF AllOnward
<1>4. PICK yes \in BOOLEAN : yes
  OBVIOUS
<1>5. Turned(dev'[d], dev[d], d, c, c, answered, yes)
  BY <1>1, <1>3, OntoSelf DEF Turned, Counts
<1>8. Chronicle(dev', c, answered, cuts')
  BY <1>1, <1>2, <1>4, <1>5, StateTurned
<1>9. Followed(c)
  BY <1>1, <1>8 DEF Followed
<1> QED BY <1>2, <1>9, FollowedAgrees

\* What a step starts from while the creator rules.
LEMMA RulingState ==
  ASSUME IInv, ~HandedOver
  PROVE  /\ dev = [x \in Device |-> dev[x]]
         /\ \A d \in Device : StateSound(dev[d], d, FALSE, answered)
         /\ \A l \in links : l.coord = Creator
         /\ Creator \in Device /\ Founder \notin quit
<1>1. HandedOver = FALSE
  BY DEF HandedOver
<1> QED BY <1>1, GroupAssumption DEF IInv, HandedOver, Founder

LEMMA ToldState ==
  ASSUME NEW c, Told(c), NEW d \in Device
  PROVE  StateTells(dev[d], d, c) /\ Counts(c) /\ Dealt(answered, c) /\ dev[Creator].group # NoGroup
<1>1. StateTells(dev[d], d, c) /\ Counts(c) /\ Dealt(answered, c)
  BY DEF Told, Chronicle
<1>2. StateTells(dev[Creator], Creator, c)
  BY GroupAssumption DEF Told, Chronicle
<1> QED BY <1>1, <1>2 DEF StateTells

LEMMA NobodyActs ==
  ASSUME IInv, ~HandedOver, Blank, NEW d \in Device
  PROVE  ~HasGroup(d) /\ dev[d].outbox = {}
BY RulingState DEF Blank, StateSound, HasGroup

\* The group is new: nobody was told of it yet but by the invitations.
LEMMA CreateAgrees ==
  ASSUME IInv, ~HandedOver, Blank, cuts \in Nat, NEW d \in Device, Create(d)
  PROVE  Agreeing'
<1>1. PICK g : g = NewGroup(d, Founders)
  OBVIOUS
<1>2. PICK b : b = dev[d]
  OBVIOUS
<1>3. PICK s : s = [b EXCEPT !.group = g]
  OBVIOUS
<1>4. PICK P : P = Seal(d, DevicesOf(Founders), "invitation", [invitation |-> g])
  OBVIOUS
<1>5. PICK t : t = [s EXCEPT !.outbox = @ \cup P]
  OBVIOUS
<1>6. PICK u : u = Synced(d, t, g, None)
  OBVIOUS
<1>7. PICK w : w = Then(Then(Done(s), Done(t)), Done(u))
  OBVIOUS
<1>8. /\ d = Creator /\ Command(d, w) /\ UNCHANGED <<links, quit, answered>>
  BY <1>1, <1>2, <1>3, <1>4, <1>5, <1>6, <1>7 DEF Create
<1>9. /\ links = {} /\ answered = {}
      /\ \A x \in Device : /\ dev[x].group = NoGroup /\ dev[x].outbox = {} /\ dev[x].told = {}
                           /\ IsState(dev[x])
  BY RulingState DEF Blank, StateSound
<1>10. PICK e : e = About(g, 0, quit)
  OBVIOUS
<1>11. Ruling(g) /\ 0 <= g.rev /\ g.outbound = {} /\ g.departed = {} /\ g.left = FALSE
       /\ g.deleted = {} /\ g.members = Founders
  <2>1. IsGroup(g)
    BY <1>1, <1>8, NewGroupFields DEF Bare
  <2>2. /\ g.rev = 0 /\ g.owner = Founder /\ g.coord = Creator /\ g.members = Founders
        /\ g.deleted = {} /\ g.gen = 0 /\ g.removed = FALSE /\ g.left = FALSE
        /\ g.departed = {} /\ g.outbound = {} /\ g.roles = [x \in Account |-> None]
    BY <1>1, <1>8 DEF NewGroup, Founder
  <2> QED BY <2>1, <2>2 DEF Ruling
<1>12. Dated(g, Founder, e) /\ Presents(g, e) /\ e.since = 0 /\ e.quit = quit
  BY <1>10, <1>11, AboutDated
<1>13. GroupTells(g, Founder, e) /\ Whole(g, e) /\ g # NoGroup
  BY <1>11, <1>12, SomeGroup DEF GroupTells, Whole, Ruling
<1>14. Founder \notin e.quit /\ AccountOf[d] = Founder
  BY <1>8, <1>12, RulingState DEF Founder
<1>15. /\ IsState(s) /\ s.group = g /\ s.outbox = {} /\ s.told = {}
  BY <1>2, <1>3, <1>9 DEF IsState, StateFields
<1>16. \A H : Purified(g, H, d)
  BY <1>11 DEF Purified
<1>17. StateTells(s, d, e)
  BY <1>12, <1>13, <1>14, <1>15, <1>16 DEF StateTells
<1>18. \A p \in P : PacketTells(p, e)
  <2>1. TAKE p \in P
  <2>2. /\ p.from = d /\ p.kind = "invitation" /\ p.body = [invitation |-> g]
        /\ p.to \in DevicesOf(Founders)
    BY <1>4, SealFields
  <2>3. AccountOf[p.to] \in g.members
    BY <1>11, <2>2 DEF DevicesOf
  <2> QED BY <1>11, <1>13, <1>14, <2>2, <2>3 DEF PacketTells, Conveys
<1>19. Onward(s, t, d, e) /\ t.group = g
  BY <1>5, <1>15, <1>17, <1>18, OutboxOnward
<1>20. StateTells(t, d, e)
  BY <1>19 DEF Onward
<1>21. StateTells(u, d, e)
  BY <1>6, <1>13, <1>14, <1>20, SyncedOnward DEF Onward
<1>22. \A x \in w.stops \cup {w.done} : StateTells(x, d, e)
  BY <1>7, <1>17, <1>20, <1>21 DEF Then, Done
<1>23. /\ \A x \in Device : x # d => dev'[x] = dev[x]
       /\ cuts' \in Nat /\ dev'[d] \in w.stops \cup {w.done}
  BY <1>8, RulingState, CommandStates
<1>24. \A x \in Device : StateTells(dev'[x], x, e)
  BY <1>8, <1>9, <1>14, <1>22, <1>23 DEF StateTells
<1>25. Counts(e) /\ Dealt(answered', e)
  BY <1>8, <1>9, <1>11, <1>12 DEF Counts, Dealt, Presents, Ruling
<1>26. Chronicle(dev', e, answered', cuts')
  BY <1>12, <1>24, <1>25 DEF Chronicle, Reached, Copied, UpToDate
<1>27. Told(e)'
  BY <1>8, <1>9, <1>12, <1>26 DEF Told
<1> QED BY <1>23, <1>27 DEF Agreeing

\* A link that is new goes with a revision that everybody is told of.
LEMMA TurnedAgrees ==
  ASSUME NEW c, Told(c), cuts' \in Nat, UNCHANGED <<quit, answered>>,
         NEW e, Chronicle(dev', e, answered, cuts'), e.quit = c.quit, Onto(c, e),
         links' = links \/ e.since # c.since
  PROVE  Agreeing'
<1>1. c.quit = quit /\ (links # {} => c.since >= 1) /\ Counts(c)
  BY DEF Told, Chronicle
<1>2. links' # {} => e.since >= 1
  <2>1. CASE e.since = c.since
    BY <1>1, <2>1
  <2>2. CASE e.since # c.since
    BY <1>1, <2>2 DEF Onto, Counts
  <2> QED BY <2>1, <2>2
<1>3. Told(e)'
  BY <1>1, <1>2 DEF Told
<1> QED BY <1>3 DEF Agreeing

\* The creator applies what is asked on his device; anyone else asks him.
LEMMA ActAgrees ==
  ASSUME IInv, ~HandedOver, cuts \in Nat, NEW c, Told(c), NEW d \in Device, NEW r, Act(d, r)
  PROVE  Agreeing'
<1>1. PICK s : s = dev[d]
  OBVIOUS
<1>2. PICK g : g = s.group
  OBVIOUS
<1>3. PICK P : P = Seal(d, {g.coord}, "request", [request |-> r])
  OBVIOUS
<1>4. PICK n : n = [g EXCEPT !.requests = Append(@, r), !.outbound = @ \cup P]
  OBVIOUS
<1>5. PICK t : t = Saved(s, n)
  OBVIOUS
<1>6. PICK w : w = Then(Done(t), Transferred(t))
  OBVIOUS
<1>7. /\ g # NoGroup /\ ~g.closed
      /\ \/ IsCoordinator(d, g) /\ Command(d, Applied(d, s, r))
         \/ ~IsCoordinator(d, g) /\ Command(d, w) /\ links' = links
      /\ UNCHANGED <<quit, answered>>
  BY <1>1, <1>2, <1>3, <1>4, <1>5, <1>6 DEF Act, HasGroup, Authorized, MayWrite
<1>8. StateTells(s, d, c) /\ Counts(c) /\ Dealt(answered, c) /\ Chronicle(dev, c, answered, cuts)
  BY <1>1, ToldState DEF Told
<1>9. CASE IsCoordinator(d, g) /\ Command(d, Applied(d, s, r))
  <2>1. PICK v : v = Applied(d, s, r)
    OBVIOUS
  <2>2. d = Creator
    BY <1>2, <1>7, <1>8, <1>9 DEF IsCoordinator, StateTells, GroupTells, Dated
  <2>3. PICK ans : ans = answered
    OBVIOUS
  <2>4. \E e : Turns(v, s, Creator, c, e, ans) /\ e.since # c.since
    BY <1>2, <1>7, <1>8, <2>1, <2>2, <2>3, AppliedTurns DEF Counts
  <2>5. PICK e : Turns(v, s, Creator, c, e, ans) /\ e.since # c.since
    BY <2>4
  <2>6. /\ Onto(c, e) /\ e.quit = c.quit /\ AllOnward(v, s, d, e)
        /\ \A x \in v.stops \cup {v.done} : Announces(x, e, answered)
        /\ Copies(v.done, e)
    BY <2>2, <2>3, <2>5 DEF Turns
  <2>7. /\ \A x \in Device : x # d => dev'[x] = dev[x]
        /\ cuts' \in Nat
        /\ \/ dev'[d] = v.done /\ cuts' = cuts
           \/ dev'[d] \in v.stops /\ cuts' # 0
    BY <1>9, <2>1, RulingState, CommandStates
  <2>8. PICK last \in BOOLEAN : /\ Turned(dev'[d], s, d, c, e, answered, last)
                                /\ cuts' = 0 => cuts = 0 /\ last
    <3>1. CASE dev'[d] = v.done /\ cuts' = cuts
      BY <2>2, <2>6, <3>1 DEF Turned, AllOnward
    <3>2. CASE dev'[d] \in v.stops /\ cuts' # 0
      BY <2>2, <2>6, <3>2 DEF Turned, AllOnward
    <3> QED BY <2>7, <3>1, <3>2
  <2>9. Chronicle(dev', e, answered, cuts')
    BY <1>1, <1>8, <2>7, <2>8, StateTurned
  <2> QED BY <1>7, <2>5, <2>6, <2>7, <2>9, TurnedAgrees
<1>10. CASE ~IsCoordinator(d, g) /\ Command(d, w) /\ links' = links
  <2>1. Mirrors(g, n) /\ n.outbound = g.outbound \cup P /\ n.effect = g.effect
    BY <1>2, <1>4, <1>7, <1>8 DEF StateTells, GroupTells, Dated, Mirrors, IsGroup, GroupFields
  <2>2. \A p \in P : Conveys(p, c) /\ p.kind # "sync"
    BY <1>3, SealFields DEF Conveys
  <2>3. Onward(s, t, d, c) /\ t.group # NoGroup
    BY <1>2, <1>5, <1>7, <1>8, <2>1, <2>2, MirrorSaved
  <2>4. PICK v : v = Transferred(t)
    OBVIOUS
  <2>5. AllOnward(v, t, d, c)
    BY <2>3, <2>4, TransferredOnward DEF Onward
  <2>6. AllOnward(w, s, d, c)
    BY <1>2, <1>6, <1>7, <1>8, <2>3, <2>4, <2>5, RevKnown, DoneOnward, ThenOnward
  <2> QED BY <1>1, <1>7, <1>10, <2>6, RulingState, CommandOnward
<1> QED BY <1>7, <1>9, <1>10

LEMMA SendTextAgrees ==
  ASSUME IInv, ~HandedOver, cuts \in Nat, NEW c, Told(c), NEW d \in Device, NEW m, SendText(d, m)
  PROVE  Agreeing'
<1>1. PICK s : s = dev[d]
  OBVIOUS
<1>2. PICK P : P = Seal(d, DevicesOf(s.group.members), "text", [text |-> m])
  OBVIOUS
<1>3. PICK u : u = [s EXCEPT !.history = @ \cup {m}]
  OBVIOUS
<1>4. PICK t : t = [u EXCEPT !.outbox = @ \cup P]
  OBVIOUS
<1>5. t = [s EXCEPT !.history = @ \cup {m}, !.outbox = @ \cup P]
  BY <1>3, <1>4
<1>6. /\ s.group # NoGroup /\ Command(d, Done(t)) /\ m \notin s.group.deleted
      /\ UNCHANGED <<links, quit, answered>>
  BY <1>1, <1>2, <1>5 DEF SendText, HasGroup
<1>7. StateTells(s, d, c)
  BY <1>1, ToldState
<1>8. Purified(s.group, s.history \cup {m}, d)
  BY <1>6, <1>7 DEF StateTells, Purified
<1>9. Onward(s, u, d, c) /\ StateTells(u, d, c)
  BY <1>3, <1>7, <1>8, HistoryOnward DEF Onward
<1>10. \A p \in P : PacketTells(p, c)
  BY <1>2, SealFields DEF PacketTells, Conveys
<1>11. Onward(u, t, d, c)
  BY <1>4, <1>9, <1>10, OutboxOnward
<1>12. Onward(s, t, d, c)
  BY <1>7, <1>9, <1>11, RevKnown, OnwardTransitive
<1>13. AllOnward(Done(t), s, d, c)
  BY <1>12, DoneOnward
<1> QED BY <1>1, <1>6, <1>13, RulingState, CommandOnward

LEMMA ProcessAgrees ==
  ASSUME IInv, ~HandedOver, cuts \in Nat, NEW c, Told(c), NEW d \in Device, Process(d)
  PROVE  Agreeing'
<1>1. PICK s : s = dev[d]
  OBVIOUS
<1>2. PICK w : w = Processed(d, s)
  OBVIOUS
<1>3. /\ s.group # NoGroup /\ Command(d, w)
      /\ links' = links \/ dev'[d].group.gen > s.group.gen
      /\ UNCHANGED <<quit, answered>>
  BY <1>1, <1>2 DEF Process, HasGroup
<1>4. StateTells(s, d, c) /\ Counts(c) /\ Dealt(answered, c) /\ Chronicle(dev, c, answered, cuts)
  BY <1>1, ToldState DEF Told
<1>5. PICK ans : ans = answered
  OBVIOUS
<1>6. AllHeed(w, s, d, c, ans)
  BY <1>2, <1>3, <1>4, <1>5, ProcessedHeeds
<1>7. \E e : /\ Chronicle(dev', e, answered, cuts') /\ e.quit = c.quit /\ Onto(c, e)
             /\ (d = Creator \/ e = c)
  BY <1>1, <1>3, <1>4, <1>5, <1>6, RulingState, CommandTurned
<1>8. PICK e : /\ Chronicle(dev', e, answered, cuts') /\ e.quit = c.quit /\ Onto(c, e)
               /\ (d = Creator \/ e = c)
  BY <1>7
<1>9. links' = links \/ e.since # c.since
  <2>1. SUFFICES ASSUME links' # links PROVE e.since # c.since
    OBVIOUS
  <2>2. dev'[d].group.gen > s.group.gen /\ s.group.gen \in Nat
    BY <1>3, <1>4, <2>1 DEF StateTells, GroupTells, Dated
  <2>3. d = Creator
    <3>1. \/ IsCoordinator(d, s.group)
          \/ NoLink(w, s.group.gen)
      BY <1>1, <1>2, <1>3, ProcessedFine, RulingState
    <3>2. dev'[d] \in w.stops \cup {w.done}
      BY <1>3, RulingState, CommandStates
    <3>3. ~NoLink(w, s.group.gen)
      BY <2>2, <3>2 DEF NoLink
    <3> QED BY <1>1, <1>3, <3>1, <3>3, CoordinatorKnown
  <2>4. s.group.gen = c.gen /\ dev'[d].group.gen = e.gen
    BY <1>4, <1>8, <2>3 DEF Chronicle, StateTells, Presents
  <2> QED BY <1>4, <1>8, <2>2, <2>4 DEF Onto, Counts
<1>10. cuts' \in Nat
  BY <1>3, RulingState, CommandStates
<1> QED BY <1>3, <1>8, <1>9, <1>10, TurnedAgrees

LEMMA JoinAgrees ==
  ASSUME IInv, ~HandedOver, cuts \in Nat, NEW c, Told(c), NEW d \in Device, NEW link \in links,
         NEW id, Join(d, link, id)
  PROVE  Agreeing'
<1>1. PICK s : s = dev[d]
  OBVIOUS
<1>2. PICK f : f = NewGroup(Creator, {Founder})
  OBVIOUS
<1>3. PICK base : base = IF s.group # NoGroup THEN s.group ELSE [f EXCEPT !.removed = TRUE]
  OBVIOUS
<1>4. PICK P : P = Seal(d, {Creator}, "join", [token |-> link.token, id |-> id])
  OBVIOUS
<1>5. PICK g : g = [base EXCEPT !.left = FALSE, !.departing = FALSE, !.successor = None,
                               !.outbound = @ \cup P]
  OBVIOUS
<1>6. PICK t : t = Saved(s, g)
  OBVIOUS
<1>7. PICK w : w = Then(Done(t), Transferred(t))
  OBVIOUS
<1>8. link.coord = Creator
  BY RulingState
<1>9. /\ Command(d, w) /\ AccountOf[d] # Founder
      /\ UNCHANGED <<links, quit, answered>>
  BY <1>1, <1>2, <1>3, <1>4, <1>5, <1>6, <1>7, <1>8 DEF Join, HasGroup, Founder
<1>10. StateTells(s, d, c) /\ Counts(c) /\ c.since >= 1
  BY <1>1, ToldState DEF Told
<1>11. \A p \in P : Conveys(p, c) /\ p.kind # "sync"
  BY <1>4, SealFields DEF Conveys
<1>12. Onward(s, t, d, c) /\ t.group # NoGroup
  <2>1. CASE s.group # NoGroup
    <3>1. base = s.group
      BY <1>3, <2>1
    <3>2. Mirrors(s.group, g) /\ g.outbound = s.group.outbound \cup P /\ g.effect = s.group.effect
      BY <1>5, <1>10, <2>1, <3>1 DEF StateTells, GroupTells, Dated, Mirrors, IsGroup, GroupFields
    <3> QED BY <1>6, <1>10, <1>11, <2>1, <3>2, MirrorSaved
  <2>2. CASE s.group = NoGroup
    <3>1. base = [f EXCEPT !.removed = TRUE]
      BY <1>3, <2>2
    <3>2. IsGroup(f)
      <4>1. PICK yes \in BOOLEAN : yes
        OBVIOUS
      <4> QED BY <1>2, <4>1, NewGroupFields DEF Bare
    <3>3. /\ f.rev = 0 /\ f.owner = Founder /\ f.coord = Creator /\ f.gen = 0
          /\ f.closed = FALSE /\ f.outbound = {} /\ f.roles = [x \in Account |-> None]
      BY <1>2 DEF NewGroup, Founder
    <3>4. /\ IsGroup(base) /\ base.rev = 0 /\ base.owner = Founder /\ base.coord = Creator
          /\ base.gen = 0 /\ base.closed = FALSE /\ base.outbound = {}
          /\ base.roles = [x \in Account |-> None] /\ base.removed = TRUE
      BY <3>1, <3>2, <3>3 DEF IsGroup, GroupFields
    <3>5. /\ IsGroup(g) /\ g.rev = 0 /\ g.owner = Founder /\ g.coord = Creator
          /\ g.gen = 0 /\ g.closed = FALSE /\ g.outbound = P
          /\ g.roles = [x \in Account |-> None] /\ g.removed = TRUE /\ g.left = FALSE
      BY <1>5, <3>4 DEF IsGroup, GroupFields
    <3>6. Dated(g, AccountOf[d], c)
      BY <1>9, <1>10, <3>5 DEF Dated, Counts
    <3>7. GroupTells(g, AccountOf[d], c) /\ Purified(g, s.history, d)
      BY <1>11, <3>5, <3>6 DEF GroupTells, Purified
    <3>8. d # Creator
      BY <1>9 DEF Founder
    <3> QED BY <1>6, <1>10, <2>2, <3>7, <3>8, SavedOnward
  <2> QED BY <2>1, <2>2
<1>13. PICK v : v = Transferred(t)
  OBVIOUS
<1>14. AllOnward(v, t, d, c)
  BY <1>12, <1>13, TransferredOnward DEF Onward
<1>15. AllOnward(w, s, d, c)
  BY <1>7, <1>10, <1>12, <1>13, <1>14, RevKnown, DoneOnward, ThenOnward
<1> QED BY <1>1, <1>9, <1>15, RulingState, CommandOnward

\* The group of a device whose account has left, for good or until it joins again.
LEMMA LeavingOnward ==
  ASSUME NEW s, NEW d, NEW c, StateTells(s, d, c), s.group # NoGroup, AccountOf[d] \in c.quit,
         NEW successor, NEW g, g = Leaving(s.group, successor), NEW u, u = Saved(s, g)
  PROVE  Onward(s, u, d, c) /\ u.group = g /\ GroupTells(g, AccountOf[d], c) /\ g.left /\ g.removed
<1>1. PICK f : f = s.group
  OBVIOUS
<1>2. GroupTells(f, AccountOf[d], c) /\ AccountOf[d] # Founder /\ d # Creator
  BY <1>1 DEF StateTells, Founder
<1>3. /\ IsGroup(g) /\ g.gen = f.gen /\ g.rev = f.rev /\ g.owner = f.owner /\ g.coord = f.coord
      /\ g.info = f.info /\ g.deleted = f.deleted /\ g.closed = f.closed /\ g.roles = f.roles
      /\ g.departed = f.departed /\ g.left = TRUE /\ g.removed = TRUE /\ g.outbound = {}
  BY <1>1, <1>2 DEF GroupTells, Dated, IsGroup, GroupFields, Leaving
<1>4. Says(f, AccountOf[d], c) => Says(g, AccountOf[d], c)
  BY <1>3 DEF Says
<1>5. Dated(g, AccountOf[d], c)
  BY <1>2, <1>3, <1>4 DEF GroupTells, Dated
<1>6. GroupTells(g, AccountOf[d], c) /\ Purified(g, s.history, d)
  BY <1>3, <1>5 DEF GroupTells, Purified
<1>7. Onward(s, u, d, c) /\ u.group = g
  BY <1>2, <1>6, SavedOnward
<1> QED BY <1>3, <1>6, <1>7

LEMMA LeaveAgrees ==
  ASSUME IInv, ~HandedOver, cuts \in Nat, NEW c, Told(c), NEW d \in Device, Leave(d)
  PROVE  Agreeing'
<1>1. PICK s : s = dev[d]
  OBVIOUS
<1>2. PICK successor : \E g, t, u, v, z :
        /\ g = Leaving(s.group, successor) /\ t = Cancelled(s, s.history) /\ u = Saved(t, g)
        /\ v = [u EXCEPT !.history = {}] /\ z = Synced(d, v, g, None)
        /\ Command(d, [stops |-> {t, u, v}, done |-> z])
  BY <1>1 DEF Leave
<1>3. PICK g, t, u, v, z :
        /\ g = Leaving(s.group, successor) /\ t = Cancelled(s, s.history) /\ u = Saved(t, g)
        /\ v = [u EXCEPT !.history = {}] /\ z = Synced(d, v, g, None)
        /\ Command(d, [stops |-> {t, u, v}, done |-> z])
  BY <1>2
<1>4. PICK w : w = [stops |-> {t, u, v}, done |-> z]
  OBVIOUS
<1>5. /\ s.group # NoGroup /\ Command(d, w) /\ w.stops \cup {w.done} = {t, u, v, z}
      /\ quit \subseteq quit' /\ UNCHANGED <<links, answered>>
      /\ dev'[d].group.left => AccountOf[d] \in quit'
  BY <1>1, <1>3, <1>4 DEF Leave, HasGroup
<1>6. /\ \A x \in Device : x # d => dev'[x] = dev[x]
      /\ cuts' \in Nat
      /\ \/ dev'[d] = w.done /\ cuts' = cuts
         \/ dev'[d] \in w.stops /\ cuts' # 0
  BY <1>5, RulingState, CommandStates
<1>7. CASE HandedOver'
  BY <1>6, <1>7 DEF Agreeing
<1>8. CASE ~HandedOver'
  <2>1. Founder \notin quit'
    BY <1>8 DEF HandedOver, Founder
  <2>2. c.quit = quit /\ Chronicle(dev, c, answered, cuts)
    BY DEF Told
  <2>3. PICK gone : gone = quit'
    OBVIOUS
  <2>4. PICK f, ans, cut : f = dev /\ ans = answered /\ cut = cuts
    OBVIOUS
  <2>5. \E e : Chronicle(f, e, ans, cut) /\ e.quit = gone /\ e.since = c.since
    BY <1>5, <2>1, <2>2, <2>3, <2>4, QuitChronicle
  <2>6. PICK e : Chronicle(f, e, ans, cut) /\ e.quit = gone /\ e.since = c.since
    BY <2>5
  <2>7. StateTells(s, d, e) /\ Counts(e)
    BY <1>1, <2>4, <2>6 DEF Chronicle
  <2>8. Onward(s, t, d, e) /\ t.group = s.group /\ StateTells(t, d, e)
    BY <1>3, <2>7, CancelledOnward DEF Onward
  <2>9. AccountOf[d] \in e.quit => \A x \in {u, v, z} : Onward(s, x, d, e)
    <3>1. SUFFICES ASSUME AccountOf[d] \in e.quit
                   PROVE  Onward(s, u, d, e) /\ Onward(s, v, d, e) /\ Onward(s, z, d, e)
      OBVIOUS
    <3>2. t.group # NoGroup /\ g = Leaving(t.group, successor) /\ u = Saved(t, g)
      BY <1>3, <1>5, <2>8
    <3>3. /\ Onward(t, u, d, e) /\ u.group = g /\ GroupTells(g, AccountOf[d], e)
          /\ g.left /\ g.removed
      BY <2>8, <3>1, <3>2, LeavingOnward
    <3>4. StateTells(u, d, e) /\ Purified(g, {}, d)
      BY <3>3 DEF Onward, Purified
    <3>5. v = [u EXCEPT !.history = {}]
      BY <1>3
    <3>6. Onward(u, v, d, e) /\ StateTells(v, d, e)
      BY <3>3, <3>4, <3>5, HistoryOnward DEF Onward
    <3>7. z = Synced(d, v, g, None)
      BY <1>3
    <3>8. Onward(v, z, d, e)
      BY <3>3, <3>6, <3>7, SyncedOnward
    <3> QED BY <3>1, <3>3, <3>6, <3>8 DEF Onward
  <2>10. \A x \in {u, v, z} : x.group.left
    <3>1. IsState(t) /\ IsGroup(t.group) /\ g = Leaving(t.group, successor)
      BY <1>3, <1>5, <2>8 DEF StateTells, GroupTells, Dated
    <3>2. g.left = TRUE
      BY <3>1 DEF IsGroup, GroupFields, Leaving
    <3>3. IsState(u) /\ u.group = g
      BY <1>3, <3>1 DEF IsState, StateFields, Saved
    <3>4. IsState(v) /\ v.group = g
      BY <1>3, <3>3 DEF IsState, StateFields
    <3>5. z.group = g
      BY <1>3, <3>4 DEF IsState, StateFields, Synced
    <3> QED BY <3>2, <3>3, <3>4, <3>5
  <2>11. Onward(s, dev'[d], d, e)
    BY <1>5, <1>6, <2>3, <2>6, <2>8, <2>9, <2>10
  <2>12. PICK last \in BOOLEAN : last
    OBVIOUS
  <2>13. Turned(dev'[d], dev[d], d, e, e, answered, last)
    BY <1>1, <2>7, <2>11, OntoSelf DEF Turned, Counts
  <2>14. Chronicle(dev', e, answered, cuts')
    BY <1>6, <2>4, <2>6, <2>12, <2>13, StateTurned
  <2>15. Followed(c)
    BY <1>5, <2>3, <2>6, <2>14 DEF Followed
  <2> QED BY <1>5, <1>6, <2>15, FollowedAgrees
<1> QED BY <1>7, <1>8

LEMMA ReceiveAgrees ==
  ASSUME IInv, ~HandedOver, cuts \in Nat, NEW c, Told(c), NEW d \in Device,
         NEW p \in UNION {dev[e].outbox : e \in Device}, Receive(d, p)
  PROVE  Agreeing'
<1>1. PICK s : s = dev[d]
  OBVIOUS
<1>2. PICK expired : \E w :
        /\ w = IF p.kind = "join" /\ ~HasGroup(d) THEN Ignored(s) ELSE Outcome(d, s, p, expired)
        /\ \/ /\ dev' = [e \in Device |-> IF e = d THEN w.done ELSE Handed(e, p)]
              /\ answered' = answered \cup (IF p.kind = "snapshot" THEN {p} ELSE {})
              /\ UNCHANGED cuts
           \/ /\ cuts' = cuts + 1
              /\ \E t \in w.stops \cup {w.done} : dev' = [dev EXCEPT ![d] = t]
              /\ UNCHANGED answered
  BY <1>1 DEF Receive
<1>3. PICK w :
        /\ w = IF p.kind = "join" /\ ~HasGroup(d) THEN Ignored(s) ELSE Outcome(d, s, p, expired)
        /\ \/ /\ dev' = [e \in Device |-> IF e = d THEN w.done ELSE Handed(e, p)]
              /\ answered' = answered \cup (IF p.kind = "snapshot" THEN {p} ELSE {})
              /\ UNCHANGED cuts
           \/ /\ cuts' = cuts + 1
              /\ \E t \in w.stops \cup {w.done} : dev' = [dev EXCEPT ![d] = t]
              /\ UNCHANGED answered
  BY <1>2
<1>4. /\ p.to = d /\ (p.kind \in NeedsGroup => s.group # NoGroup)
      /\ UNCHANGED <<links, quit>>
  BY <1>1 DEF Receive, HasGroup
<1>5. StateTells(s, d, c) /\ Counts(c) /\ Chronicle(dev, c, answered, cuts) /\ c.quit = quit
  BY <1>1, ToldState DEF Told
<1>6. PICK x \in Device : p \in dev[x].outbox
  OBVIOUS
<1>7. Arrives(p, d, FALSE) /\ PacketTells(p, c)
  BY <1>4, <1>6, RulingState, ToldState DEF StateSound, Arrives, StateTells
<1>8. Handles(w, s, d, p, c)
  <2>1. CASE p.kind = "join" /\ ~HasGroup(d)
    <3>1. w = Ignored(s)
      BY <1>3, <2>1
    <3>2. Settles(w.done, d, p, c)
      BY <2>1 DEF Settles
    <3> QED BY <1>5, <3>1, <3>2, IgnoredOnward, OnwardHandles
  <2>2. CASE ~(p.kind = "join" /\ ~HasGroup(d))
    <3>1. w = Outcome(d, s, p, expired)
      BY <1>3, <2>2
    <3>2. p.kind \in NeedsGroup \cup {"join"} => s.group # NoGroup
      BY <1>1, <1>4, <2>2 DEF HasGroup
    <3> QED BY <1>5, <1>7, <3>1, <3>2, OutcomeHandles
  <2> QED BY <2>1, <2>2
<1>9. CASE /\ dev' = [e \in Device |-> IF e = d THEN w.done ELSE Handed(e, p)]
           /\ answered' = answered \cup (IF p.kind = "snapshot" THEN {p} ELSE {})
           /\ UNCHANGED cuts
  <2>1. PICK t, g, ans2 : t = w.done /\ g = dev' /\ ans2 = answered'
    OBVIOUS
  <2>2. PICK f, ans, cut : f = dev /\ ans = answered /\ cut = cuts
    OBVIOUS
  <2>3. Heeded(t, f[d], d, c) /\ Settles(t, d, p, c)
    BY <1>1, <1>8, <2>1, <2>2 DEF Handles
  <2>4. \A q \in f[Creator].told : q.kind = "snapshot"
    BY <2>2, RulingState DEF StateSound, ToldSound
  <2>5. g[d] = t /\ \A e \in Device : e # d => Releases(f[e], g[e], e, p, c)
    <3>1. ASSUME NEW e \in Device PROVE Releases(dev[e], Handed(e, p), e, p, c)
      <4>1. p \in dev[e].outbox => dev[e].group # NoGroup
        BY RulingState DEF StateSound
      <4> QED BY <4>1, ToldState, HandedReleases
    <3> QED BY <1>9, <2>1, <2>2, <3>1
  <2>6. ans2 = ans \cup (IF p.kind = "snapshot" THEN {p} ELSE {})
    BY <1>9, <2>1, <2>2
  <2>7. Chronicle(f, c, ans, cut)
    BY <1>5, <2>2
  <2>8. \E e : Chronicle(g, e, ans2, cut) /\ e.quit = c.quit /\ e.since = c.since
    BY <1>4, <1>7, <2>3, <2>4, <2>5, <2>6, <2>7, HandledChronicle
  <2>9. Followed(c)
    BY <1>4, <1>5, <1>9, <2>1, <2>2, <2>8 DEF Followed
  <2> QED BY <1>4, <1>9, <2>9, FollowedAgrees
<1>10. CASE /\ cuts' = cuts + 1
            /\ \E t \in w.stops \cup {w.done} : dev' = [dev EXCEPT ![d] = t]
            /\ UNCHANGED answered
  <2>1. PICK t \in w.stops \cup {w.done} : dev' = [dev EXCEPT ![d] = t]
    BY <1>10
  <2>2. dev' = [e \in Device |-> IF e = d THEN t ELSE dev[e]]
    BY <2>1, RulingState
  <2>3. PICK e : /\ Onto(c, e) /\ e.quit = c.quit /\ e.since = c.since
                 /\ Onward(s, t, d, e) /\ (d = Creator \/ e = c)
    BY <1>8, <2>1 DEF Handles, Heeded
  <2>4. PICK last \in BOOLEAN : last
    OBVIOUS
  <2>5. Turned(dev'[d], dev[d], d, c, e, answered, last)
    BY <1>1, <2>2, <2>3 DEF Turned
  <2>6. Chronicle(dev', e, answered, cuts')
    <3>1. \A e2 \in Device : e2 # d => dev'[e2] = dev[e2]
      BY <2>2
    <3>2. cuts' = 0 => cuts = 0 /\ last
      BY <1>10
    <3> QED BY <1>5, <2>5, <3>1, <3>2, StateTurned
  <2>7. Followed(c)
    BY <1>4, <1>5, <1>10, <2>3, <2>6 DEF Followed
  <2> QED BY <1>4, <1>10, <2>7, FollowedAgrees
<1> QED BY <1>3, <1>9, <1>10

\* Deaths are only counted up, and who has quit has quit.
LEMMA CommandCounts ==
  ASSUME cuts \in Nat, NEW d, NEW w, Command(d, w)
  PROVE  cuts' \in Nat
BY DEF Command

LEMMA StepKeeps ==
  ASSUME cuts \in Nat, [Next]_vars
  PROVE  cuts' \in Nat /\ quit \subseteq quit'
<1>1. CASE UNCHANGED vars
  BY <1>1 DEF vars
<1>2. CASE Next
  <2>1. PICK d \in Device :
          \/ Create(d)
          \/ \E r \in Request : Act(d, r)
          \/ \E m \in Msg : SendText(d, m)
          \/ Leave(d)
          \/ \E link \in links, id \in JoinId : Join(d, link, id)
          \/ Process(d)
          \/ \E p \in UNION {dev[e].outbox : e \in Device} : Receive(d, p)
    BY <1>2 DEF Next
  <2>2. CASE Create(d)
    BY <2>2, CommandCounts DEF Create
  <2>3. ASSUME NEW r \in Request, Act(d, r) PROVE cuts' \in Nat /\ quit \subseteq quit'
    BY <2>3, CommandCounts DEF Act
  <2>4. ASSUME NEW m \in Msg, SendText(d, m) PROVE cuts' \in Nat /\ quit \subseteq quit'
    BY <2>4, CommandCounts DEF SendText
  <2>5. CASE Leave(d)
    BY <2>5, CommandCounts DEF Leave
  <2>6. ASSUME NEW link \in links, NEW id \in JoinId, Join(d, link, id)
        PROVE  cuts' \in Nat /\ quit \subseteq quit'
    BY <2>6, CommandCounts DEF Join
  <2>7. CASE Process(d)
    BY <2>7, CommandCounts DEF Process
  <2>8. ASSUME NEW p, Receive(d, p) PROVE cuts' \in Nat /\ quit \subseteq quit'
    BY <2>8 DEF Receive
  <2> QED BY <2>1, <2>2, <2>3, <2>4, <2>5, <2>6, <2>7, <2>8
<1> QED BY <1>1, <1>2

LEMMA StepAgrees ==
  ASSUME IInv, Agreeing, [Next]_vars
  PROVE  Agreeing'
<1>1. cuts' \in Nat /\ quit \subseteq quit'
  BY StepKeeps DEF Agreeing
<1>2. CASE HandedOver
  <2>1. HandedOver'
    BY <1>1, <1>2 DEF HandedOver
  <2> QED BY <1>1, <2>1 DEF Agreeing
<1>3. CASE UNCHANGED vars
  <2>1. (Blank => Blank') /\ (HandedOver => HandedOver')
    BY <1>3 DEF Blank, HandedOver, vars
  <2>2. ASSUME NEW c, Told(c) PROVE Told(c)'
    BY <1>3, <2>2 DEF Told, vars
  <2> QED BY <1>1, <2>1, <2>2 DEF Agreeing
<1>4. CASE ~HandedOver /\ Next
  <2>1. PICK d \in Device :
          \/ Create(d)
          \/ \E r \in Request : Act(d, r)
          \/ \E m \in Msg : SendText(d, m)
          \/ Leave(d)
          \/ \E link \in links, id \in JoinId : Join(d, link, id)
          \/ Process(d)
          \/ \E p \in UNION {dev[e].outbox : e \in Device} : Receive(d, p)
    BY <1>4 DEF Next
  <2>2. cuts \in Nat
    BY DEF Agreeing
  <2>3. CASE Blank
    <3>1. links = {} /\ \A x \in Device : ~HasGroup(x) /\ dev[x].outbox = {}
      BY <1>4, <2>3, NobodyActs DEF Blank
    <3>2. Create(d)
      BY <2>1, <3>1 DEF Act, SendText, Leave, Process
    <3> QED BY <1>4, <2>2, <2>3, <3>2, CreateAgrees
  <2>4. CASE \E c : Told(c)
    <3>1. PICK c : Told(c)
      BY <2>4
    <3>2. ~Create(d)
      BY <3>1, ToldState DEF Create, HasGroup
    <3> QED
      BY <1>4, <2>1, <2>2, <3>1, <3>2, ActAgrees, SendTextAgrees, LeaveAgrees, JoinAgrees,
         ProcessAgrees, ReceiveAgrees
  <2> QED BY <1>4, <2>3, <2>4 DEF Agreeing
<1> QED BY <1>2, <1>3, <1>4

LEMMA InitAgrees == Init => Agreeing
BY DEF Init, Agreeing, Blank

\* Whoever takes part was reached when nothing is under way.
LEMMA QuietReached ==
  ASSUME IInv, NEW c, Told(c), Quiet, ~HandedOver, NEW d \in Device, HasGroup(d),
         AccountOf[d] \in c.members \ quit,
         AccountOf[d] # Founder \/ (cuts = 0 /\ d # Creator)
  PROVE  Says(dev[d].group, AccountOf[d], c)
<1>1. /\ c.quit = quit /\ StateTells(dev[d], d, c) /\ Chronicle(dev, c, answered, cuts)
      /\ Counts(c)
  BY ToldState DEF Told
<1>2. dev[Creator].group # NoGroup /\ Creator \in Device
  BY ToldState, GroupAssumption
<1>3. dev[Creator].outbox = {} /\ dev[Creator].group.outbound = {}
  BY <1>2 DEF Quiet, Owes, HasGroup
<1>4. dev[Creator].told \subseteq answered
  BY <1>2, <1>3, RulingState DEF StateSound, ToldSound
<1>5. UpToDate(dev[d].group, c)
  <2>1. CASE AccountOf[d] # Founder
    <3>1. Reached(d, dev[d].group, dev[Creator], c, answered)
      BY <1>1, <2>1 DEF Chronicle
    <3> QED BY <1>4, <3>1 DEF Reached
  <2>2. CASE AccountOf[d] = Founder /\ cuts = 0 /\ d # Creator
    <3>1. Copied(d, dev[d].group, dev[Creator], c)
      BY <1>1, <2>2 DEF Chronicle
    <3> QED BY <1>3, <3>1 DEF Copied
  <2> QED BY <2>1, <2>2
<1> QED BY <1>1, <1>5 DEF UpToDate, StateTells, GroupTells, Dated, HasGroup, Counts

\* When nothing is under way whoever takes part in the group knows the same group as its
\* coordinator: what snapshots, requests and departures made of it in any order, whatever
\* was lost to deaths, and no text that was deleted for everyone is left.
THEOREM AgreedWhenQuiet == Spec => []QuietMeansAgreed
<1>1. Init => IInv /\ Agreeing
  BY InitSound, InitAgrees
<1>2. IInv /\ Agreeing /\ [Next]_vars => (IInv /\ Agreeing)'
  BY StepSound, StepAgrees
<1>3. IInv /\ Agreeing => QuietMeansAgreed
  <2>1. SUFFICES ASSUME IInv, Agreeing, Quiet, ~HandedOver, ~Out(Creator),
                        NEW d \in Device, Follows(d, Creator)
                 PROVE  /\ AccountOf[d] # Founder \/ cuts = 0 => Agree(d, Creator)
                        /\ Alone(d) => dev[d].history \cap dev[Creator].group.deleted = {}
    BY DEF QuietMeansAgreed, Founder
  <2>2. Creator \in Device /\ HasGroup(Creator)
    BY <2>1, GroupAssumption DEF Out
  <2>3. PICK c : Told(c)
    BY <2>1, <2>2 DEF Agreeing, Blank, HasGroup
  <2>4. PICK k : k = dev[Creator].group
    OBVIOUS
  <2>5. /\ Presents(k, c) /\ Ruling(k)
    BY <2>2, <2>3, <2>4, ToldState, PresentRuling
  <2>6. /\ HasGroup(d) /\ ~dev[d].group.removed /\ AccountOf[d] \in c.members \ quit
    BY <2>1, <2>4, <2>5 DEF Follows, Presents, Founder
  <2>7. /\ Content(k) = <<c.info, c.deleted, c.closed, c.gen>> /\ k.deleted = c.deleted
    BY <2>5 DEF Presents, Content
  <2>8. AccountOf[d] # Founder \/ (cuts = 0 /\ d # Creator) => Says(dev[d].group, AccountOf[d], c)
    BY <2>1, <2>3, <2>6, QuietReached
  <2>9. Says(dev[d].group, AccountOf[d], c) => Agree(d, Creator)
    BY <2>4, <2>5, <2>6, <2>7 DEF Says, Agree, Content, Presents, Founder
  <2>10. d = Creator => Agree(d, Creator)
    BY DEF Agree
  <2>11. ASSUME Alone(d) PROVE dev[d].history \cap k.deleted = {}
    <3>1. StateTells(dev[d], d, c) /\ ~dev[d].group.effect
      BY <2>1, <2>3, <2>6, ToldState DEF Quiet
    <3>2. dev[d].history \cap dev[d].group.deleted = {}
      BY <2>6, <2>11, <3>1 DEF StateTells, Purified, HasGroup
    <3>3. CASE AccountOf[d] # Founder
      BY <2>7, <2>8, <3>2, <3>3 DEF Says
    <3>4. CASE AccountOf[d] = Founder
      <4>1. Creator = d
        BY <2>2, <2>11, <3>4 DEF Alone, DevicesOf, Founder
      <4> QED BY <2>4, <3>2, <4>1
    <3> QED BY <3>3, <3>4
  <2> QED BY <2>4, <2>8, <2>9, <2>10, <2>11
<1> QED BY <1>1, <1>2, <1>3, PTL DEF Spec

=============================================================================
