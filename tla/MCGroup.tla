------------------------------ MODULE MCGroup ------------------------------
(* Instances of GroupControl for TLC.                                       *)
EXTENDS GroupControl

CONSTANTS o, a, b, o1, a1, a2, b1, m1

MCAccountOf == [d \in Device |-> CASE d = o1 -> o [] d \in {a1, a2} -> a [] OTHER -> b]
MCPrimary == [x \in Account |-> CASE x = o -> o1 [] x = a -> a1 [] OTHER -> b1]
MCAuthor == [x \in Msg |-> IF x = m1 THEN a1 ELSE o1]

Ask(id, actor, kind, who, rights) ==
  [id |-> id, actor |-> actor, kind |-> kind, who |-> who, rights |-> rights]

\* The owner makes a an admin, who changes the description; the owner deletes m1,
\* makes a link, and closes the group.
Delegation == {Ask("grant", o, "grant", a, {"info"}),
               Ask("delete", o, "delete", m1, {}),
               Ask("info", a, "info", None, {}),
               Ask("link", o, "link", None, {}),
               Ask("close", o, "close", None, {})}
=============================================================================
