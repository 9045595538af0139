---------------------------- MODULE MCPreflight ----------------------------
(***************************************************************************)
(* Messages as a user would type them, and the users of the chats.         *)
(***************************************************************************)
EXTENDS Preflight, TLC

CONSTANTS c1, c2, c3, u1, u2, anon, own, curl, git, t1, t2

Text(verdict, pick, name) ==
    [kind |-> "plain", verdict |-> verdict, pick |-> pick, name |-> name]
Command(kind) == [kind |-> kind, verdict |-> "", pick |-> 0, name |-> "other"]

\* "1", "2", "3"; a task; a request for the list of skills.
ApprovalReplies ==
    { Text("once", 1, "other"), Text("always", 2, "other"), Text("deny", 3, "other"),
      Text("", 0, "other"), Command("skill") }

\* "1"; an option quoted or counted in words, which reads like a name; a task; a
\* greeting; "show my memory"; "reset persona".
ClarifyReplies ==
    { Text("once", 1, "other"), Text("", 2, "name"), Text("", 0, "other"),
      Text("", 0, "greeting"), Command("memory"), Command("reset") }

\* Two commands of one executable.
MCCommands == { <<git, 1>>, <<git, 2>> }
NoCommands == {}

\* Two topics that have nothing in common.
MCSimilar == { <<t1, t1>>, <<t2, t2>> }

\* Two chats without a conversation id, of two users, and one of the first of them
\* with a conversation of its own.
TwoUsers == (c1 :> u1) @@ (c2 :> u2) @@ (c3 :> u1)
SharedKey == (c1 :> anon) @@ (c2 :> anon) @@ (c3 :> own)
FewTurns == (c1 :> 2) @@ (c2 :> 1) @@ (c3 :> 3)

\* Two chats of two users.
OwnUsers == (c1 :> u1) @@ (c2 :> u2)
OwnKeys == (c1 :> own) @@ (c2 :> anon)
UnevenTurns == (c1 :> 4) @@ (c2 :> 1)
ThreeTurns == (c1 :> 3) @@ (c2 :> 3)
=============================================================================
