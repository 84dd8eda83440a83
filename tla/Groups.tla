------------------------------- MODULE Groups -------------------------------
(***************************************************************************)
(* What the channels promise their users: a channel that is open has at    *)
(* most MaxUsers members, who come and go one at a time; a channel that is *)
(* closed has none.                                                        *)
(***************************************************************************)
EXTENDS Naturals, FiniteSets

CONSTANTS Users, Channels, MaxUsers

VARIABLES
  open,      \* the channels there are
  members    \* members[ch]: the users in channel ch

groupVars == <<open, members>>

Init ==
  /\ open = {}
  /\ members = [ch \in Channels |-> {}]

\* Whoever opens a channel is its first member.
Open(ch, u) ==
  /\ ch \notin open
  /\ open' = open \cup {ch}
  /\ members' = [members EXCEPT ![ch] = {u}]

Join(ch, u) ==
  /\ ch \in open
  /\ u \notin members[ch]
  /\ Cardinality(members[ch]) < MaxUsers
  /\ members' = [members EXCEPT ![ch] = @ \cup {u}]
  /\ UNCHANGED open

Leave(ch, u) ==
  /\ u \in members[ch]
  /\ members' = [members EXCEPT ![ch] = @ \ {u}]
  /\ UNCHANGED open

Close(ch) ==
  /\ ch \in open
  /\ open' = open \ {ch}
  /\ members' = [members EXCEPT ![ch] = {}]

\* A user's account ends.
Expel(u) ==
  /\ members' = [ch \in Channels |-> members[ch] \ {u}]
  /\ UNCHANGED open

Next ==
  \/ \E ch \in Channels : Close(ch)
  \/ \E u \in Users : Expel(u)
  \/ \E ch \in Channels, u \in Users : Open(ch, u) \/ Join(ch, u) \/ Leave(ch, u)

Spec == Init /\ [][Next]_groupVars
=============================================================================
