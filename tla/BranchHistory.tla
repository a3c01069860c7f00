--------------------------- MODULE BranchHistory ---------------------------
(***************************************************************************)
(* What a repository promises about its branches, with no files, locks,    *)
(* indexes or crashes: a branch is a sequence of accepted commits that     *)
(* starts at a genesis commit, grows one new commit at a time, and can be  *)
(* copied once to a name that is not in use.                               *)
(***************************************************************************)
EXTENDS Naturals, Sequences

CONSTANTS Names, Ids

VARIABLE accepted   \* accepted[n]: the accepted commits of branch n, oldest first

Used == {c \in Ids : \E n \in Names : \E i \in DOMAIN accepted[n] : accepted[n][i] = c}

Init == accepted = [n \in Names |-> << >>]

Create(n, c) ==
  /\ accepted[n] = << >> /\ c \notin Used
  /\ accepted' = [accepted EXCEPT ![n] = <<c>>]

Extend(n, c) ==
  /\ accepted[n] # << >> /\ c \notin Used
  /\ accepted' = [accepted EXCEPT ![n] = Append(@, c)]

Fork(n, new) ==
  /\ accepted[n] # << >> /\ accepted[new] = << >>
  /\ accepted' = [accepted EXCEPT ![new] = accepted[n]]

Next ==
  \/ \E n \in Names, c \in Ids : Create(n, c) \/ Extend(n, c)
  \/ \E n, new \in Names : Fork(n, new)

Spec == Init /\ [][Next]_accepted
=============================================================================
