------------------------- MODULE TransactionOutcome -------------------------
(***************************************************************************)
(* What a transactional store promises of its transactions, whatever       *)
(* happens to the process: each is begun once and decided at most once,    *)
(* for ever, and a commit is acknowledged only when it is the outcome.     *)
(* Several transactions may move together: a crash decides which of the    *)
(* decisions that were not yet forced survive.                             *)
(***************************************************************************)
CONSTANT Id

VARIABLES outcome, acked

\* What an outcome may become in one step.
Later == [none      |-> {"none", "active"},
          active    |-> {"active", "committed", "aborted"},
          committed |-> {"committed"},
          aborted   |-> {"aborted"}]

Init ==
  /\ outcome = [t \in Id |-> "none"]
  /\ acked = {}

Step ==
  LET was == outcome
      is  == outcome'
  IN  /\ \A t \in Id : is[t] \in Later[was[t]]
      /\ acked \subseteq acked'
      /\ \A t \in acked' : is[t] = "committed"

Spec == Init /\ [][Step]_<<outcome, acked>>
=============================================================================
