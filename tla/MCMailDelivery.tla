--------------------------- MODULE MCMailDelivery ---------------------------
(* Instances of MailDelivery for TLC. *)
EXTENDS MailDelivery, TLC

Symmetry == Permutations(Workers)

\* Readers look at which rows there are, and workers change only what the rows say: a
\* reader under way meets the same sets of rows when the workers rest, and TLC goes on
\* from no other states of both.
ReadersApart ==
  (\E v \in Readers : reader[v].pc # "idle") => \A w \in Workers : worker[w].pc = "poll"
=============================================================================
