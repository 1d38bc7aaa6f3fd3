----------------------------- MODULE MessageFate -----------------------------
(***************************************************************************)
(* What a store-and-forward queue owes its caller: a message it has taken    *)
(* is held until the caller has been told why it left.                        *)
(***************************************************************************)
CONSTANT Messages

VARIABLE fate

Departures == {"Acknowledged", "Abandoned", "Displaced", "Cleared"}

Init == fate = [m \in Messages |-> "New"]

\* One call may take a message and displace another, or abandon several; a
\* message held again after it left starts over.
Step(m) ==
  \/ fate'[m] = fate[m]
  \/ fate[m] # "Held" /\ fate'[m] = "Held"
  \/ fate[m] = "Held" /\ fate'[m] \in Departures

Next == /\ fate' \in [Messages -> Departures \cup {"New", "Held"}]
        /\ \A m \in Messages : Step(m)

Spec == Init /\ [][Next]_fate
=============================================================================
