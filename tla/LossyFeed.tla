------------------------------ MODULE LossyFeed ------------------------------
(***************************************************************************)
(* What the progress seam promises its consumer, whatever the reporter and *)
(* the sink are made of: an operation offers numbered events and ends with *)
(* one last event.  An offer may be lost; the ending may not.  Nothing is  *)
(* offered after the ending, and what is delivered is delivered in the     *)
(* order it was offered, once.  No offer waits for a delivery.             *)
(***************************************************************************)
EXTENDS Naturals

VARIABLES
  offered,     \* how many events the operation has offered
  pending,     \* numbers of the events still on their way
  delivered,   \* number of the latest event the consumer has taken
  ended        \* the ending has been offered

feed == <<offered, pending, delivered, ended>>

Init ==
  /\ offered = 0
  /\ pending = {}
  /\ delivered = 0
  /\ ended = FALSE

Oldest(S) == CHOOSE n \in S : \A m \in S : n <= m

\* An event that is not the ending: kept or lost at once.
Offer ==
  /\ ~ended
  /\ offered' = offered + 1
  /\ pending' \in {pending, pending \cup {offered + 1}}
  /\ UNCHANGED <<delivered, ended>>

\* The ending: never lost, and the last event of all.
End ==
  /\ ~ended
  /\ ended' = TRUE
  /\ offered' = offered + 1
  /\ pending' = pending \cup {offered + 1}
  /\ UNCHANGED delivered

\* The consumer takes the oldest event on its way.
Deliver ==
  /\ pending # {}
  /\ delivered' = Oldest(pending)
  /\ pending' = pending \ {Oldest(pending)}
  /\ UNCHANGED <<offered, ended>>

Next == Offer \/ End \/ Deliver

Spec == Init /\ [][Next]_feed

-----------------------------------------------------------------------------
\* Every event on its way is newer than what the consumer has, and was
\* offered.
InOrder == \A n \in pending : delivered < n /\ n <= offered

\* Once the operation has ended, its ending is on its way or is what the
\* consumer took last.
EndingKept == ended => offered \in pending \cup {delivered}
=============================================================================
