------------------------------ MODULE VoteBook ------------------------------
(***************************************************************************)
(* What governance takes PENDLE's votes for: tokens are delegated, taken   *)
(* back or handed from one delegate to another, and what a delegate had at *)
(* the end of a block stays on record.  There are no checkpoints and no    *)
(* search: the page of a block is a copy of the votes.  PENDLE is shown to *)
(* implement it.                                                           *)
(***************************************************************************)
EXTENDS Integers

CONSTANTS
    Representative,
    Amount      \* of votes that may move at once

VARIABLES
    block,
    votes,      \* of every delegate, now
    pages       \* and at the end of every earlier block

vars == <<block, votes, pages>>

Init ==
    /\ votes = [d \in Representative |-> 0]
    /\ pages = [b \in 0..(block - 1) |-> votes]

(* Votes are delegated, with from empty; taken back, with to empty; or     *)
(* handed over by one delegate to another.                                 *)
Move(from, to, amount) ==
    /\ from \cap to = {}
    /\ \A d \in from : votes[d] >= amount
    /\ votes' = [d \in Representative |->
                   votes[d] + (IF d \in to THEN amount ELSE 0)
                            - (IF d \in from THEN amount ELSE 0)]
    /\ UNCHANGED <<block, pages>>

NextBlock ==
    /\ block' = block + 1
    /\ pages' = [b \in 0..block |-> IF b = block THEN votes ELSE pages[b]]
    /\ UNCHANGED votes

AtMostOne == {{}} \cup {{d} : d \in Representative}

Next == NextBlock \/ \E from, to \in AtMostOne, amount \in Amount : Move(from, to, amount)

Spec == Init /\ [][Next]_vars
=============================================================================
