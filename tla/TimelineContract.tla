-------------------------- MODULE TimelineContract --------------------------
(***************************************************************************)
(* What the timeline of an Incident promises the operators who watch it,   *)
(* without transactions, polling and connections: it only grows, by one    *)
(* event at a time, and a page that was loaded at some point hears every   *)
(* event after that point, once, in order.                                 *)
(***************************************************************************)
EXTENDS Naturals, Sequences

CONSTANT Pages

VARIABLES log,    \* the events
          from,   \* from[p]: how many of them page p was loaded with
          heard   \* heard[p]: the cursors p has heard since

ContractInit ==
  /\ log = <<>>
  /\ from = [p \in Pages |-> 0]
  /\ heard = [p \in Pages |-> <<>>]

ContractRecord ==
  /\ Len(log') = Len(log) + 1 /\ SubSeq(log', 1, Len(log)) = log
  /\ UNCHANGED <<from, heard>>

ContractLoad(p) ==
  /\ \E n \in from[p] .. Len(log) : from' = [from EXCEPT ![p] = n]
  /\ heard' = [heard EXCEPT ![p] = <<>>]
  /\ UNCHANGED log

ContractHear(p) ==
  /\ from[p] + Len(heard[p]) < Len(log)
  /\ heard' = [heard EXCEPT ![p] = Append(@, from[p] + Len(@) + 1)]
  /\ UNCHANGED <<log, from>>

ContractNext ==
  \/ ContractRecord
  \/ \E p \in Pages : ContractLoad(p) \/ ContractHear(p)

ContractSpec == ContractInit /\ [][ContractNext]_<<log, from, heard>>
=============================================================================
