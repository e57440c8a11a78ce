---------------------------- MODULE BlockTransfer ----------------------------
(***************************************************************************)
(* What reliable block transfer promises, whatever protocol provides it: a *)
(* submitted block may be delivered, whole, any number of times, or be     *)
(* given up by who receives it; the submitter is told of success once the  *)
(* block has been delivered or given up there, or of failure at any time,  *)
(* and is told once.                                                       *)
(***************************************************************************)
EXTENDS Sequences

CONSTANTS
  Senders,     \* those that submit blocks and receive them
  Reach,       \* Reach[e]: those a block of e may be delivered at
  Payloads,    \* the blocks
  Bytes,       \* Bytes[b]: the contents of block b
  Numbers      \* the numbers of transfers

VARIABLES
  submitted,   \* the transfers asked for, as [engine, number, block]
  deliveries,  \* the deliveries so far, oldest first
  abandoned,   \* the transfers given up by who received them, as [at, from, number]
  verdicts     \* what submitters were told, as [engine, number, ok]

abstractVars == <<submitted, deliveries, abandoned, verdicts>>

AbstractInit ==
  /\ submitted = {}
  /\ deliveries = << >>
  /\ abandoned = {}
  /\ verdicts = {}

\* A transfer gets a number its submitter has not used.
SubmitAs(e, n, b) ==
  /\ \A r \in submitted : r.engine = e => r.number # n
  /\ submitted' = submitted \cup {[engine |-> e, number |-> n, block |-> b]}
  /\ UNCHANGED <<deliveries, abandoned, verdicts>>

Deliver(r, b) ==
  /\ b \in Reach[r.engine]
  /\ deliveries' = Append(deliveries,
       [at |-> b, from |-> r.engine, number |-> r.number, data |-> Bytes[r.block]])
  /\ UNCHANGED <<submitted, abandoned, verdicts>>

\* b stops receiving r: nothing more is kept of it.
Abandon(r, b) ==
  /\ b \in Reach[r.engine]
  /\ abandoned' = abandoned \cup {[at |-> b, from |-> r.engine, number |-> r.number]}
  /\ UNCHANGED <<submitted, deliveries, verdicts>>

\* The transfer r has come to an end where it goes.
Settled(r) ==
  \/ \E i \in DOMAIN deliveries :
       deliveries[i].from = r.engine /\ deliveries[i].number = r.number
  \/ \E x \in abandoned : x.from = r.engine /\ x.number = r.number

Pending(r) == \A v \in verdicts : ~ (v.engine = r.engine /\ v.number = r.number)

Succeed(r) ==
  /\ Pending(r)
  /\ Settled(r)
  /\ verdicts' = verdicts \cup {[engine |-> r.engine, number |-> r.number, ok |-> 1]}
  /\ UNCHANGED <<submitted, deliveries, abandoned>>

Fail(r) ==
  /\ Pending(r)
  /\ verdicts' = verdicts \cup {[engine |-> r.engine, number |-> r.number, ok |-> 0]}
  /\ UNCHANGED <<submitted, deliveries, abandoned>>

AbstractNext ==
  \/ \E e \in Senders, n \in Numbers, b \in Payloads : SubmitAs(e, n, b)
  \/ \E r \in submitted :
       \/ Succeed(r) \/ Fail(r)
       \/ \E b \in Reach[r.engine] : Deliver(r, b) \/ Abandon(r, b)

AbstractSpec == AbstractInit /\ [][AbstractNext]_abstractVars
=============================================================================
