-------------------------- MODULE OhciEdListCheck --------------------------
(***************************************************************************)
(* Checks the ED-list walk of OhciEdList against its reference definition  *)
(* over every input the bounded address sets allow: every guest memory of  *)
(* EDs, every list head and every pending async TD.  The checks are        *)
(* constant formulas: MC_OhciController states them, for all inputs, as   *)
(* invariants, which TLC evaluates once, as the constants they are.       *)
(***************************************************************************)
EXTENDS OhciEdList

\* The TD outcomes are irrelevant to whether the walk dies; NAK for all.
AllNak == [e \in EDs |-> Nak]

\* A walk of the list at head over mem with pending async TD a, with an
\* idle done queue.
WalkResult(mem, head, a) ==
  ServiceEndpointList(mem, head, a, FALSE, DoneCountIdle, AllNak)

\* Every (memory, head, pending TD) a guest and the controller can set up.
WalkInputs == Memories \X Addrs \X (TDs \cup {NoTD})

\* A paused (halted or skipped) ED on the chain from head holds TD a at
\* its head.
PausedEdHolds(mem, head, a) ==
  \E e \in ChainFrom(mem, head) \cap EDs : mem[e].skip /\ mem[e].head = a

=============================================================================
