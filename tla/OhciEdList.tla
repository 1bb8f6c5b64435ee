---------------------------- MODULE OhciEdList ----------------------------
(***************************************************************************)
(* USBOHCIDevice::ServiceEndpointList (usb_ohci_pci.cpp 331-389): the walk *)
(* of one guest-memory list of Endpoint Descriptors, as a RECURSIVE        *)
(* operator over a snapshot of guest memory.                               *)
(*                                                                         *)
(* An ED is abstracted to its next pointer, its halted/skip state (OHCI_ED *)
(* H or K) and the TD at its head (NoTD when head == tail).  An address is *)
(* NULL, an ED, or BadAddr, an address ohci_read_ed cannot read.  The      *)
(* outcome of ohci_service_td for the TD at an ED's head is an input: a    *)
(* NAK leaves the TD, "async" makes it the pending m_async_td, and a       *)
(* delay-interrupt value d retires it to the done queue.  ohci_service_td  *)
(* is called but not defined in the repository; its effect is taken from  *)
(* the OHCI done-queue rules the spec states.                              *)
(***************************************************************************)
EXTENDS Naturals, FiniteSets

CONSTANTS
  EDs,              \* guest addresses holding an ED
  TDs,              \* guest addresses of TDs
  BadAddr,          \* an address whose read fails
  ED_LINK_LIMIT,    \* ceiling on EDs visited in one walk
  DelayIntervals    \* TD delay-interrupt (DI) values retired TDs carry

NULL == "NULL"
NoTD == "NoTD"

Addrs == EDs \cup {NULL, BadAddr}

EdRecords == [next : Addrs, skip : BOOLEAN, head : TDs \cup {NoTD}]

Memories == [EDs -> EdRecords]

\* ohci_service_td results: NAK, async, or retired with a DI value.
Nak == [kind |-> "nak", di |-> 0]
TdOutcomes == {Nak, [kind |-> "async", di |-> 0]}
                \cup {[kind |-> "retire", di |-> d] : d \in DelayIntervals}

\* m_doneCount's value when no retired TD is waiting.
DoneCountIdle == 7

\* Fault-injection variant: the link ceiling checked with >= instead of >.
LinkLimitExceededOffByOne(cnt) == cnt >= ED_LINK_LIMIT

\* ++linkCnt > ED_LINK_LIMIT (350).
LinkLimitExceeded(cnt) == cnt > ED_LINK_LIMIT

\* Fault-injection variant: a paused ED never cancels the async packet.
CancelIfPausedNever(w, ed) == w.asyncTd

\* The paused-ED branch (355-364): an ED marked halted or skip whose head
\* is the pending async TD gets that packet cancelled.
CancelIfPaused(w, ed) ==
  IF w.asyncTd # NoTD /\ ed.head = w.asyncTd THEN NoTD ELSE w.asyncTd

\* One ohci_service_td on the TD at the ED's head (366-380) followed by
\* the write-back ohci_put_ed (382): a pending async TD blocks service, a
\* NAK leaves the TD, async makes it m_async_td, a retirement moves it to
\* the done queue and lowers m_doneCount to the TD's DI.
ServiceTd(w, e, outcome) ==
  LET td == w.mem[e].head IN
  CASE w.asyncTd # NoTD        -> w
    [] outcome.kind = "nak"    -> w
    [] outcome.kind = "async"  -> [w EXCEPT !.asyncTd = td]
    [] outcome.kind = "retire" ->
         [w EXCEPT !.mem[e].head = NoTD, !.done = TRUE,
                   !.doneCount = IF outcome.di < @ THEN outcome.di ELSE @]

\* ServiceEndpointList from w.cur on: read error or too many links end in
\* Die (342-353), a paused ED is skipped (355-364), a non-empty ED marks
\* the list active and has its head TD serviced.
RECURSIVE Walk(_, _)
Walk(w, outcome) ==
  IF w.cur = NULL THEN w
  ELSE IF w.cur = BadAddr THEN [w EXCEPT !.died = TRUE]
  ELSE
    LET ed  == w.mem[w.cur]
        cnt == w.cnt + 1
    IN  IF LinkLimitExceeded(cnt) THEN [w EXCEPT !.died = TRUE, !.cnt = cnt]
        ELSE IF ed.skip
             THEN Walk([w EXCEPT !.cur = ed.next, !.cnt = cnt,
                                 !.asyncTd = CancelIfPaused(w, ed)], outcome)
        ELSE IF ed.head = NoTD
             THEN Walk([w EXCEPT !.cur = ed.next, !.cnt = cnt], outcome)
        ELSE LET s == ServiceTd([w EXCEPT !.active = TRUE], w.cur,
                                outcome[w.cur])
             IN  Walk([s EXCEPT !.cur = ed.next, !.cnt = cnt], outcome)

\* ServiceEndpointList(head, completion) (331-389): NULL head is an idle
\* list; otherwise the walk from head.
ServiceEndpointList(mem, head, pendingTd, doneQueued, doneCnt, outcome) ==
  Walk([mem |-> mem, cur |-> head, cnt |-> 0, active |-> FALSE,
        died |-> FALSE, asyncTd |-> pendingTd, done |-> doneQueued,
        doneCount |-> doneCnt], outcome)

-----------------------------------------------------------------------------
(* Reference definition of which lists are fatal, from the spec's list-    *)
(* walk rule: the walk must Die exactly when the chain from the head       *)
(* reaches an unreadable address, revisits an ED, or holds more EDs than   *)
(* the link ceiling.                                                       *)
\* The addresses reachable from S by following at most k next pointers.
RECURSIVE Reachable(_, _, _)
Reachable(mem, S, k) ==
  IF k = 0 THEN S
  ELSE Reachable(mem, S \cup {mem[e].next : e \in S \cap EDs}, k - 1)

ChainFrom(mem, head) == Reachable(mem, {head}, Cardinality(EDs))

ChainIsCyclic(mem, head) ==
  \E e \in ChainFrom(mem, head) \cap EDs :
     e \in Reachable(mem, {mem[e].next}, Cardinality(EDs))

ListIsFatal(mem, head) ==
  /\ head # NULL
  /\ \/ BadAddr \in ChainFrom(mem, head)
     \/ ChainIsCyclic(mem, head)
     \/ Cardinality(ChainFrom(mem, head) \cap EDs) > ED_LINK_LIMIT

=============================================================================
