------------------------ MODULE MC_OhciController ------------------------
EXTENDS OhciController, OhciEdListCheck

CONSTANTS e1, e2, e3, t1, bad, p1, p2

MCEDs == {e1, e2}
\* Three EDs, so that a list of distinct EDs can exceed ED_LINK_LIMIT = 2.
MCEDs3 == {e1, e2, e3}
MCTDs == {t1}
MCPorts2 == {p1, p2}

ED(next, skip, head) == [next |-> next, skip |-> skip, head |-> head]

\* Guest memories a frame reads: empty lists, a list of two EDs with a TD
\* at the head of the first, a paused ED holding the TD, a cycle, and a
\* pointer into unreadable memory.
MCFrameMemories ==
  { [e \in MCEDs |-> ED(NULL, FALSE, NoTD)],
    [e \in MCEDs |-> IF e = e1 THEN ED(e2, FALSE, t1) ELSE ED(NULL, FALSE, NoTD)],
    [e \in MCEDs |-> IF e = e1 THEN ED(NULL, TRUE, t1) ELSE ED(NULL, FALSE, NoTD)],
    [e \in MCEDs |-> IF e = e1 THEN ED(e2, FALSE, t1) ELSE ED(e1, FALSE, NoTD)],
    [e \in MCEDs |-> IF e = e1 THEN ED(bad, FALSE, NoTD) ELSE ED(NULL, FALSE, NoTD)] }

\* Frames for the liveness run: a list with a TD, a paused ED and an
\* unreadable pointer, which makes the frame Die.
MCFrameMemoriesLive ==
  { [e \in EDs |-> IF e = e1 THEN ED(e2, FALSE, t1) ELSE ED(NULL, FALSE, NoTD)],
    [e \in EDs |-> IF e = e1 THEN ED(NULL, TRUE, t1) ELSE ED(NULL, FALSE, NoTD)],
    [e \in EDs |-> IF e = e1 THEN ED(bad, FALSE, NoTD) ELSE ED(NULL, FALSE, NoTD)] }

MCControlWritesLive ==
  { [hcfs |-> "OPERATIONAL", lists |-> {"PLE", "CLE", "BLE"}],
    [hcfs |-> "SUSPEND", lists |-> {}] }

MCControlWritesFrames ==
  { [hcfs |-> "OPERATIONAL", lists |-> {"PLE", "CLE", "BLE"}],
    [hcfs |-> "SUSPEND", lists |-> {}],
    [hcfs |-> "RESUME", lists |-> {"BLE"}],
    [hcfs |-> "RESET", lists |-> {}] }

MCControlWritesHub ==
  { [hcfs |-> "RESET", lists |-> {}], [hcfs |-> "SUSPEND", lists |-> {}] }

MCPortWrites ==
  { {"PES"}, {"PRS"}, {"CCS"}, {"PSS"}, {"LSDA"}, {"PPS"},
    {"CSC", "PESC", "PSSC", "OCIC", "PRSC"} }

MCHubWrites == { {"LPS"}, {"LPSC"}, {"DRWE"}, {"CRWE"} }

(* The ED-list walk of ServiceEndpointList ends in Die exactly for the     *)
(* lists the spec calls corrupt (an unreadable pointer, a cycle, or more   *)
(* EDs than ED_LINK_LIMIT), for every guest memory of EDs, list head and   *)
(* pending TD: a sound list is never fatal and no walk runs forever.       *)
WalkDiesOnExactlyCorruptLists ==
  /\ \A in \in WalkInputs :
        ListIsFatal(in[1], in[2]) => WalkResult(in[1], in[2], in[3]).died
  /\ \A in \in WalkInputs :
        WalkResult(in[1], in[2], in[3]).died => ListIsFatal(in[1], in[2])

(* A walk over a list that holds a paused (halted or skipped) ED whose     *)
(* head is the pending async TD cancels that packet (355-362), and a walk  *)
(* cancels nothing else, for every input of the bounded sets.             *)
WalkCancelsExactlyPausedAsync ==
  /\ \A in \in WalkInputs :
        LET r == WalkResult(in[1], in[2], in[3]) IN
        ~r.died /\ in[3] # NoTD /\ PausedEdHolds(in[1], in[2], in[3])
          => r.asyncTd = NoTD
  /\ \A in \in WalkInputs :
        LET r == WalkResult(in[1], in[2], in[3]) IN
        ~r.died /\ ~PausedEdHolds(in[1], in[2], in[3]) => r.asyncTd = in[3]

\* The walk depends only on its inputs, so the two checks above are
\* constants TLC evaluates once; each property below requires its check
\* of every step the controller takes.

(* Every frame the controller can run walks its ED lists with a walk that *)
(* ends in Die exactly on the lists the spec calls corrupt.               *)
WalkDiesIffListCorrupt == [][WalkDiesOnExactlyCorruptLists]_vars

(* Every frame the controller can run walks its ED lists with a walk that *)
(* cancels the pending async packet exactly when a paused ED holds it.    *)
WalkCancelsAsyncOfPausedEd == [][WalkCancelsExactlyPausedAsync]_vars
==============================================================================
