------------------------------ MODULE MC_UsbHub ------------------------------
(* Two downstream ports; players 0..5 include both refused values around   *)
(* 1..4; a hub count of 5 makes UsbHub_Initfn fail.                        *)
EXTENDS UsbHub

MCPlayers == 0..5
MCHubCounts == {0, 5}

\* The state without last.  last is written by UsbHub_HandleControl and
\* read by no guard, so two states that differ only in last have the same
\* successors; a run whose properties do not mention last fingerprints
\* states by this view.
HubView == <<claimed, active, wPortStatus, wPortChange, dev, lowSpeed,
             addr, hubState, hubAddr>>
=============================================================================
