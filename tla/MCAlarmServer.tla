--------------------------- MODULE MCAlarmServer ---------------------------
(* One place for a file at the dispatcher; a recording starts in every second *)
(* round.  A card with two alarms and a restart between; the same settings    *)
(* with pictures and one alarm; intervals and pictures without a card; a card *)
(* that is taken out and put in again, with two alarms.                       *)
EXTENDS AlarmServer

Scenario(c, i, p, a, r, o) ==
    [card |-> c, intervals |-> i, pictures |-> p,
     alarms |-> a, restarts |-> r, removals |-> o]
MCScenarios == {Scenario(TRUE, FALSE, FALSE, 2, 1, 0),
                Scenario(TRUE, FALSE, TRUE, 1, 0, 0),
                Scenario(FALSE, TRUE, TRUE, 1, 1, 0),
                Scenario(TRUE, TRUE, FALSE, 2, 0, 1)}
\* Recordings on the card and nothing else.
MCCardRemoved == {Scenario(TRUE, FALSE, FALSE, 2, 0, 1)}
=============================================================================
