------------------------------ MODULE MCWorkspace -----------------------------
(* A small instance of Workspace for TLC.                                   *)
EXTENDS Workspace, TLC

CONSTANTS c1, c2, c3, b1, b2, s1

ThreeCards == <<c1, c2, c3>>
TwoBranches == <<b1, b2>>
TwoAndOne == c1 :> b1 @@ c2 :> b1 @@ c3 :> b2
OneScenario == <<s1>>
ScenarioBranch == s1 :> b2

\* "c" is in the text of every card and begins the label of a guide, "d" is the
\* scenario's label, "x" is nowhere: more than the limit, one and no result.
Matches ==
    LET Kind(t, l) ==
            CASE t = "c" /\ l \in ToSet(RecallCommands)   -> "text"
              [] t = "c" /\ l = Guide(b2)                 -> "start"
              [] t = "d" /\ l \in ToSet(ScenarioCommands) -> "label"
              [] OTHER                                    -> "none"
    IN [t \in {"c", "d", "x"} |-> [l \in ToSet(WorkspaceCommands) |-> Kind(t, l)]]

Backwards ==
    [l \in ToSet(WorkspaceCommands) |->
        100 - CHOOSE i \in DOMAIN WorkspaceCommands : WorkspaceCommands[i] = l]

\* Over every XP up to beyond the last rank.
ASSUME RankAssumption ==
    \A xp \in 0 .. Thresholds[Len(Thresholds)] + 1 : RankIsExact(xp)
=============================================================================
