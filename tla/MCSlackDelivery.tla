---------------------------- MODULE MCSlackDelivery ----------------------------
(***************************************************************************)
(* SlackDelivery for TLC: one event, delivered three times to two          *)
(* processes whose records hold one id.                                    *)
(***************************************************************************)
EXTENDS SlackDelivery

CONSTANTS e1, p1, p2

OneEvent == {e1}
TwoProcesses == {p1, p2}
LambdaOnly == {"lambda"}

=============================================================================
