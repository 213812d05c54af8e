--------------------------- MODULE MCPanScheduler -----------------------------
(* The positions of the machine, with fewer pans in every area.            *)
EXTENDS PanScheduler

FrontPans == {1}
PrimaryPans == {13}
SecondaryPans == {16}
NoPans == {}
RearPans == {25, 26}
=============================================================================
