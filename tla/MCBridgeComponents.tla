------------------------ MODULE MCBridgeComponents -------------------------
(***************************************************************************)
(* Model-checking instance of BridgeComponents: the gas station enabled,   *)
(* with the selectors and prices of GasStation.cfg.                        *)
(***************************************************************************)
EXTENDS BridgeComponents

CONSTANTS fast, safeLow

MCSelectors == {fast, safeLow}
MCPrices == {50, 200}

=============================================================================
