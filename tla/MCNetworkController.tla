------------------------- MODULE MCNetworkController -------------------------
(***************************************************************************)
(* Instances of NetworkController: a built-in network or two, and custom   *)
(* networks on two chains, one of which has EIP-1559 blocks.               *)
(***************************************************************************)
EXTENDS NetworkController, TLC

CONSTANTS main, test, x, chain1, chain2, call1, call2

MCOneInfura == {main}
MCTwoInfura == {main, test}
MCOneCustom == {x}
MCNoCustom == {}
MCTwoChains == {chain1, chain2}
MCChainOf == [id \in Infura |-> IF id = main THEN chain1 ELSE chain2]
MCConfigured == [id \in Custom |-> chain2]
MCSupports1559 == {chain1}
MCOneCall == {call1}
MCTwoCalls == {call1, call2}
=============================================================================
