----------------------- MODULE MCTransactionController -----------------------
(***************************************************************************)
(* Instances of TransactionController: two calls with the same actionId.   *)
(* The second one waits for the transaction of the first, or adds its own  *)
(* if they overlap, which then needs no confirmation.                      *)
(***************************************************************************)
EXTENDS TransactionController, TLC

CONSTANTS r1, r2, dapp, wallet, action

MCRequests == {r1, r2}
MCActionOf == [r \in Requests |-> action]
MCOriginOf == [r \in Requests |-> IF r = r1 THEN dapp ELSE wallet]
MCOrigins == {dapp, wallet}
MCTypes == {"transaction"}
MCSkipsApproval == {r2}
MCNone == {}
=============================================================================
