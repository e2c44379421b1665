---------------------------- MODULE MCPonsClient ----------------------------
(***************************************************************************)
(* One error of errorsABIJSON for each of the lists of types that occur in *)
(* it with other decoders or another number of words.                      *)
(***************************************************************************)
EXTENDS PonsClient

MCInputs ==
    [NotVestBeneficiary |-> <<>>,
     TimelockNotElapsed |-> <<"uint256">>,
     OwnableInvalidOwner |-> <<"address">>,
     PairTokenDecimalsMismatch |-> <<"uint8", "uint8">>,
     LaunchEconomicsMismatch |-> <<"bytes32", "bytes32">>,
     InexactTransfer |-> <<"address", "uint256", "uint256">>]
=============================================================================
