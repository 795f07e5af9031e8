-------------------------- MODULE BridgeComponents --------------------------
(***************************************************************************)
(* factory/ethElrondBridgeComponents.go: NewEthElrondBridgeComponents      *)
(* builds the relayer's components one after another and returns the      *)
(* first error.  Three of the builders start a background loop: the Elrond *)
(* and the Ethereum role providers each start a polling handler, kept in   *)
(* pollingHandlers, and createEthereumClient starts the gas station, kept  *)
(* by the Ethereum client as its gas handler.  When a builder fails the    *)
(* constructor returns nil: the components, and with them every handle on  *)
(* a loop already started, are dropped.                                    *)
(*                                                                         *)
(* Keys, clients and mappers are abstracted to "this builder succeeded";   *)
(* what is tracked is which loops run and which the components still own.  *)
(***************************************************************************)
EXTENDS Naturals, Sequences, Functions

CONSTANTS
    GasStationEnabled,  \* GasStation.Enabled of the Ethereum config
    Selectors, Selector, Prices, MaximumGasPrice   \* as in GasStation

ASSUME GasStationEnabled \in BOOLEAN

\* Background loops the constructor can start.
ElrondRolePolling == "ElrondRoleProviderPolling"
EthRolePolling    == "EthereumRoleProviderPolling"
GasStationLoop    == "GasStationProcessLoop"
Loops == {ElrondRolePolling, EthRolePolling, GasStationLoop}

\* The builders, in the order NewEthElrondBridgeComponents calls them.
Stages == <<"checkArgs", "createElrondKeysAndAddresses", "createDataGetter",
            "createElrondClient", "createElrondRoleProvider",
            "createEthereumRoleProvider", "createEthereumClient">>

VARIABLES
    stage,            \* index in Stages of the next builder to run
    result,           \* "pending", then "ok" or "err" as returned
    started,          \* loops started in the background
    pollingHandlers,  \* components.pollingHandlers
    gasHandler,       \* loops held by the Ethereum client (its GasHandler)
    \* the gas station's own state, see GasStation
    loopPc, loopStatus, ctxDone, body, latestResponse, answer

gasVars == <<loopPc, loopStatus, ctxDone, body, latestResponse, answer>>
vars == <<stage, result, started, pollingHandlers, gasHandler, gasVars>>

GS == INSTANCE GasStation

TypeOK ==
    /\ stage \in DOMAIN Stages
    /\ result \in {"pending", "ok", "err"}
    /\ started \subseteq Loops
    /\ pollingHandlers \in Seq({ElrondRolePolling, EthRolePolling})
    /\ gasHandler \subseteq {GasStationLoop}
    /\ GS!TypeOK

Init ==
    /\ stage = 1
    /\ result = "pending"
    /\ started = {}
    /\ pollingHandlers = <<>>
    /\ gasHandler = {}
    /\ GS!Init

\* The constructor returns (nil, err): the caller gets no components.
Refuse ==
    /\ result' = "err"
    /\ pollingHandlers' = <<>>
    /\ gasHandler' = {}
    /\ UNCHANGED <<stage, started>>

Proceed == stage' = stage + 1 /\ UNCHANGED <<result, started, pollingHandlers, gasHandler>>

\* A builder without background work: checkArgs, createElrondKeysAndAddresses,
\* createDataGetter and createElrondClient each succeed or return an error.
BuildPlain ==
    /\ result = "pending"
    /\ Stages[stage] \in {"checkArgs", "createElrondKeysAndAddresses",
                          "createDataGetter", "createElrondClient"}
    /\ Proceed \/ Refuse

\* A role-provider builder run whatever builder is due (called twice, or
\* out of order).
CreateRoleProviderOutOfOrder(name, loop) ==
    /\ result = "pending"
    /\ \/ Refuse
       \/ /\ started' = started \cup {loop}
          /\ pollingHandlers' = Append(pollingHandlers, loop)
          /\ stage' = stage + 1
          /\ UNCHANGED <<result, gasHandler>>

\* createElrondRoleProvider / createEthereumRoleProvider: the role provider
\* and the polling handler may fail to be built; the handler is appended to
\* pollingHandlers before StartProcessingLoop, whose error is returned.
CreateRoleProvider(name, loop) ==
    /\ result = "pending"
    /\ Stages[stage] = name
    /\ \/ Refuse                  \* provider, handler or StartProcessingLoop error
       \/ /\ started' = started \cup {loop}
          /\ pollingHandlers' = Append(pollingHandlers, loop)
          /\ stage' = stage + 1
          /\ UNCHANGED <<result, gasHandler>>

CreateElrondRoleProvider == CreateRoleProvider("createElrondRoleProvider", ElrondRolePolling)
CreateEthereumRoleProvider == CreateRoleProvider("createEthereumRoleProvider", EthRolePolling)

\* gasManagement/factory.CreateGasStation: a gas station whose processLoop
\* starts at once, or a disabled one with no loop.
StartedByCreateGasStation == IF GasStationEnabled THEN {GasStationLoop} ELSE {}

\* An Ethereum client built without the gas station it was given.
CreateEthereumClientDroppingGas ==
    /\ result = "pending"
    /\ Stages[stage] = "createEthereumClient"
    /\ \/ Refuse
       \/ /\ started' = started \cup StartedByCreateGasStation
          /\ \/ Refuse
             \/ /\ result' = "ok"
                /\ UNCHANGED <<stage, pollingHandlers, gasHandler>>

\* createEthereumClient: CreateGasStation may fail; after it started the gas
\* station, NewBroadcaster, reading and parsing the private key, the token
\* mapper or NewEthereumClient may still fail.  On success the client holds
\* the gas station and the constructor returns the components.
CreateEthereumClient ==
    /\ result = "pending"
    /\ Stages[stage] = "createEthereumClient"
    /\ \/ Refuse                                    \* CreateGasStation error
       \/ /\ started' = started \cup StartedByCreateGasStation
          /\ \/ /\ result' = "err"                  \* a later builder error
                /\ pollingHandlers' = <<>>
                /\ UNCHANGED <<stage, gasHandler>>
             \/ /\ result' = "ok"
                /\ gasHandler' = StartedByCreateGasStation
                /\ UNCHANGED <<stage, pollingHandlers>>

Construct ==
    /\ \/ BuildPlain
       \/ CreateElrondRoleProvider
       \/ CreateEthereumRoleProvider
       \/ CreateEthereumClient
    /\ UNCHANGED gasVars

\* The gas station's goroutine runs once CreateGasStation started it,
\* whether or not the construction went on to succeed.
GasLoop ==
    /\ GasStationLoop \in started
    /\ GS!LoopStep
    /\ UNCHANGED <<stage, result, started, pollingHandlers, gasHandler>>

\* Only the owner of the gas station, the Ethereum client of returned
\* components, can read its price or close it.
GasOwnerCall ==
    /\ result = "ok"
    /\ GasStationLoop \in gasHandler
    /\ GS!Read \/ GS!Close
    /\ UNCHANGED <<stage, result, started, pollingHandlers, gasHandler>>

Next == Construct \/ GasLoop \/ GasOwnerCall

\* The constructor runs once; the loops it started run on.
Spec == Init /\ [][Next]_vars

-----------------------------------------------------------------------------
(* Properties                                                              *)

Owned == Range(pollingHandlers) \cup gasHandler

\* Components that NewEthElrondBridgeComponents returns own every loop it
\* started: both role-provider polling handlers sit in pollingHandlers and
\* the gas station in the Ethereum client, so whoever holds the components
\* can reach every loop started on their behalf.
ReturnedComponentsOwnTheirLoops == result = "ok" => started \subseteq Owned

\* Spec section 7: construction errors are fatal and "the constructor
\* refuses".  A refused construction should leave nothing behind: no loop
\* it started keeps running once it returned nil.
RefusedConstructionStartsNothing == result = "err" => started = {}

=============================================================================
