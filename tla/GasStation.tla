----------------------------- MODULE GasStation -----------------------------
(***************************************************************************)
(* bridge/gasManagement/gasStation.go: the gas-price poller.  NewGasStation *)
(* starts processLoop on its own goroutine; the loop fetches the price     *)
(* document over HTTP, stores it under the write lock as latestResponse,   *)
(* and waits requestPollingInterval or the cancellation of its context,    *)
(* which Close triggers.  Any number of callers read the stored document   *)
(* through GetCurrentGasPrice under the read lock.                         *)
(*                                                                         *)
(* The loop is split at its suspension points: the HTTP exchange           *)
(* (doRequestReturningBytes), the parse-and-store of doRequest, and the    *)
(* select at the end of an iteration.  A response is a record of the four  *)
(* selectable prices; its JSON text is abstracted away, a malformed body   *)
(* being one more way doRequest fails.                                     *)
(***************************************************************************)
EXTENDS Naturals

CONSTANTS
    Selectors,        \* the four core.EthGasPriceSelector values
    Selector,         \* args.GasPriceSelector, accepted by checkArgs
    Prices,           \* prices a response may carry
    MaximumGasPrice   \* args.MaximumGasPrice

\* checkArgs: the selector must be one of the four known ones; the polling
\* interval and request time bounds concern timing, which is not modelled.
CheckArgs == Selector \in Selectors

ASSUME CheckArgs /\ Prices \subseteq Nat /\ MaximumGasPrice \in Nat

\* gasStationResponse: one price per selector.
Responses == [Selectors -> Prices]
NoResponse == [s \in {} |-> 0]             \* latestResponse == nil

\* Results (int, error) of GetCurrentGasPrice.
NotFetched == "ErrLatestGasPricesWereNotFetched"
TooHigh    == "ErrGasPriceIsHigherThanTheMaximumSet"
NoError    == "nil"
\* Go convention: an error comes with the zero price.
Answers    == [price : Prices, err : {NoError}]
                \cup [price : {0}, err : {NotFetched, TooHigh}]
NoAnswer   == [price |-> 0, err |-> "none"]    \* no read so far

\* Program points of processLoop.
LoopPoints == {"start", "request", "store", "select", "waiting", "stopped"}

VARIABLES
    loopPc,          \* where the processLoop goroutine is
    loopStatus,      \* gs.loopStatus flag
    ctxDone,         \* the loop's context was cancelled (Close)
    body,            \* the response the HTTP exchange returned, to be stored
    latestResponse,  \* gs.latestResponse
    answer           \* what the last GetCurrentGasPrice returned

vars == <<loopPc, loopStatus, ctxDone, body, latestResponse, answer>>

TypeOK ==
    /\ loopPc \in LoopPoints
    /\ loopStatus \in BOOLEAN
    /\ ctxDone \in BOOLEAN
    /\ body \in Responses \cup {NoResponse}
    /\ latestResponse \in Responses \cup {NoResponse}
    /\ answer \in Answers \cup {NoAnswer}

\* NewGasStation returned; the goroutine it started has not run yet.
Init ==
    /\ loopPc = "start"
    /\ loopStatus = FALSE
    /\ ctxDone = FALSE
    /\ body = NoResponse
    /\ latestResponse = NoResponse
    /\ answer = NoAnswer

\* processLoop entry: loopStatus.Set().
LoopStart ==
    /\ loopPc = "start"
    /\ loopStatus' = TRUE
    /\ loopPc' = "request"
    /\ UNCHANGED <<ctxDone, body, latestResponse, answer>>

\* doRequestReturningBytes under a context derived from the loop's: the
\* request fails (timeout, transport error, cancelled context) or returns
\* the provider's current document.
DoRequestReturningBytes ==
    /\ loopPc = "request"
    /\ \/ loopPc' = "select" /\ UNCHANGED body
       \/ /\ ~ctxDone
          /\ \E r \in Responses : body' = r
          /\ loopPc' = "store"
    /\ UNCHANGED <<loopStatus, ctxDone, latestResponse, answer>>

\* The rest of doRequest: json.Unmarshal, which may fail, then the store of
\* the response under the write lock.
DoRequestStore ==
    /\ loopPc = "store"
    /\ \/ UNCHANGED latestResponse                  \* Unmarshal error
       \/ latestResponse' = body
    /\ body' = NoResponse
    /\ loopPc' = "select"
    /\ UNCHANGED <<loopStatus, ctxDone, answer>>

\* A select at the end of an iteration that never looks at ctx.Done.
LoopSelectIgnoringDone ==
    /\ loopPc = "select"
    /\ loopPc' = "waiting"
    /\ UNCHANGED <<loopStatus, ctxDone, body, latestResponse, answer>>

\* The select at the end of an iteration.  A context cancelled before it
\* is ready at once while the fresh time.After timer is not: the loop
\* returns and its deferred loopStatus.Unset() runs.
LoopSelect ==
    /\ loopPc = "select"
    /\ IF ctxDone THEN loopPc' = "stopped" /\ loopStatus' = FALSE
                  ELSE loopPc' = "waiting" /\ UNCHANGED loopStatus
    /\ UNCHANGED <<ctxDone, body, latestResponse, answer>>

\* Inside the select: the polling interval elapses, or the context is
\* cancelled meanwhile.  Both may be ready together, and Go then picks one
\* at random.
LoopWait ==
    /\ loopPc = "waiting"
    /\ \/ loopPc' = "request" /\ UNCHANGED loopStatus
       \/ ctxDone /\ loopPc' = "stopped" /\ loopStatus' = FALSE
    /\ UNCHANGED <<ctxDone, body, latestResponse, answer>>

\* Close: gs.cancel().
Close ==
    /\ ~ctxDone
    /\ ctxDone' = TRUE
    /\ UNCHANGED <<loopPc, loopStatus, body, latestResponse, answer>>

\* A GetCurrentGasPrice that returns the fetched price with the error.
GetCurrentGasPriceKeepsPrice ==
    answer' =
        CASE latestResponse = NoResponse -> [price |-> 0, err |-> NotFetched]
          [] latestResponse[Selector] > MaximumGasPrice ->
                           [price |-> latestResponse[Selector], err |-> TooHigh]
          [] OTHER -> [price |-> latestResponse[Selector], err |-> NoError]

\* GetCurrentGasPrice under the read lock.  checkArgs admits only the four
\* known selectors, so the invalid-selector branch cannot be taken.
GetCurrentGasPrice ==
    answer' =
        CASE latestResponse = NoResponse -> [price |-> 0, err |-> NotFetched]
          [] latestResponse[Selector] > MaximumGasPrice ->
                                            [price |-> 0, err |-> TooHigh]
          [] OTHER -> [price |-> latestResponse[Selector], err |-> NoError]

Read ==
    /\ GetCurrentGasPrice
    /\ UNCHANGED <<loopPc, loopStatus, ctxDone, body, latestResponse>>

LoopStep ==
    \/ LoopStart
    \/ DoRequestReturningBytes
    \/ DoRequestStore
    \/ LoopSelect
    \/ LoopWait

Next == LoopStep \/ Close \/ Read

\* The goroutine is scheduled and its timers fire: weak fairness of the
\* loop.  Nothing obliges anyone to call Close or GetCurrentGasPrice.
Spec == Init /\ [][Next]_vars /\ WF_vars(LoopStep)

-----------------------------------------------------------------------------
(* Properties                                                              *)

\* "The poller is cancellable and stops cleanly": once Close cancelled the
\* context, processLoop returns and unsets loopStatus, whether Close came
\* during the HTTP call, the store or the wait.
LoopStopsAfterClose == ctxDone ~> (loopPc = "stopped" /\ ~loopStatus)

=============================================================================
