--------------------------- MODULE MCElrondToEth ---------------------------
(***************************************************************************)
(* Model-checking instance of ElrondToEth: two relayers that both have to  *)
(* sign, one batch of one deposit, one quorum retry per side and waits of  *)
(* one sub-interval.                                                       *)
(***************************************************************************)
EXTENDS ElrondToEth

MCNumRelayers == 2
MCQuorum == 2
MCNumBatches == 1
MCNumDeposits == 1
MCMaxRetries == 1
MCSplits == 1

\* Rounds of any length, for the safety runs; and, for liveness, rounds in
\* which the leader takes six steps, the fewest with which TLC finds no
\* livelock here.  Spec 4.4 gives ten, which takes TLC much longer.  Four
\* or five livelock (see README).
MCNoMinimumRound == 0
MCStepsPerRound == 6

\* The safety runs leave the unstable period unbounded; the liveness run
\* lets the environment fail for the first eight relayer steps.
MCUnbounded == 0
MCUnstableSteps == 8

=============================================================================
