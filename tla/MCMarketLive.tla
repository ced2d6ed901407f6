---------------------------- MODULE MCMarketLive ----------------------------
(***************************************************************************)
(* LaborMarketV2 with time that passes, keepers that call the exits and    *)
(* owners that withdraw.                                                   *)
(***************************************************************************)
EXTENDS MCLaborMarketV2, LaborMarketV2Watch

LiveSpec ==
    /\ WatchInit
    /\ [][MCNext /\ Watch]_<<vars, late>>
    /\ WF_vars(Waiting /\ Tick)
    /\ ExitsAreCalled
    /\ OwnersCollect
=============================================================================
