------------------------- MODULE LaborMarketV2Watch -------------------------
(***************************************************************************)
(* LaborMarketV2 with a watch on its keepers: `late' remembers whether the *)
(* clock ever moved while an exit was open, that is, whether they dawdled. *)
(***************************************************************************)
EXTENDS LaborMarketV2Props

VARIABLE late

Watch == late' = (late \/ (Overdue /\ now' # now))

WatchInit == Init /\ late = FALSE
WatchSpec == WatchInit /\ [][Next /\ Watch]_<<vars, late>>

(* With keepers that take every exit before the clock moves on, no job      *)
(* outlives the sum of the windows, whatever a griefer does in between.     *)
DiesOfOldAge == ~late => NoneOutlivesIt
=============================================================================
