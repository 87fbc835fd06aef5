---------------------------- MODULE MCStatsFile ----------------------------
(***************************************************************************)
(* An instance of StatsFile.                                               *)
(***************************************************************************)
EXTENDS StatsFile

\* A star larger than both split limits, and a second one on the same tables.
MCEsets == << {<<t, 1>> : t \in 1..5}, {<<1, 2>>, <<2, 2>>} >>

MCSettings ==
    {[RefreshStatistics |-> refresh, EnableStarSplit |-> size # 0,
      MaxStarSize |-> IF size = 0 THEN 3 ELSE size, CompressPrecision |-> precision,
      UseAssignedAdjustRate |-> assigned] :
        refresh \in BOOLEAN, size \in {0, 3, 4}, precision \in {2, 3},
        assigned \in BOOLEAN}
=============================================================================
