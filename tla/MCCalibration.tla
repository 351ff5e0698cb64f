---------------------------- MODULE MCCalibration ----------------------------
(* Finite instances of Calibration. *)
EXTENDS Calibration, TLC

ThreeSessions == "boots" :> 3 @@ "faults" :> 1 @@ "reflections" :> 3 @@ "snapshots" :> 1
OneFork == "boots" :> 2 @@ "faults" :> 1 @@ "reflections" :> 1 @@ "snapshots" :> 0

(* Beyond one reflection, two more reflections or ticks happen in one       *)
(* behaviour, or one of: a reflection, a tick, a snapshot, a fault.  A tick *)
(* and two reflections are left to two sessions.                            *)
FewEvents ==
    LET faults == used["faults"] + used["snapshots"]
        others == clock + Max({1, used["reflections"]}) - 1 IN
    /\ faults + others <= IF faults = 0 THEN 2 ELSE 1
    /\ clock + others = 3 => \E s \in Sessions : phase[s] = "new"
==============================================================================
