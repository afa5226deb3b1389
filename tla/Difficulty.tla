----------------------------- MODULE Difficulty -----------------------------
(***************************************************************************)
(* Difficulty retargeting: models/difficulty.rs. The constants stand for   *)
(* 2016 blocks, 600 s, a factor of 4, and difficulties 4 to 64.            *)
(***************************************************************************)
EXTENDS Integers

CONSTANTS RetargetInterval, TargetBlockTime, MaxAdjustmentFactor,
          MinDifficulty, MaxDifficulty

ASSUME DifficultyAssumption ==
    /\ RetargetInterval \in Nat \ {0}
    /\ TargetBlockTime \in Nat \ {0}
    /\ MaxAdjustmentFactor \in 1..(RetargetInterval * TargetBlockTime)
    /\ MinDifficulty \in Nat
    /\ MaxDifficulty \in Nat
    /\ MinDifficulty <= MaxDifficulty

TargetTimespan == RetargetInterval * TargetBlockTime

Clamp(x, lo, hi) == IF x < lo THEN lo ELSE IF x > hi THEN hi ELSE x

\* Scaled by 1000 and rounded to the nearest difficulty, in integers.
CalculateNextDifficulty(current, timespan) ==
    LET clamped == Clamp(timespan, TargetTimespan \div MaxAdjustmentFactor,
                                   TargetTimespan * MaxAdjustmentFactor)
        scaled  == (current * 1000 * TargetTimespan) \div clamped
    IN  Clamp((scaled + 500) \div 1000, MinDifficulty, MaxDifficulty)

IsRetargetBlock(height) == height > 0 /\ height % RetargetInterval = 0
=============================================================================
