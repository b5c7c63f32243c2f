----------------------------- MODULE YieldCurve -----------------------------
(***************************************************************************)
(* The yield curve (contracts/dpos/precompiled/yield_curve.go): the yield  *)
(* rate of an epoch, with 6 decimals, and the reward of a block.           *)
(***************************************************************************)
EXTENDS Naturals

CONSTANTS
  EpochLength,     (* blocks per epoch, 10,000,000 in the code             *)
  BlocksPerYear

ASSUME CurveAssumption == EpochLength \in Nat \ {0} /\ BlocksPerYear \in Nat \ {0}

YieldFractionDecimalPrecision == 1000000
MinYieldValue == 10000
MaxEpoch == 37

EblaYieldTable ==
  << 70000, 66500, 63175, 60016, 57015, 54164, 51456, 48883, 46439, 44117,
     41911, 39816, 37825, 35933, 34137, 32430, 30808, 29268, 27805, 26414,
     25094, 23839, 22647, 21514, 20439, 19417, 18446, 17524, 16647, 15815,
     15024, 14273, 13559, 12881, 12237, 11625, 11044, 10492 >>

(* Mutant of calculateCurrentYield: the floor starts one epoch late, with  *)
(* the last entry of the table kept until then.                            *)
calculateCurrentYieldLate(block_num) ==
  LET epoch == block_num \div EpochLength
  IN  IF epoch > MaxEpoch + 1 THEN MinYieldValue
      ELSE EblaYieldTable[IF epoch > MaxEpoch THEN MaxEpoch ELSE epoch + 1]

(* The table is indexed from 0 in the code.                                *)
calculateCurrentYield(block_num) ==
  LET epoch == block_num \div EpochLength
  IN  IF epoch > MaxEpoch THEN MinYieldValue ELSE EblaYieldTable[epoch + 1]

CalculateBlockReward(delegated, block_num) ==
  (delegated * calculateCurrentYield(block_num))
    \div (YieldFractionDecimalPrecision * BlocksPerYear)

=============================================================================
