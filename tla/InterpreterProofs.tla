--------------------------- MODULE InterpreterProofs ---------------------------
(***************************************************************************)
(* Proofs about Interpreter, for every set of codes, operands and gas, and *)
(* every width of words: that the memory table covers what instructions    *)
(* use, that runs never share memory of the pool, that nothing is written  *)
(* inside a STATICCALL, that control never reaches the data of a PUSHn,    *)
(* and that gas runs out.                                                  *)
(***************************************************************************)
EXTENDS Interpreter, FiniteSums, SequenceTheorems

Word == 0..MaxWord
Region == Word \X Word

-----------------------------------------------------------------------------
(* The instruction set.                                                    *)

\* The groups of instructions the tables distinguish.
LEMMA InstructionKinds ==
  ASSUME NEW i \in Instructions
  PROVE  \/ i.op \in BinaryOps \/ i.op \in TernaryOps \/ i.op \in UnaryOps \/ i.op \in NullaryOps
         \/ i.op \in CopyOps \/ i.op \in CallOps \/ i.op \in CreateOps
         \/ i.op \in {"KECCAK256", "EXTCODECOPY", "POP", "MSTORE", "MSTORE8", "SSTORE", "TSTORE", "JUMP",
                      "JUMPI", "JUMPDEST", "STOP", "RETURN", "REVERT", "SELFDESTRUCT"}
         \/ i.op \in {"PUSH", "DUP", "SWAP", "LOG"} /\ i.n \in Nat
BY InterpreterAssumption DEF Instructions, PushOps, DupOps, SwapOps, LogOps, Family, I

\* What validateStack checks is what an instruction does to the stack.
LEMMA StackChecked ==
  ASSUME NEW i \in Instructions
  PROVE  /\ StackFunc(i)[1] \in Nat /\ StackFunc(i)[2] \in Nat
         /\ StackEffect(i).leaves = StackFunc(i)[2] - StackFunc(i)[1]
         /\ StackEffect(i).uses <= StackFunc(i)[1]
<1> USE DEF BinaryOps, TernaryOps, UnaryOps, NullaryOps, CopyOps
<1>1. CASE i.op \in BinaryOps
  <2>1. StackFunc(i) = <<2, 1>>
    BY <1>1 DEF StackFunc
  <2>2. StackEffect(i) = [uses |-> 2, leaves |-> 1 - 2]
    BY <1>1 DEF StackEffect, Pop
  <2> QED BY <1>1, <2>1, <2>2
<1>2. CASE i.op \in TernaryOps
  <2>1. StackFunc(i) = <<3, 1>>
    BY <1>2 DEF StackFunc
  <2>2. StackEffect(i) = [uses |-> 3, leaves |-> 1 - 3]
    BY <1>2 DEF StackEffect, Pop
  <2> QED BY <1>2, <2>1, <2>2
<1>3. CASE i.op \in UnaryOps
  <2>1. StackFunc(i) = <<1, 1>>
    BY <1>3 DEF StackFunc
  <2>2. StackEffect(i) = [uses |-> 1, leaves |-> 1 - 1]
    BY <1>3 DEF StackEffect, Pop
  <2> QED BY <1>3, <2>1, <2>2
<1>4. CASE i.op \in NullaryOps
  <2>1. StackFunc(i) = <<0, 1>>
    BY <1>4 DEF StackFunc
  <2>2. StackEffect(i) = [uses |-> 0, leaves |-> 1 - 0]
    BY <1>4 DEF StackEffect, Pop
  <2> QED BY <1>4, <2>1, <2>2
<1>5. CASE i.op \in CopyOps
  <2>1. StackFunc(i) = <<3, 0>>
    BY <1>5 DEF StackFunc
  <2>2. StackEffect(i) = [uses |-> 3, leaves |-> 0 - 3]
    BY <1>5 DEF StackEffect, Pop
  <2> QED BY <1>5, <2>1, <2>2
<1>6. CASE i.op \in {"CALL", "CALLCODE"}
  <2>1. StackFunc(i) = <<7, 1>>
    BY <1>6 DEF StackFunc
  <2>2. StackEffect(i) = [uses |-> 7, leaves |-> 1 - 7]
    BY <1>6 DEF StackEffect, Pop
  <2> QED BY <1>6, <2>1, <2>2
<1>7. CASE i.op \in {"DELEGATECALL", "STATICCALL"}
  <2>1. StackFunc(i) = <<6, 1>>
    BY <1>7 DEF StackFunc
  <2>2. StackEffect(i) = [uses |-> 6, leaves |-> 1 - 6]
    BY <1>7 DEF StackEffect, Pop
  <2> QED BY <1>7, <2>1, <2>2
<1>8. CASE i.op = "CREATE"
  <2>1. StackFunc(i) = <<3, 1>>
    BY <1>8 DEF StackFunc
  <2>2. StackEffect(i) = [uses |-> 3, leaves |-> 1 - 3]
    BY <1>8 DEF StackEffect, Pop
  <2> QED BY <1>8, <2>1, <2>2
<1>9. CASE i.op = "CREATE2"
  <2>1. StackFunc(i) = <<4, 1>>
    BY <1>9 DEF StackFunc
  <2>2. StackEffect(i) = [uses |-> 4, leaves |-> 1 - 4]
    BY <1>9 DEF StackEffect, Pop
  <2> QED BY <1>9, <2>1, <2>2
<1>10. CASE i.op = "KECCAK256"
  <2>1. StackFunc(i) = <<2, 1>>
    BY <1>10 DEF StackFunc
  <2>2. StackEffect(i) = [uses |-> 2, leaves |-> 1 - 2]
    BY <1>10 DEF StackEffect, Pop
  <2> QED BY <1>10, <2>1, <2>2
<1>11. CASE i.op = "EXTCODECOPY"
  <2>1. StackFunc(i) = <<4, 0>>
    BY <1>11 DEF StackFunc
  <2>2. StackEffect(i) = [uses |-> 4, leaves |-> 0 - 4]
    BY <1>11 DEF StackEffect, Pop
  <2> QED BY <1>11, <2>1, <2>2
<1>12. CASE i.op \in {"POP", "JUMP", "SELFDESTRUCT"}
  <2>1. StackFunc(i) = <<1, 0>>
    BY <1>12 DEF StackFunc
  <2>2. StackEffect(i) = [uses |-> 1, leaves |-> 0 - 1]
    BY <1>12 DEF StackEffect, Pop
  <2> QED BY <1>12, <2>1, <2>2
<1>13. CASE i.op \in {"MSTORE", "MSTORE8", "SSTORE", "TSTORE", "JUMPI", "RETURN", "REVERT"}
  <2>1. StackFunc(i) = <<2, 0>>
    BY <1>13 DEF StackFunc
  <2>2. StackEffect(i) = [uses |-> 2, leaves |-> 0 - 2]
    BY <1>13 DEF StackEffect, Pop
  <2> QED BY <1>13, <2>1, <2>2
<1>14. CASE i.op \in {"STOP", "JUMPDEST"}
  <2>1. StackFunc(i) = <<0, 0>>
    BY <1>14 DEF StackFunc
  <2>2. StackEffect(i) = [uses |-> 0, leaves |-> 0 - 0]
    BY <1>14 DEF StackEffect, Pop
  <2> QED BY <1>14, <2>1, <2>2
<1>15. CASE i.op = "PUSH"
  <2>1. StackFunc(i) = <<0, 1>>
    BY <1>15 DEF StackFunc
  <2>2. StackEffect(i) = [uses |-> 0, leaves |-> 1 - 0]
    BY <1>15 DEF StackEffect, Pop
  <2> QED BY <1>15, <2>1, <2>2
<1>16. CASE i.op = "DUP" /\ i.n \in Nat
  <2>1. StackFunc(i) = <<i.n, i.n + 1>>
    BY <1>16 DEF StackFunc
  <2>2. StackEffect(i) = [uses |-> i.n, leaves |-> 1]
    BY <1>16 DEF StackEffect, Pop
  <2> QED BY <1>16, <2>1, <2>2
<1>17. CASE i.op = "SWAP" /\ i.n \in Nat
  <2>1. StackFunc(i) = <<i.n + 1, i.n + 1>>
    BY <1>17 DEF StackFunc
  <2>2. StackEffect(i) = [uses |-> i.n + 1, leaves |-> 0]
    BY <1>17 DEF StackEffect, Pop
  <2> QED BY <1>17, <2>1, <2>2
<1>18. CASE i.op = "LOG" /\ i.n \in Nat
  <2>1. StackFunc(i) = <<i.n + 2, 0>>
    BY <1>18 DEF StackFunc
  <2>2. StackEffect(i) = [uses |-> i.n + 2, leaves |-> 0 - (i.n + 2)]
    BY <1>18 DEF StackEffect, Pop
  <2> QED BY <1>18, <2>1, <2>2
<1> QED
  BY <1>1, <1>2, <1>3, <1>4, <1>5, <1>6, <1>7, <1>8, <1>9, <1>10, <1>11, <1>12, <1>13, <1>14,
     <1>15, <1>16, <1>17, <1>18, InstructionKinds DEF CallOps, CreateOps

-----------------------------------------------------------------------------
(* Gas.                                                                    *)

\* A word as uint64.
LEMMA U64Facts ==
  ASSUME NEW w \in Int
  PROVE  U64(w) \in 0..MaxU64 /\ (w \in 0..MaxU64 => U64(w) = w)
<1>1. MaxU64 + 1 \in Nat \ {0}
  BY InterpreterAssumption
<1>2. \A m \in Nat \ {0} : w % m \in 0..(m - 1) /\ (w \in 0..(m - 1) => w % m = w)
  OBVIOUS
<1> QED
  BY <1>1, <1>2, InterpreterAssumption DEF U64

\* SafeAdd gives the sum or Overflow.
LEMMA SafeAddFacts ==
  ASSUME NEW a \in Nat \cup {Overflow}, NEW b \in Nat \cup {Overflow}
  PROVE  /\ SafeAdd(a, b) \in (0..MaxU64) \cup {Overflow}
         /\ SafeAdd(a, b) # Overflow => /\ SafeAdd(a, b) = a + b /\ a \in Nat /\ b \in Nat
BY InterpreterAssumption DEF SafeAdd, Overflow

\* SafeMul gives the product or Overflow.
LEMMA SafeMulFacts ==
  ASSUME NEW a \in Nat, NEW b \in Nat
  PROVE  /\ SafeMul(a, b) \in (0..MaxU64) \cup {Overflow}
         /\ SafeMul(a, b) # Overflow => SafeMul(a, b) = a * b
<1>1. a * b \in Nat
  OBVIOUS
<1> QED
  BY <1>1, InterpreterAssumption DEF SafeMul, Overflow

\* Words hold the bytes they were counted for.
LEMMA WordsCover ==
  ASSUME NEW size \in 0..MaxU64
  PROVE  /\ toWordSize(size) \in Nat
         /\ SafeMul(toWordSize(size), 32) \in (0..MaxU64) \cup {Overflow}
         /\ SafeMul(toWordSize(size), 32) # Overflow => SafeMul(toWordSize(size), 32) >= size
<1>1. toWordSize(size) \in Nat
  BY InterpreterAssumption DEF toWordSize
<1>2. CASE size > MaxU64 - 31
  <2>1. (MaxU64 \div 32 + 1) * 32 > MaxU64
    BY InterpreterAssumption
  <2>2. SafeMul(toWordSize(size), 32) = Overflow
    BY <1>2, <2>1 DEF toWordSize, SafeMul
  <2> QED
    BY <1>1, <2>2, SafeMulFacts
<1>3. CASE ~(size > MaxU64 - 31)
  <2>1. ((size + 31) \div 32) * 32 >= size
    BY InterpreterAssumption
  <2> QED
    BY <1>1, <1>3, <2>1, SafeMulFacts DEF toWordSize
<1> QED
  BY <1>2, <1>3

\* The price of a length.
LEMMA WordGasType ==
  ASSUME NEW len \in Nat, NEW price \in Nat
  PROVE  WordGas(len, price) \in (0..MaxU64) \cup {Overflow}
BY WordsCover, SafeMulFacts, InterpreterAssumption DEF WordGas

\* The price of memory, and that a size with a price is a size of memory.
LEMMA MemoryPriced ==
  ASSUME NEW m, m.len \in Nat, m.fee \in Nat, NEW size \in (0..MaxU64) \cup {Overflow}
  PROVE  /\ TotalFee(size) \in 0..MaxU64 \/ size = Overflow
         /\ size # Overflow => memoryGasCost(m, size) \in (0..MaxU64) \cup {Overflow}
         /\ size # Overflow /\ memoryGasCost(m, size) # Overflow => size \in 0..MaxMemorySize
<1> SUFFICES ASSUME size \in 0..MaxU64
             PROVE  /\ TotalFee(size) \in 0..MaxU64
                    /\ memoryGasCost(m, size) \in (0..MaxU64) \cup {Overflow}
                    /\ memoryGasCost(m, size) # Overflow => size \in 0..MaxMemorySize
  OBVIOUS
<1>1. toWordSize(size) \in Nat
  BY WordsCover
<1>2. TotalFee(size) \in 0..MaxU64
  <2>1. toWordSize(size) * toWordSize(size) \in Nat
    BY <1>1
  <2>2. U64(toWordSize(size) * toWordSize(size)) \in Nat
    BY <2>1, U64Facts
  <2>3. 3 * toWordSize(size) + U64(toWordSize(size) * toWordSize(size)) \div 512 \in Int
    BY <1>1, <2>2
  <2> QED
    BY <2>3, U64Facts DEF TotalFee
<1>3. TotalFee(size) - m.fee \in Int
  BY <1>2
<1>4. U64(TotalFee(size) - m.fee) \in 0..MaxU64
  BY <1>3, U64Facts
<1> QED
  BY <1>2, <1>4, InterpreterAssumption DEF memoryGasCost, Overflow

\* Every instruction that does not end a run has a price.
LEMMA InstructionsCost ==
  ASSUME NEW i \in Instructions, NEW x, NEW extra \in Extra(i, x)
  PROVE  /\ extra \in Nat /\ Constant(i) \in Nat
         /\ i.op \notin {"STOP", "RETURN", "REVERT"} => Constant(i) + extra >= 1
         /\ i.op \in CallOps \cup CreateOps => Constant(i) >= 700
         /\ i.op \in {"CALL", "CALLCODE"} /\ x[3] # 0 => extra >= 9000
<1>1. /\ extra \in Nat
      /\ i.op = "SSTORE" => extra >= 1
      /\ i.op \in {"CALL", "CALLCODE"} /\ x[3] # 0 => extra >= 9000
  BY DEF Extra, Value
<1>2. /\ Constant(i) \in Nat
      /\ i.op \notin {"STOP", "RETURN", "REVERT", "SSTORE"} => Constant(i) >= 1
      /\ i.op \in CallOps \cup CreateOps => Constant(i) >= 700
  <2> USE DEF BinaryOps, TernaryOps, UnaryOps, NullaryOps, CopyOps, CallOps, CreateOps
  <2>1. i.op = "LOG" => i.n \in Nat
    BY InstructionKinds
  <2>2. CASE i.op = "LOG"
    <3>1. Constant(i) = 375 + i.n * 375
      BY <2>2 DEF Constant
    <3> QED
      BY <2>1, <2>2, <3>1
  <2>3. CASE i.op \in CallOps
    <3>1. Constant(i) = 700
      BY <2>3 DEF Constant
    <3> QED
      BY <2>3, <3>1
  <2>4. CASE i.op \in CreateOps
    <3>1. Constant(i) = 32000
      BY <2>4 DEF Constant
    <3> QED
      BY <2>4, <3>1
  <2>5. CASE i.op \in {"STOP", "RETURN", "REVERT", "SSTORE"}
    <3>1. Constant(i) = 0
      BY <2>5 DEF Constant
    <3> QED
      BY <2>5, <3>1
  <2>6. CASE i.op \notin CallOps \cup CreateOps \cup {"LOG", "STOP", "RETURN", "REVERT", "SSTORE"}
    <3>1. Constant(i) \in {1, 2, 3, 5, 6, 8, 10, 20, 100, 700, 800, 5000}
      BY <2>6 DEF Constant
    <3> HIDE DEF CallOps, CreateOps
    <3> QED
      BY <2>6, <3>1
  <2> QED
    BY <2>2, <2>3, <2>4, <2>5, <2>6
<1>3. i.op \notin {"STOP", "RETURN", "REVERT"} => Constant(i) + extra >= 1
  <2>1. CASE i.op = "SSTORE"
    BY <2>1, <1>1, <1>2
  <2>2. CASE i.op \notin {"STOP", "RETURN", "REVERT", "SSTORE"}
    BY <2>2, <1>1, <1>2
  <2> QED
    BY <2>1, <2>2
<1> QED
  BY <1>1, <1>2, <1>3

-----------------------------------------------------------------------------
(* Operands.                                                               *)

\* Regions of memory and lengths are words.
Typed(i, x) ==
  /\ Accesses(i, x) \subseteq Region
  /\ i.op \in CallOps => Out(i, x) \in Region /\ x[1] \in Word
  /\ LengthGas(i, x) \in (0..MaxU64) \cup {Overflow}

\* The operands of a call.
LEMMA CallOperands ==
  ASSUME NEW i, i.op \in CallOps, NEW x \in Operands(i)
  PROVE  /\ Accesses(i, x) = {In(i, x)} /\ In(i, x) \in Region /\ Out(i, x) \in Region
         /\ x[1] \in Word /\ LengthGas(i, x) = 0
<1> USE DEF BinaryOps, TernaryOps, UnaryOps, NullaryOps, CopyOps, CreateOps, CallOps
<1>1. Accesses(i, x) = {In(i, x)} /\ LengthGas(i, x) = 0
  BY DEF Accesses, LengthGas
<1>2. CASE i.op \in {"CALL", "CALLCODE"}
  <2>1. PICK g \in Words, v \in {0, 1}, r \in CallRegions :
             x = <<g, 0, v, r[1][1], r[1][2], r[2][1], r[2][2]>>
    BY <1>2 DEF Operands
  <2>2. /\ g \in Word /\ r[1][1] \in Word /\ r[1][2] \in Word /\ r[2][1] \in Word /\ r[2][2] \in Word
    BY InterpreterAssumption DEF Word
  <2> QED
    BY <1>1, <1>2, <2>1, <2>2 DEF In, Out, Region
<1>3. CASE i.op \in {"DELEGATECALL", "STATICCALL"}
  <2>1. PICK g \in Words, r \in CallRegions :
             x = <<g, 0, r[1][1], r[1][2], r[2][1], r[2][2]>>
    BY <1>3 DEF Operands
  <2>2. /\ g \in Word /\ r[1][1] \in Word /\ r[1][2] \in Word /\ r[2][1] \in Word /\ r[2][2] \in Word
    BY InterpreterAssumption DEF Word
  <2> QED
    BY <1>1, <1>3, <2>1, <2>2 DEF In, Out, Region
<1> QED
  BY <1>2, <1>3

\* All operands are typed.
LEMMA OperandsTyped ==
  ASSUME NEW i \in Instructions, NEW x \in Operands(i)
  PROVE  Typed(i, x)
<1>0. /\ \A len \in Word, p \in Nat : WordGas(len, p) \in (0..MaxU64) \cup {Overflow}
      /\ \A len \in Word : (IF len > MaxU64 THEN Overflow ELSE SafeMul(len, 8)) \in (0..MaxU64) \cup {Overflow}
      /\ 0 \in (0..MaxU64) \cup {Overflow} /\ 32 \in Word /\ 1 \in Word /\ 0 \in Word
  BY WordGasType, SafeMulFacts, InterpreterAssumption DEF Word
<1>r. \A r \in Regions : r[1] \in Word /\ r[2] \in Word
  BY InterpreterAssumption DEF Word
<1>w. Words \subseteq Word /\ Targets \subseteq Word
  BY InterpreterAssumption DEF Word
<1>1. CASE i.op \in CallOps
  BY <1>0, <1>1, CallOperands DEF Typed
<1> USE DEF BinaryOps, TernaryOps, UnaryOps, NullaryOps, CopyOps, CreateOps
<1>2. CASE i.op \in CopyOps
  <2>1. PICK r \in Regions, w \in Words : x = <<r[1], w, r[2]>>
    BY <1>2 DEF Operands
  <2>2. LengthGas(i, x) = WordGas(x[3], 3)
    BY <1>2 DEF LengthGas
  <2>3. Accesses(i, x) \subseteq {<<x[1], x[3]>>, <<x[2], x[3]>>}
    BY <1>2 DEF Accesses, CallOps
  <2>4. x[1] \in Word /\ x[2] \in Word /\ x[3] \in Word
    BY <2>1, <1>r, <1>w
  <2> QED
    BY <1>0, <1>2, <2>2, <2>3, <2>4 DEF Typed, Region, CallOps
<1>3. CASE i.op = "EXTCODECOPY"
  <2>1. PICK r \in Regions, w \in Words : x = <<0, r[1], w, r[2]>>
    BY <1>3 DEF Operands
  <2>2. LengthGas(i, x) = WordGas(x[4], 3)
    BY <1>3 DEF LengthGas
  <2>3. Accesses(i, x) = {<<x[2], x[4]>>}
    BY <1>3 DEF Accesses, CallOps
  <2>4. x[2] \in Word /\ x[4] \in Word
    BY <2>1, <1>r, <1>w
  <2> QED
    BY <1>0, <1>3, <2>2, <2>3, <2>4 DEF Typed, Region, CallOps
<1>4. CASE i.op \in {"KECCAK256", "RETURN", "REVERT", "LOG"}
  <2>1. PICK r \in Regions : x = <<r[1], r[2]>>
    BY <1>4 DEF Operands
  <2>2. x[1] \in Word /\ x[2] \in Word
    BY <2>1, <1>r
  <2>3. LengthGas(i, x) \in {0, WordGas(x[2], 6), IF x[2] > MaxU64 THEN Overflow ELSE SafeMul(x[2], 8)}
    BY <1>4 DEF LengthGas
  <2>4. Accesses(i, x) = {<<x[1], x[2]>>}
    BY <1>4 DEF Accesses, CallOps
  <2>5. LengthGas(i, x) \in (0..MaxU64) \cup {Overflow}
    BY <1>0, <2>2, <2>3
  <2> QED
    BY <1>4, <2>2, <2>4, <2>5 DEF Typed, Region, CallOps
<1>5. CASE i.op \in {"MLOAD", "MSTORE", "MSTORE8"}
  <2>1. PICK r \in Regions : x = <<r[1]>>
    BY <1>5 DEF Operands
  <2>2. LengthGas(i, x) = 0
    BY <1>5 DEF LengthGas
  <2>3. Accesses(i, x) \subseteq {<<x[1], 32>>, <<x[1], 1>>}
    BY <1>5 DEF Accesses, CallOps
  <2>4. x[1] \in Word
    BY <2>1, <1>r
  <2> QED
    BY <1>0, <1>5, <2>2, <2>3, <2>4 DEF Typed, Region, CallOps
<1>6. CASE i.op \in CreateOps
  <2>1. PICK r \in Regions : x = <<0, r[1], r[2]>>
    BY <1>6 DEF Operands
  <2>2. LengthGas(i, x) \in {0, WordGas(x[3], 6)}
    BY <1>6 DEF LengthGas
  <2>3. Accesses(i, x) = {<<x[2], x[3]>>}
    BY <1>6 DEF Accesses, CallOps
  <2>4. x[2] \in Word /\ x[3] \in Word
    BY <2>1, <1>r
  <2> QED
    BY <1>0, <1>6, <2>2, <2>3, <2>4 DEF Typed, Region, CallOps
<1>7. CASE i.op \notin CallOps \cup CopyOps \cup CreateOps
                 \cup {"EXTCODECOPY", "KECCAK256", "RETURN", "REVERT", "LOG", "MLOAD", "MSTORE", "MSTORE8"}
  <2>1. LengthGas(i, x) = 0 /\ Accesses(i, x) = {}
    BY <1>7 DEF Accesses, LengthGas, CallOps
  <2> QED
    BY <1>0, <1>7, <2>1 DEF Typed
<1> QED
  BY <1>1, <1>2, <1>3, <1>4, <1>5, <1>6, <1>7

-----------------------------------------------------------------------------
(* The memory an instruction needs.                                        *)

\* The greater of two numbers.
LEMMA MaxOfTwo ==
  ASSUME NEW a \in Nat, NEW b \in Nat
  PROVE  Max({a, b}) \in {a, b} /\ Max({a, b}) >= a /\ Max({a, b}) >= b
<1>1. \E m \in {a, b} : \A y \in {a, b} : m >= y
  <2>1. CASE a >= b
    BY <2>1
  <2>2. CASE b >= a
    BY <2>2
  <2> QED BY <2>1, <2>2
<1>2. Max({a, b}) \in {a, b} /\ \A y \in {a, b} : Max({a, b}) >= y
  BY <1>1, Zenon DEF Max
<1> QED
  BY <1>2

\* A size is a word, and exact unless it wraps.
LEMMA MemSize ==
  ASSUME NEW off \in Word, NEW len \in Word
  PROVE  /\ calcMemSize(off, len) \in Word
         /\ len # 0 /\ ~Wraps(off, len) => calcMemSize(off, len) = off + len
<1>1. MaxWord + 1 \in Nat \ {0} /\ off + len \in Nat
  BY InterpreterAssumption DEF Word
<1>2. \A w \in Nat, m \in Nat \ {0} : w % m \in 0..(m - 1) /\ (w \in 0..(m - 1) => w % m = w)
  OBVIOUS
<1>3. /\ (off + len) % (MaxWord + 1) \in 0..((MaxWord + 1) - 1)
      /\ off + len \in 0..((MaxWord + 1) - 1) => (off + len) % (MaxWord + 1) = off + len
  BY <1>1, <1>2
<1>4. calcMemSize(off, len) \in Word
  BY <1>3, InterpreterAssumption DEF Word, calcMemSize
<1>5. ASSUME len # 0, ~Wraps(off, len) PROVE calcMemSize(off, len) = off + len
  BY <1>1, <1>3, <1>5, InterpreterAssumption DEF calcMemSize, Wraps
<1> QED
  BY <1>4, <1>5

\* A region of uint64s with its end inside the memory.
LEMMA EndCovers ==
  ASSUME NEW r \in Region, NEW mem \in Nat, r[2] = 0 \/ (r[1] + r[2] <= MaxU64 /\ r[1] + r[2] <= mem)
  PROVE  Covered(r, mem)
<1>1. r[1] \in Nat /\ r[2] \in Nat
  BY InterpreterAssumption DEF Region, Word
<1>2. CASE r[2] # 0
  <2>1. r[1] \in 0..MaxU64 /\ r[2] \in 0..MaxU64
    BY <1>1, <1>2, InterpreterAssumption
  <2>2. U64(r[1]) = r[1] /\ U64(r[2]) = r[2]
    BY <2>1, U64Facts
  <2> QED
    BY <1>2, <2>2 DEF Covered
<1> QED
  BY <1>2 DEF Covered

\* A region whose size was computed without a wrap is covered by memory of that size.
LEMMA SizeCovers ==
  ASSUME NEW r \in Region, NEW mem \in Nat, ~Wraps(r[1], r[2]),
         calcMemSize(r[1], r[2]) <= mem, calcMemSize(r[1], r[2]) <= MaxU64
  PROVE  Covered(r, mem)
<1>1. r[1] \in Word /\ r[2] \in Word
  BY DEF Region
<1>2. r[2] # 0 => calcMemSize(r[1], r[2]) = r[1] + r[2]
  BY <1>1, MemSize
<1> QED
  BY <1>2, EndCovers

\* The size in the memory table bounds the sizes of the regions of an instruction, but for MCOPY.
LEMMA TableBounds ==
  ASSUME NEW i \in Instructions, NEW x \in Operands(i), i.op # "MCOPY"
  PROVE  /\ memorySize(i, x) \in Nat
         /\ \A r \in Accesses(i, x) : calcMemSize(r[1], r[2]) <= memorySize(i, x)
         /\ i.op \in CallOps => calcMemSize(Out(i, x)[1], Out(i, x)[2]) <= memorySize(i, x)
<1> DEFINE Size(r) == calcMemSize(r[1], r[2])
<1>0. \A r \in Region : Size(r) \in Nat
  BY MemSize, InterpreterAssumption DEF Region, Word
<1>1. CASE i.op \in CallOps
  <2>1. /\ Accesses(i, x) = {In(i, x)} /\ Size(In(i, x)) \in Nat /\ Size(Out(i, x)) \in Nat
    BY <1>0, <1>1, CallOperands
  <2>2. memorySize(i, x) = Max({Size(In(i, x)), Size(Out(i, x))})
    <3>1. {Size(r) : r \in {In(i, x), Out(i, x)}} = {Size(In(i, x)), Size(Out(i, x))}
      OBVIOUS
    <3>2. memorySize(i, x) = Max({Size(r) : r \in {In(i, x), Out(i, x)}})
      BY <1>1 DEF memorySize, CallOps
    <3> QED BY <3>1, <3>2
  <2> HIDE DEF Size
  <2>3. /\ memorySize(i, x) \in Nat
        /\ Size(In(i, x)) <= memorySize(i, x) /\ Size(Out(i, x)) <= memorySize(i, x)
    BY <2>1, <2>2, MaxOfTwo
  <2> QED BY <2>1, <2>3 DEF Size
<1>2. CASE i.op \notin CallOps
  <2>1. memorySize(i, x) = Max({Size(r) : r \in Accesses(i, x)} \cup {0})
    BY <1>2 DEF memorySize
  <2>2. \/ Accesses(i, x) = {}
        \/ \E r \in Region : Accesses(i, x) = {r}
    <3>1. Accesses(i, x) \subseteq Region
      BY OperandsTyped DEF Typed
    <3>2. \/ Accesses(i, x) = {}
          \/ \E r : Accesses(i, x) = {r}
      BY <1>2 DEF Accesses, CopyOps, CreateOps, CallOps
    <3> QED BY <3>1, <3>2
  <2>3. CASE Accesses(i, x) = {}
    <3>1. {Size(r) : r \in Accesses(i, x)} \cup {0} = {0, 0}
      BY <2>3
    <3>2. memorySize(i, x) \in {0, 0}
      BY <2>1, <3>1, MaxOfTwo
    <3> QED BY <1>2, <2>3, <3>2
  <2>4. CASE \E r \in Region : Accesses(i, x) = {r}
    <3>1. PICK r \in Region : Accesses(i, x) = {r}
      BY <2>4
    <3>2. {Size(q) : q \in Accesses(i, x)} \cup {0} = {Size(r), 0}
      BY <3>1
    <3>3. Size(r) \in Nat
      BY <1>0
    <3> HIDE DEF Size
    <3>4. memorySize(i, x) \in Nat /\ Size(r) <= memorySize(i, x)
      BY <2>1, <3>2, <3>3, MaxOfTwo
    <3> QED BY <1>2, <3>1, <3>4 DEF Size
  <2> QED BY <2>2, <2>3, <2>4
<1> QED
  BY <1>1, <1>2

\* The operands of MCOPY.
LEMMA CopyOperands ==
  ASSUME NEW i, i.op = "MCOPY", NEW x \in Operands(i)
  PROVE  /\ x[1] \in Word /\ x[2] \in Word /\ x[3] \in Word
         /\ Accesses(i, x) = {<<x[1], x[3]>>, <<x[2], x[3]>>}
<1>1. x \in {<<r[1], w, r[2]>> : r \in Regions, w \in Words}
  BY DEF Operands, CopyOps, CreateOps, CallOps
<1>2. PICK r \in Regions, w \in Words : x = <<r[1], w, r[2]>>
  BY <1>1
<1>3. r[1] \in Word /\ r[2] \in Word /\ w \in Word
  BY InterpreterAssumption DEF Word
<1> QED
  BY <1>2, <1>3 DEF Accesses, CopyOps, CallOps, CreateOps

\* The memory in whole words, and the size it was computed from.
LEMMA NeededFacts ==
  ASSUME NEW i \in Instructions, NEW x \in Operands(i)
  PROVE  /\ NeededMemory(i, x) \in (0..MaxU64) \cup {Overflow}
         /\ NeededMemory(i, x) # Overflow =>
              memorySize(i, x) <= MaxU64 /\ memorySize(i, x) <= NeededMemory(i, x)
<1>1. memorySize(i, x) \in Nat
  <2>1. CASE i.op = "MCOPY"
    <3>1. Max({x[1], x[2]}) \in Word
      BY <2>1, CopyOperands, MaxOfTwo, InterpreterAssumption DEF Word
    <3>2. calcMemSize(Max({x[1], x[2]}), x[3]) \in Word
      BY <2>1, <3>1, CopyOperands, MemSize
    <3> QED BY <2>1, <3>2, InterpreterAssumption DEF memorySize, Word, CallOps
  <2> QED BY <2>1, TableBounds
<1>2. CASE memorySize(i, x) > MaxU64
  BY <1>2 DEF NeededMemory
<1>3. CASE memorySize(i, x) \in 0..MaxU64
  <2>1. NeededMemory(i, x) = SafeMul(toWordSize(memorySize(i, x)), 32)
    BY <1>3, InterpreterAssumption DEF NeededMemory
  <2> QED
    BY <1>3, <2>1, WordsCover
<1> QED
  BY <1>1, <1>2, <1>3, InterpreterAssumption

\* Unless a size wrapped, the memory an instruction gets covers all it uses.
LEMMA MemoryCovers ==
  ASSUME NEW i \in Instructions, NEW x \in Operands(i), NeededMemory(i, x) # Overflow,
         NEW mem \in Nat, NeededMemory(i, x) <= mem, ~SizeUnchecked(i, x)
  PROVE  /\ \A r \in Accesses(i, x) : Covered(r, mem)
         /\ i.op \in CallOps => Covered(Out(i, x), mem)
<1>1. CASE i.op = "MCOPY"
  <2> DEFINE top == Max({x[1], x[2]})
  <2>1. /\ x[1] \in Word /\ x[2] \in Word /\ x[3] \in Word
        /\ Accesses(i, x) = {<<x[1], x[3]>>, <<x[2], x[3]>>}
    BY <1>1, CopyOperands
  <2>2. top \in Word /\ top >= x[1] /\ top >= x[2]
    BY <2>1, MaxOfTwo, InterpreterAssumption DEF Word
  <2>3. CASE x[3] = 0
    BY <1>1, <2>1, <2>3 DEF Covered, CallOps
  <2>4. CASE x[3] # 0
    <3>1. top + x[3] <= MaxU64
      BY <1>1, <2>1, <2>2, <2>4, InterpreterAssumption DEF SizeUnchecked, Word
    <3>2. calcMemSize(top, x[3]) = top + x[3]
      <4>1. ~Wraps(top, x[3])
        BY <2>1, <2>2, <3>1, InterpreterAssumption DEF Wraps, Word
      <4> QED BY <2>1, <2>2, <2>4, <4>1, MemSize
    <3>3. memorySize(i, x) = top + x[3]
      BY <1>1, <3>1, <3>2 DEF memorySize, CallOps
    <3>4. top + x[3] <= mem
      BY <2>1, <2>2, <3>3, NeededFacts, InterpreterAssumption DEF Word
    <3> HIDE DEF top
    <3>5. \A r \in Accesses(i, x) : r \in Region /\ r[1] + r[2] <= MaxU64 /\ r[1] + r[2] <= mem
      BY <2>1, <2>2, <3>1, <3>4, InterpreterAssumption DEF Region, Word
    <3> QED BY <1>1, <3>5, EndCovers DEF CallOps
  <2> QED BY <2>3, <2>4
<1>2. CASE i.op # "MCOPY"
  <2>1. memorySize(i, x) \in Nat /\ memorySize(i, x) <= MaxU64 /\ memorySize(i, x) <= mem
    BY <1>2, TableBounds, NeededFacts, InterpreterAssumption
  <2>2. ASSUME NEW r \in Region, ~Wraps(r[1], r[2]), calcMemSize(r[1], r[2]) <= memorySize(i, x)
        PROVE  Covered(r, mem)
    <3>1. calcMemSize(r[1], r[2]) \in Nat
      BY MemSize, InterpreterAssumption DEF Region, Word
    <3> QED BY <2>1, <2>2, <3>1, SizeCovers, InterpreterAssumption
  <2>3. /\ \A r \in Accesses(i, x) : r \in Region /\ ~Wraps(r[1], r[2])
        /\ i.op \in CallOps => Out(i, x) \in Region /\ ~Wraps(Out(i, x)[1], Out(i, x)[2])
    BY OperandsTyped DEF Typed, SizeUnchecked
  <2> QED BY <1>2, <2>2, <2>3, TableBounds
<1> QED
  BY <1>1, <1>2

-----------------------------------------------------------------------------
(* A run before and after the checks of an instruction.                    *)

MemoryType == [len : 0..MaxMemorySize, fee : Nat, off : 0..PoolSize, pooled : BOOLEAN]

FrameType ==
  [kind : {"call", "create"}, gas : Nat, height : 0..StackLimit, code : Codes, pc : Nat,
   mem : MemoryType, out : Region, unchecked : BOOLEAN, static : BOOLEAN, protects : BOOLEAN]

\* What the checks that an instruction passes say of its price and its memory.
LEMMA Affordable ==
  ASSUME NEW i \in Instructions, NEW x \in Operands(i), NEW extra \in Extra(i, x),
         NEW f \in FrameType, ~Refused(i, x, extra, f)
  PROVE  LET base == Base(i, x, extra, f, NeededMemory(i, x))
             tmp == CallGasTmp(i, x, base, f)
         IN  /\ NeededMemory(i, x) \in 0..MaxMemorySize
             /\ base \in Nat /\ base >= Constant(i) + extra
             /\ tmp \in Nat /\ (i.op \notin CallOps => tmp = 0)
             /\ Cost(i, x, extra, f) = base + tmp
             /\ base + tmp <= f.gas
<1> DEFINE size == NeededMemory(i, x)
           base == Base(i, x, extra, f, size)
           tmp == CallGasTmp(i, x, base, f)
           mem == memoryGasCost(f.mem, size)
<1>1. size \in 0..MaxU64
  BY NeededFacts DEF Refused
<1>2. f.gas \in Nat /\ f.mem.len \in Nat /\ f.mem.fee \in Nat
  BY InterpreterAssumption DEF FrameType, MemoryType
<1>3. mem \in (0..MaxU64) \cup {Overflow} /\ (mem # Overflow => size \in 0..MaxMemorySize)
  BY <1>1, <1>2, MemoryPriced, InterpreterAssumption DEF Overflow
<1>4. LengthGas(i, x) \in (0..MaxU64) \cup {Overflow}
  BY OperandsTyped DEF Typed
<1>5. extra \in Nat /\ Constant(i) \in Nat
  BY InstructionsCost
<1>6. Cost(i, x, extra, f) = SafeAdd(base, tmp) /\ Cost(i, x, extra, f) # Overflow
  BY DEF Cost, Refused
<1>7. ~(Cost(i, x, extra, f) > f.gas)
  BY DEF Refused
<1> DEFINE first == SafeAdd(mem, Constant(i) + extra)
<1>s. /\ mem \in Nat \cup {Overflow} /\ Constant(i) + extra \in Nat \cup {Overflow}
      /\ LengthGas(i, x) \in Nat \cup {Overflow}
      /\ \A n \in (0..MaxU64) \cup {Overflow} : n \in Nat \cup {Overflow}
  BY <1>3, <1>4, <1>5
<1>f. first \in Nat \cup {Overflow}
  BY <1>s, SafeAddFacts
<1>8. base \in (0..MaxU64) \cup {Overflow} /\ base = SafeAdd(first, LengthGas(i, x))
  <2>1. base = SafeAdd(first, LengthGas(i, x))
    BY DEF Base
  <2> HIDE DEF base, first
  <2> QED
    BY <1>s, <1>f, <2>1, SafeAddFacts
<1>9. tmp \in Nat /\ (i.op \notin CallOps => tmp = 0)
  <2>1. CASE i.op \in CallOps /\ base # Overflow
    <3>1. x[1] \in Nat
      BY <2>1, CallOperands, InterpreterAssumption DEF Word
    <3>2. f.gas - base \in Int
      BY <1>2, <1>8, <2>1
    <3>3. U64(f.gas - base) \in Nat
      BY <3>2, U64Facts
    <3>4. \A a \in Nat : a - a \div 64 \in Nat
      OBVIOUS
    <3>5. callGas(f.gas, base, x[1]) \in Nat
      BY <3>1, <3>3, <3>4 DEF callGas
    <3> QED BY <2>1, <3>5 DEF CallGasTmp
  <2> QED BY <2>1 DEF CallGasTmp
<1>10. base # Overflow /\ base \in Nat /\ Cost(i, x, extra, f) = base + tmp
  <2> HIDE DEF base, tmp
  <2>1. base \in Nat \cup {Overflow} /\ tmp \in Nat \cup {Overflow}
    BY <1>8, <1>9, <1>s
  <2> QED BY <1>6, <2>1, SafeAddFacts DEF Overflow
<1>11. /\ base = (mem + (Constant(i) + extra)) + LengthGas(i, x)
       /\ mem \in Nat /\ LengthGas(i, x) \in Nat
  <2> HIDE DEF base
  <2>1. base = first + LengthGas(i, x) /\ first \in Nat /\ LengthGas(i, x) \in Nat
    <3> HIDE DEF first
    <3> QED BY <1>f, <1>s, <1>8, <1>10, SafeAddFacts
  <2>2. first # Overflow
    BY <2>1 DEF Overflow
  <2>3. first = mem + (Constant(i) + extra) /\ mem \in Nat
    BY <1>s, <2>2, SafeAddFacts
  <2> QED BY <2>1, <2>3
<1> HIDE DEF base, tmp, mem, size
<1>12. base >= Constant(i) + extra /\ base + tmp <= f.gas /\ size \in 0..MaxMemorySize
  BY <1>2, <1>3, <1>5, <1>7, <1>9, <1>10, <1>11 DEF Overflow
<1> QED
  BY <1>9, <1>10, <1>12 DEF base, tmp, size

\* A memory that was resized.
Resized(m, n) ==
  /\ n.off = m.off /\ n.len >= m.len
  /\ n.len = m.len => n.pooled = m.pooled
  /\ n.pooled => m.pooled /\ (n.len = m.len \/ n.off + n.len <= PoolSize)

\* g is the run f after an instruction took its price and grew the memory.
Charged(f, g, cost, need) ==
  /\ g \in FrameType
  /\ g.gas = f.gas - cost
  /\ g.kind = f.kind /\ g.code = f.code /\ g.pc = f.pc /\ g.out = f.out
  /\ g.unchecked = f.unchecked /\ g.static = f.static /\ g.protects = f.protects
  /\ g.mem.len >= need /\ Resized(f.mem, g.mem)

\* Resize grows a memory to the size it is asked for.
LEMMA ResizeFacts ==
  ASSUME NEW m \in MemoryType, NEW size \in 0..MaxMemorySize, NEW fee \in Nat
  PROVE  LET n == [Resize(m, size) EXCEPT !.fee = fee]
         IN  n \in MemoryType /\ n.len >= size /\ Resized(m, n)
<1>0. /\ m.len \in 0..MaxMemorySize /\ m.fee \in Nat /\ m.off \in 0..PoolSize /\ m.pooled \in BOOLEAN
      /\ m = [len |-> m.len, fee |-> m.fee, off |-> m.off, pooled |-> m.pooled]
  BY DEF MemoryType
<1>r. PICK r : r = Resize(m, size)
  OBVIOUS
<1>n. PICK n : n = [r EXCEPT !.fee = fee]
  OBVIOUS
<1> SUFFICES n \in MemoryType /\ n.len >= size /\ Resized(m, n)
  BY <1>r, <1>n
<1>1. CASE size <= m.len
  <2>1. n = [len |-> m.len, fee |-> fee, off |-> m.off, pooled |-> m.pooled]
    BY <1>0, <1>1, <1>r, <1>n DEF Resize
  <2> QED
    BY <1>0, <1>1, <2>1, InterpreterAssumption DEF MemoryType, Resized
<1>2. CASE ~(size <= m.len)
  <2>1. r = [m EXCEPT !.len = size, !.pooled = (m.pooled /\ m.off + size <= PoolSize)]
    BY <1>2, <1>r DEF Resize
  <2>2. PICK p \in BOOLEAN : p = (m.pooled /\ m.off + size <= PoolSize)
    OBVIOUS
  <2>3. r = [m EXCEPT !.len = size, !.pooled = p]
    BY <2>1, <2>2, Zenon
  <2>4. r = [len |-> size, fee |-> m.fee, off |-> m.off, pooled |-> p]
    BY <1>0, <2>3
  <2>5. n = [len |-> size, fee |-> fee, off |-> m.off, pooled |-> p]
    BY <1>n, <2>4
  <2>6. n.len = size /\ n.off = m.off /\ n.pooled = p
    BY <2>5
  <2>7. n \in MemoryType
    BY <1>0, <2>2, <2>5 DEF MemoryType
  <2>8. n.pooled => m.pooled /\ m.off + size <= PoolSize
    BY <2>2, <2>6, Zenon
  <2>9. n.len >= size /\ n.len >= m.len /\ n.len # m.len
    BY <1>0, <1>2, <2>6, InterpreterAssumption
  <2> QED
    BY <2>6, <2>7, <2>8, <2>9, Zenon DEF Resized
<1> QED
  BY <1>1, <1>2

\* A run after an instruction that passed the checks.
LEMMA AfterCharged ==
  ASSUME NEW i \in Instructions, NEW x \in Operands(i), NEW extra \in Extra(i, x),
         Top \in FrameType, validateStack(i, Top.height), ~Refused(i, x, extra, Top)
  PROVE  Charged(Top, After(i, x, extra), Cost(i, x, extra, Top), NeededMemory(i, x))
<1> DEFINE f == Top
           c == Cost(i, x, extra, f)
           size == NeededMemory(i, x)
           fee == IF Resize(f.mem, size).len > f.mem.len THEN TotalFee(size) ELSE Resize(f.mem, size).fee
           m == [Resize(f.mem, size) EXCEPT !.fee = fee]
           h == f.height + StackEffect(i).leaves
           g == After(i, x, extra)
<1>1. size \in 0..MaxMemorySize /\ c \in Nat /\ c <= f.gas
  BY Affordable
<1>2. f.mem \in MemoryType /\ f.gas \in Nat /\ f.height \in 0..StackLimit
  BY DEF FrameType
<1>3. fee \in Nat
  <2>1. size \in 0..MaxU64
    BY <1>1, InterpreterAssumption
  <2>2. TotalFee(size) \in Nat
    <3>1. size # Overflow /\ f.mem.len \in Nat /\ f.mem.fee \in Nat
      BY <1>2, <2>1, InterpreterAssumption DEF Overflow, MemoryType
    <3> QED BY <2>1, <3>1, MemoryPriced
  <2>3. Resize(f.mem, size).fee = f.mem.fee
    BY <1>2 DEF Resize, MemoryType
  <2> QED BY <1>2, <2>2, <2>3 DEF MemoryType
<1>4. m \in MemoryType /\ m.len >= size /\ Resized(f.mem, m)
  <2> HIDE DEF f, size, fee
  <2> QED BY <1>1, <1>2, <1>3, ResizeFacts
<1>5. h \in 0..StackLimit
  BY <1>2, StackChecked, InterpreterAssumption DEF validateStack
<1>6. g = [f EXCEPT !.gas = f.gas - c, !.mem = m, !.height = h]
  BY DEF After, Paid, FrameType
<1> HIDE DEF c, m, h, g, size
<1>7. f.gas - c \in Nat
  BY <1>1, <1>2, InterpreterAssumption
<1> QED
  BY <1>4, <1>5, <1>6, <1>7 DEF FrameType, Charged, g, c, size

-----------------------------------------------------------------------------
(* The runs that are nested: the last one, and those below it.             *)

\* A sequence that is not empty is its last element after the others.
LEMMA FrontLast ==
  ASSUME NEW S, NEW s \in Seq(S), s # <<>>
  PROVE  /\ Front(s) \in Seq(S) /\ Last(s) \in S /\ s = Append(Front(s), Last(s))
         /\ Len(Front(s)) = Len(s) - 1 /\ Len(s) \in Nat \ {0}
<1>1. Len(s) \in Nat \ {0} /\ \A k \in 1..Len(s) : s[k] \in S
  OBVIOUS
<1>2. /\ Front(s) \in Seq(S) /\ Len(Front(s)) = Len(s) - 1
      /\ \A k \in 1..(Len(s) - 1) : Front(s)[k] = s[k]
  <2>1. 1 \in Int /\ Len(s) - 1 \in Int /\ \A k \in 1..(Len(s) - 1) : s[k] \in S
    BY <1>1
  <2>2. /\ SubSeq(s, 1, Len(s) - 1) \in Seq(S)
        /\ Len(SubSeq(s, 1, Len(s) - 1)) = IF 1 <= Len(s) - 1 THEN (Len(s) - 1) - 1 + 1 ELSE 0
        /\ \A k \in 1..((Len(s) - 1) - 1 + 1) : SubSeq(s, 1, Len(s) - 1)[k] = s[1 + k - 1]
    BY <2>1, SubSeqProperties
  <2>3. Front(s) = SubSeq(s, 1, Len(s) - 1)
    BY DEF Front
  <2> HIDE DEF Front
  <2>4. /\ Front(s) \in Seq(S)
        /\ Len(Front(s)) = IF 1 <= Len(s) - 1 THEN (Len(s) - 1) - 1 + 1 ELSE 0
        /\ \A k \in 1..((Len(s) - 1) - 1 + 1) : Front(s)[k] = s[1 + k - 1]
    BY <2>2, <2>3, Zenon
  <2>5. \A k \in 1..(Len(s) - 1) : k \in 1..((Len(s) - 1) - 1 + 1) /\ 1 + k - 1 = k
    BY <1>1
  <2>6. \A k \in 1..(Len(s) - 1) : Front(s)[k] = s[k]
    BY <2>4, <2>5
  <2>7. \A n \in Nat \ {0} : (IF 1 <= n - 1 THEN (n - 1) - 1 + 1 ELSE 0) = n - 1
    OBVIOUS
  <2>8. Len(Front(s)) = Len(s) - 1
    BY <1>1, <2>4, <2>7, Zenon
  <2> QED BY <2>4, <2>6, <2>8
<1>3. Last(s) = s[Len(s)] /\ Last(s) \in S
  BY <1>1 DEF Last
<1>4. s = Append(Front(s), Last(s))
  <2> DEFINE t == Append(Front(s), Last(s))
  <2>1. /\ t \in Seq(S) /\ Len(t) = Len(s)
        /\ \A k \in 1..Len(Front(s)) : t[k] = Front(s)[k]
        /\ t[Len(Front(s)) + 1] = Last(s)
    BY <1>1, <1>2, <1>3, AppendProperties
  <2> HIDE DEF t
  <2>2. \A k \in 1..Len(s) : t[k] = s[k]
    BY <1>1, <1>2, <1>3, <2>1
  <2>3. t = s
    BY <2>1, <2>2
  <2> QED BY <2>3 DEF t
<1> QED
  BY <1>1, <1>2, <1>3, <1>4

\* The elements of a sequence with one more.
LEMMA Elements ==
  ASSUME NEW S, NEW t \in Seq(S), NEW e \in S
  PROVE  /\ Append(t, e) \in Seq(S) /\ Len(Append(t, e)) = Len(t) + 1 /\ Len(t) \in Nat
         /\ DOMAIN Append(t, e) = 1..(Len(t) + 1) /\ DOMAIN t = 1..Len(t)
         /\ \A k \in 1..Len(t) : Append(t, e)[k] = t[k]
         /\ Append(t, e)[Len(t) + 1] = e
<1>1. /\ Append(t, e) \in Seq(S) /\ Len(Append(t, e)) = Len(t) + 1
      /\ \A k \in 1..Len(t) : Append(t, e)[k] = t[k]
      /\ Append(t, e)[Len(t) + 1] = e
  BY AppendProperties
<1> QED
  BY <1>1

\* The gas of the runs together.
LEMMA GasOfFrames ==
  ASSUME NEW fs \in Seq(FrameType)
  PROVE  TotalGas(fs) \in Nat /\ \A k \in 1..Len(fs) : fs[k].gas <= TotalGas(fs)
<1> DEFINE g == [k \in 1..Len(fs) |-> fs[k].gas]
<1>0. DOMAIN fs = 1..Len(fs) /\ Len(fs) \in Nat /\ \A k \in 1..Len(fs) : fs[k] \in FrameType
  OBVIOUS
<1>a. \A f \in FrameType : f.gas \in Nat
  BY DEF FrameType
<1>1. DOMAIN fs = 1..Len(fs) /\ Len(fs) \in Nat /\ \A k \in 1..Len(fs) : g[k] \in Nat /\ g[k] = fs[k].gas
  BY <1>0, <1>a
<1>2. IsFiniteSet(1..Len(fs))
  BY <1>1, FS_Interval
<1>3. TotalGas(fs) = SumFunctionOnSet(g, 1..Len(fs))
  BY <1>1 DEF TotalGas
<1> HIDE DEF g
<1> QED
  BY <1>1, <1>2, <1>3, SumNat, SumBounds

\* One more run adds its gas.
LEMMA GasAppended ==
  ASSUME NEW t \in Seq(FrameType), NEW e \in FrameType
  PROVE  TotalGas(Append(t, e)) = TotalGas(t) + e.gas
<1> DEFINE n == Len(t)
           g == [k \in 1..n |-> t[k].gas]
           h == [k \in 1..(n + 1) |-> Append(t, e)[k].gas]
<1>1. /\ n \in Nat /\ DOMAIN t = 1..n /\ DOMAIN Append(t, e) = 1..(n + 1)
      /\ Append(t, e)[n + 1] = e /\ \A k \in 1..n : Append(t, e)[k] = t[k]
  BY Elements
<1>2. IsFiniteSet(1..n) /\ n + 1 \notin 1..n /\ (1..n) \cup {n + 1} = 1..(n + 1)
  <2> HIDE DEF n
  <2>1. IsFiniteSet(1..n)
    BY <1>1, FS_Interval
  <2>2. n + 1 \notin 1..n /\ (1..n) \cup {n + 1} = 1..(n + 1)
    BY <1>1
  <2> QED BY <2>1, <2>2
<1>3. \A k \in 1..(n + 1) : h[k] \in Int
  <2>1. \A k \in 1..(n + 1) : Append(t, e)[k] \in FrameType
    BY <1>1
  <2> QED BY <2>1 DEF FrameType
<1>4. h[n + 1] = e.gas /\ \A k \in 1..n : h[k] = g[k]
  BY <1>1
<1>5. TotalGas(t) = SumFunctionOnSet(g, 1..n) /\ TotalGas(Append(t, e)) = SumFunctionOnSet(h, 1..(n + 1))
  BY <1>1 DEF TotalGas
<1> HIDE DEF n, g, h
<1>6. SumFunctionOnSet(h, 1..(n + 1)) = h[n + 1] + SumFunctionOnSet(h, 1..n)
  BY <1>2, <1>3, SumAdd
<1>7. SumFunctionOnSet(h, 1..n) = SumFunctionOnSet(g, 1..n)
  BY <1>2, <1>4, SumSame
<1>8. TotalGas(t) \in Nat /\ e.gas \in Nat
  BY GasOfFrames DEF FrameType
<1> QED
  BY <1>4, <1>5, <1>6, <1>7, <1>8

-----------------------------------------------------------------------------
(* Code: where instructions begin, and what codeBitmap marks.              *)

\* The byte after the instruction at pc and its data.
Following(code, pc) == pc + 1 + PushData(code[pc + 1])

\* A set of places that control does not leave by going on.
ClosedIn(code, R) ==
  0 \in R /\ \A pc \in R : pc < Len(code) => (Following(code, pc) \in R \/ Following(code, pc) > Len(code))

\* A PUSHn has at most MaxN bytes of data.
LEMMA DataBounded ==
  ASSUME NEW i \in Instructions \cup {AnyOp, Invalid}
  PROVE  PushData(i) \in 0..MaxN
BY InterpreterAssumption DEF Instructions, PushOps, DupOps, SwapOps, LogOps, Family, I, AnyOp, Invalid, PushData,
   BinaryOps, TernaryOps, UnaryOps, NullaryOps, CopyOps, CallOps, CreateOps

\* An instruction and its data end a little later in the code, or not far after it.
LEMMA FollowingFacts ==
  ASSUME NEW code \in Codes, NEW pc \in Nat, pc < Len(code)
  PROVE  /\ PushData(code[pc + 1]) \in 0..MaxN /\ Following(code, pc) \in Nat
         /\ Following(code, pc) > pc /\ Following(code, pc) <= Len(code) + MaxN
<1>1. code \in Seq(Instructions \cup {AnyOp, Invalid}) /\ Len(code) \in Nat
  BY CodeAssumption
<1>2. code[pc + 1] \in Instructions \cup {AnyOp, Invalid}
  BY <1>1
<1>3. PushData(code[pc + 1]) \in 0..MaxN
  BY <1>2, DataBounded
<1> QED
  BY <1>1, <1>3, InterpreterAssumption DEF Following

\* Starts is the least set that control does not leave.
LEMMA StartsLeast ==
  ASSUME NEW code \in Codes
  PROVE  /\ Starts(code) \subseteq 0..Len(code) /\ ClosedIn(code, Starts(code))
         /\ \A R \in SUBSET (0..Len(code)) : ClosedIn(code, R) => Starts(code) \subseteq R
<1> DEFINE N == Len(code)
           P(S) == ClosedIn(code, S) /\ \A R \in SUBSET S : ClosedIn(code, R) => R = S
           L == {pc \in 0..N : \A R \in SUBSET (0..N) : ClosedIn(code, R) => pc \in R}
<1>0. N \in Nat
  BY CodeAssumption
<1>1. Starts(code) = CHOOSE S \in SUBSET (0..N) : P(S)
  BY DEF Starts, ClosedIn, Following
<1>f. \A pc \in 0..N : pc < N => Following(code, pc) \in Nat
  BY <1>0, FollowingFacts
<1>2. L \in SUBSET (0..N) /\ P(L)
  <2>1. ClosedIn(code, L)
    <3>1. 0 \in L
      BY <1>0 DEF ClosedIn
    <3>2. ASSUME NEW pc \in L, pc < N, ~(Following(code, pc) > N)
          PROVE  Following(code, pc) \in L
      <4>1. Following(code, pc) \in 0..N
        BY <1>0, <1>f, <3>2
      <4>2. ASSUME NEW R \in SUBSET (0..N), ClosedIn(code, R)
            PROVE  Following(code, pc) \in R
        BY <3>2, <4>2 DEF ClosedIn
      <4> QED BY <4>1, <4>2
    <3> HIDE DEF L
    <3> QED BY <3>1, <3>2 DEF ClosedIn
  <2> QED BY <2>1
<1> HIDE DEF L, N
<1>3. Starts(code) \in SUBSET (0..N) /\ P(Starts(code))
  BY <1>1, <1>2
<1>4. ASSUME NEW R \in SUBSET (0..N), ClosedIn(code, R)
      PROVE  Starts(code) \subseteq R
  <2> DEFINE Q == R \cap Starts(code)
  <2>1. ClosedIn(code, Q)
    BY <1>3, <1>4 DEF ClosedIn
  <2>2. Q = Starts(code)
    BY <1>3, <2>1
  <2> QED BY <2>2
<1> QED
  BY <1>3, <1>4 DEF N

\* The walk of codeBitmap, as an equation.
Walk(code, w) ==
  w = [pc \in 0..(Len(code) + MaxN) |->
         IF pc >= Len(code) THEN {}
         ELSE (pc + 1)..(pc + PushData(code[pc + 1])) \cup w[pc + 1 + PushData(code[pc + 1])]]

\* The walk goes to the end of the code, so that the equation has a solution.
LEMMA WalkExists ==
  ASSUME NEW code \in Codes
  PROVE  \E w : Walk(code, w) /\ codeBitmap(code) = w[0]
<1> DEFINE N == Len(code)
           D == 0..(N + MaxN)
           Data(pc) == (pc + 1)..(pc + PushData(code[pc + 1]))
           Item(w, pc) == IF pc >= N THEN {} ELSE Data(pc) \cup w[Following(code, pc)]
           Eq(w, n) == \A pc \in D : pc >= N - n => w[pc] = Item(w, pc)
           Bad == {n \in Nat : ~ \E w : DOMAIN w = D /\ w = [pc \in D |-> w[pc]] /\ Eq(w, n)}
<1>0. N \in Nat /\ MaxN \in Nat
  BY CodeAssumption, InterpreterAssumption
<1>1. \A pc \in D : pc < N => Following(code, pc) \in D /\ Following(code, pc) > pc
  BY <1>0, FollowingFacts
<1> HIDE DEF Bad, N
<1>2. Bad = {}
  <2> SUFFICES ASSUME Bad # {} PROVE FALSE
    OBVIOUS
  <2>1. PICK n \in Bad : \A m \in Bad : n <= m
    BY LeastNatural DEF Bad
  <2>2. n \in Nat /\ ~ \E w : DOMAIN w = D /\ w = [pc \in D |-> w[pc]] /\ Eq(w, n)
    BY <2>1 DEF Bad
  <2>3. CASE n = 0
    <3> DEFINE w == [pc \in D |-> {}]
    <3>1. DOMAIN w = D /\ w = [pc \in D |-> w[pc]] /\ Eq(w, 0)
      BY <1>0
    <3> QED BY <3>1, <2>2, <2>3
  <2>4. CASE n # 0
    <3>1. n - 1 \in Nat /\ n - 1 \notin Bad
      BY <2>1, <2>2, <2>4
    <3>2. PICK w : DOMAIN w = D /\ w = [pc \in D |-> w[pc]] /\ Eq(w, n - 1)
      BY <3>1 DEF Bad
    <3> DEFINE at == N - n
               v == [pc \in D |-> IF pc = at THEN Item(w, at) ELSE w[pc]]
    <3>3. DOMAIN v = D /\ v = [pc \in D |-> v[pc]]
      OBVIOUS
    <3>4. ASSUME NEW pc \in D, pc >= N - n PROVE v[pc] = Item(v, pc)
      <4>1. \A q \in D : q > at => v[q] = w[q]
        BY <1>0, <2>2
      <4>2. CASE pc >= N
        <5>1. pc # at /\ pc >= N - (n - 1)
          BY <1>0, <2>2, <2>4, <4>2
        <5> QED BY <3>2, <4>2, <5>1
      <4>3. CASE pc < N
        <5>1. Following(code, pc) \in D /\ Following(code, pc) > at
          BY <1>0, <1>1, <2>2, <3>4, <4>3
        <5>2. v[Following(code, pc)] = w[Following(code, pc)]
          BY <4>1, <5>1
        <5>3. v[pc] = Item(w, pc)
          <6>1. CASE pc = at
            BY <6>1
          <6>2. CASE pc # at
            <7>1. pc >= N - (n - 1)
              BY <1>0, <2>2, <3>4, <6>2
            <7> QED BY <3>2, <6>2, <7>1
          <6> QED BY <6>1, <6>2
        <5> HIDE DEF v, D
        <5> QED BY <5>2, <5>3
      <4> QED BY <1>0, <4>2, <4>3
    <3>5. Eq(v, n)
      BY <3>4
    <3> HIDE DEF v
    <3> QED BY <2>2, <3>3, <3>5
  <2> QED BY <2>3, <2>4
<1>3. PICK w : DOMAIN w = D /\ w = [pc \in D |-> w[pc]] /\ Eq(w, N)
  BY <1>0, <1>2 DEF Bad
<1>4. w = [pc \in D |-> Item(w, pc)]
  <2>1. \A pc \in D : w[pc] = Item(w, pc)
    BY <1>0, <1>3
  <2> HIDE DEF D, Item
  <2> QED BY <1>3, <2>1
<1>5. Walk(code, w)
  BY <1>4 DEF Walk, Following, N
<1>6. codeBitmap(code) = (CHOOSE u : Walk(code, u))[0]
  BY DEF codeBitmap, Walk
<1> QED
  BY <1>5, <1>6

\* codeBitmap marks the data of every instruction that control can come to.
LEMMA DataMarked ==
  ASSUME NEW code \in Codes, NEW pc \in Starts(code), pc < Len(code)
  PROVE  (pc + 1)..(pc + PushData(code[pc + 1])) \subseteq codeBitmap(code)
<1> DEFINE N == Len(code)
           Data(q) == (q + 1)..(q + PushData(code[q + 1]))
<1>0. N \in Nat /\ MaxN \in Nat
  BY CodeAssumption, InterpreterAssumption
<1>1. PICK w : Walk(code, w) /\ codeBitmap(code) = w[0]
  BY WalkExists
<1>2. \A q \in 0..N : q < N => w[q] = Data(q) \cup w[Following(code, q)]
  <2>1. \A q \in 0..N : q < N => q \in 0..(N + MaxN) /\ ~(q >= N)
    BY <1>0
  <2> QED BY <1>1, <2>1 DEF Walk, Following
<1> DEFINE R == {q \in 0..N : w[q] \subseteq w[0]}
<1>f. \A q \in 0..N : q < N => Following(code, q) \in Nat
  BY <1>0, FollowingFacts
<1> HIDE DEF Data, N
<1>3. ClosedIn(code, R)
  <2>1. 0 \in R
    BY <1>0
  <2>2. ASSUME NEW q \in R, q < N, ~(Following(code, q) > N)
        PROVE  Following(code, q) \in R
    <3>1. Following(code, q) \in 0..N
      BY <1>0, <1>f, <2>2
    <3>2. w[Following(code, q)] \subseteq w[q] /\ w[q] \subseteq w[0]
      BY <1>2, <2>2
    <3> QED BY <3>1, <3>2
  <2> HIDE DEF R
  <2> QED BY <2>1, <2>2 DEF ClosedIn, N
<1>4. pc \in R
  <2> HIDE DEF R
  <2>1. R \in SUBSET (0..N)
    BY DEF R
  <2> QED BY <1>3, <2>1, StartsLeast DEF N
<1>5. pc \in 0..N /\ pc < N /\ w[pc] \subseteq w[0]
  BY <1>4 DEF N
<1>6. Data(pc) \subseteq w[0]
  BY <1>2, <1>5
<1> QED
  BY <1>1, <1>6 DEF Data

\* A byte that is not marked is where an instruction begins.
LEMMA UnmarkedStarts ==
  ASSUME NEW code \in Codes, NEW dest \in Nat, dest < Len(code), dest \notin codeBitmap(code)
  PROVE  dest \in Starts(code)
<1> SUFFICES ASSUME dest \notin Starts(code) PROVE FALSE
  OBVIOUS
<1>0. /\ Len(code) \in Nat /\ Starts(code) \subseteq 0..Len(code) /\ 0 \in Starts(code)
      /\ \A pc \in Starts(code) : pc < Len(code) =>
           (Following(code, pc) \in Starts(code) \/ Following(code, pc) > Len(code))
  BY CodeAssumption, StartsLeast DEF ClosedIn
<1> DEFINE T == {k \in Nat : k <= dest /\ dest - k \in Starts(code)}
<1>1. T \in SUBSET Nat /\ T # {}
  <2>1. dest \in T
    BY <1>0
  <2> QED BY <2>1
<1>2. PICK k \in T : \A m \in T : k <= m
  BY <1>1, LeastNatural
<1>3. PICK pc \in Nat : pc = dest - k /\ pc \in Starts(code) /\ pc < dest
  <2>1. dest - k \in Nat /\ dest - k \in Starts(code) /\ dest - k <= dest
    BY <1>2
  <2> QED BY <2>1
<1>4. Following(code, pc) \in Nat /\ Following(code, pc) > pc /\ PushData(code[pc + 1]) \in 0..MaxN
  BY <1>0, <1>3, FollowingFacts
<1>5. Following(code, pc) > dest
  <2> SUFFICES ASSUME Following(code, pc) <= dest PROVE FALSE
    BY <1>4
  <2>1. Following(code, pc) \in Starts(code)
    BY <1>0, <1>3, <1>4
  <2>2. dest - Following(code, pc) \in T
    BY <1>4, <2>1
  <2> HIDE DEF T
  <2> QED BY <1>2, <1>3, <1>4, <2>2 DEF T
<1>6. dest \in (pc + 1)..(pc + PushData(code[pc + 1]))
  BY <1>3, <1>4, <1>5, InterpreterAssumption DEF Following
<1> QED
  BY <1>0, <1>3, <1>6, DataMarked

-----------------------------------------------------------------------------
(* The inductive invariant.                                                *)

\* Control stands where an instruction begins; a run that waits for another stands at a
\* call or creation, which has no data.
Lands(f) == f.pc < Len(f.code) => f.pc \in Starts(f.code)
Waits(f) == f.pc < Len(f.code) /\ PushData(f.code[f.pc + 1]) = 0

AllWait(fs) == \A k \in 1..Len(fs) : Lands(fs[k]) /\ Waits(fs[k])
Landed(fs) == \A k \in 1..Len(fs) : Lands(fs[k]) /\ (k < Len(fs) => Waits(fs[k]))

\* The memory of a caller holds what its call will copy there.
Awaited(fs) ==
  \A k \in 2..Len(fs) :
    fs[k].kind = "call" => fs[k].unchecked \/ Covered(fs[k].out, fs[k - 1].mem.len)

\* The memories in the pool follow one another up to where the pool is free.
Ordered(fs, free) ==
  \A k \in 1..Len(fs) :
    fs[k].mem.pooled =>
      /\ fs[k].mem.off + fs[k].mem.len <= free
      /\ \A j \in (k + 1)..Len(fs) :
           fs[j].mem.pooled => fs[k].mem.off + fs[k].mem.len <= fs[j].mem.off

\* The first run of a STATICCALL set write protection, and only it takes it away.
Static(fs) == \E k \in 1..Len(fs) : fs[k].static
FirstProtects(fs) ==
  \A k \in 1..Len(fs) : fs[k].protects <=> (fs[k].static /\ \A j \in 1..(k - 1) : ~fs[j].static)
Guarded(fs, on) == (on <=> Static(fs)) /\ FirstProtects(fs)

\* The nested runs, the part of the pool in use and write protection.
Runs(fs, free, on) ==
  /\ fs \in Seq(FrameType) /\ Len(fs) <= CallCreateDepth + 1
  /\ Landed(fs) /\ Awaited(fs) /\ Ordered(fs, free)
  /\ fs # <<>> => Guarded(fs, on)

Invariant ==
  /\ Runs(frames, reserved, read_only) /\ TotalGas(frames) <= MaxU64
  /\ reserved \in 0..PoolSize /\ last_retval \in 0..MaxU64
  /\ read_only \in BOOLEAN /\ wrote = FALSE /\ steps \in 0..MaxSteps
  /\ access \in [covered : BOOLEAN, unchecked : BOOLEAN]
  /\ access.covered \/ access.unchecked

\* What the parts of the invariant say of one more run.
LEMMA LandedAppended ==
  ASSUME NEW t \in Seq(FrameType), NEW e \in FrameType
  PROVE  /\ Landed(Append(t, e)) <=> (AllWait(t) /\ Lands(e))
         /\ AllWait(Append(t, e)) <=> (AllWait(t) /\ Lands(e) /\ Waits(e))
<1> DEFINE n == Len(t)
           s == Append(t, e)
<1>1. n \in Nat /\ Len(s) = n + 1 /\ s[n + 1] = e /\ \A k \in 1..n : s[k] = t[k]
  BY Elements
<1> HIDE DEF s
<1>2. \A k \in 1..(n + 1) : k = n + 1 \/ (k \in 1..n /\ k < n + 1)
  BY <1>1
<1>3. \A k \in 1..n : k \in 1..(n + 1) /\ k < n + 1
  BY <1>1
<1>4. n + 1 \in 1..(n + 1) /\ ~(n + 1 < n + 1)
  BY <1>1
<1> HIDE DEF n
<1>5. Landed(s) <=> (AllWait(t) /\ Lands(e))
  BY <1>1, <1>2, <1>3, <1>4 DEF Landed, AllWait, n
<1>6. AllWait(s) <=> (AllWait(t) /\ Lands(e) /\ Waits(e))
  BY <1>1, <1>2, <1>3, <1>4 DEF AllWait, n
<1> QED
  BY <1>5, <1>6 DEF s

\* The region a run returns to.
LEMMA AwaitedAppended ==
  ASSUME NEW t \in Seq(FrameType), NEW e \in FrameType
  PROVE  Awaited(Append(t, e)) <=>
           /\ Awaited(t)
           /\ Len(t) >= 1 /\ e.kind = "call" => e.unchecked \/ Covered(e.out, t[Len(t)].mem.len)
<1> DEFINE n == Len(t)
           s == Append(t, e)
           W(b, c) == c.kind = "call" => c.unchecked \/ Covered(c.out, b.mem.len)
<1>1. n \in Nat /\ Len(s) = n + 1 /\ s[n + 1] = e /\ \A k \in 1..n : s[k] = t[k]
  BY Elements
<1>2. Awaited(s) <=> \A k \in 2..(n + 1) : W(s[k - 1], s[k])
  BY <1>1 DEF Awaited
<1>3. Awaited(t) <=> \A k \in 2..n : W(t[k - 1], t[k])
  BY <1>1 DEF Awaited
<1> HIDE DEF W, s
<1>4. \A k \in 2..n : s[k - 1] = t[k - 1] /\ s[k] = t[k] /\ k \in 2..(n + 1)
  BY <1>1
<1>5. \A k \in 2..(n + 1) : k \in 2..n \/ (k = n + 1 /\ n >= 1)
  BY <1>1
<1>6. n >= 1 => s[(n + 1) - 1] = t[n] /\ n + 1 \in 2..(n + 1) /\ s[n + 1] = e
  BY <1>1
<1> HIDE DEF n
<1>7. Awaited(s) <=> (Awaited(t) /\ (n >= 1 => W(t[n], e)))
  BY <1>2, <1>3, <1>4, <1>5, <1>6
<1> QED
  BY <1>7 DEF W, s, n

\* The place of a memory in the pool.
LEMMA OrderedAppended ==
  ASSUME NEW t \in Seq(FrameType), NEW e \in FrameType, NEW free
  PROVE  Ordered(Append(t, e), free) <=>
           /\ Ordered(t, free)
           /\ e.mem.pooled => e.mem.off + e.mem.len <= free
           /\ e.mem.pooled => \A k \in 1..Len(t) :
                t[k].mem.pooled => t[k].mem.off + t[k].mem.len <= e.mem.off
<1> DEFINE n == Len(t)
           s == Append(t, e)
           In1(a) == a.mem.pooled => a.mem.off + a.mem.len <= free
           In2(a, b) == a.mem.pooled => (b.mem.pooled => a.mem.off + a.mem.len <= b.mem.off)
<1>1. n \in Nat /\ Len(s) = n + 1 /\ s[n + 1] = e /\ \A k \in 1..n : s[k] = t[k]
  BY Elements
<1>2. Ordered(s, free) <=> \A k \in 1..(n + 1) : In1(s[k]) /\ \A j \in (k + 1)..(n + 1) : In2(s[k], s[j])
  BY <1>1 DEF Ordered
<1>3. Ordered(t, free) <=> \A k \in 1..n : In1(t[k]) /\ \A j \in (k + 1)..n : In2(t[k], t[j])
  BY <1>1 DEF Ordered
<1> HIDE DEF In1, In2, s, n
<1>4. ASSUME Ordered(s, free)
      PROVE  Ordered(t, free) /\ In1(e) /\ \A k \in 1..n : In2(t[k], e)
  <2>1. ASSUME NEW k \in 1..n
        PROVE  In1(t[k]) /\ (\A j \in (k + 1)..n : In2(t[k], t[j])) /\ In2(t[k], e)
    <3>1. k \in 1..(n + 1) /\ s[k] = t[k] /\ n + 1 \in (k + 1)..(n + 1)
      BY <1>1
    <3>2. \A j \in (k + 1)..n : j \in (k + 1)..(n + 1) /\ s[j] = t[j]
      BY <1>1
    <3> QED BY <1>1, <1>2, <1>4, <3>1, <3>2
  <2>2. n + 1 \in 1..(n + 1)
    BY <1>1
  <2> QED BY <1>1, <1>2, <1>3, <1>4, <2>1, <2>2
<1>5. ASSUME Ordered(t, free), In1(e), \A k \in 1..n : In2(t[k], e)
      PROVE  Ordered(s, free)
  <2> SUFFICES ASSUME NEW k \in 1..(n + 1)
               PROVE  In1(s[k]) /\ \A j \in (k + 1)..(n + 1) : In2(s[k], s[j])
    BY <1>2
  <2>1. CASE k = n + 1
    <3>1. \A j \in (k + 1)..(n + 1) : FALSE
      BY <1>1, <2>1
    <3> QED BY <1>1, <1>5, <2>1, <3>1
  <2>2. CASE k \in 1..n
    <3>1. \A j \in (k + 1)..(n + 1) : (j \in (k + 1)..n /\ s[j] = t[j]) \/ j = n + 1
      BY <1>1
    <3> QED BY <1>1, <1>3, <1>5, <2>2, <3>1
  <2> QED BY <1>1, <2>1, <2>2
<1>6. Ordered(s, free) <=> (Ordered(t, free) /\ In1(e) /\ \A k \in 1..n : In2(t[k], e))
  BY <1>4, <1>5
<1> QED
  BY <1>6 DEF In1, In2, s, n

\* Write protection.
LEMMA GuardedAppended ==
  ASSUME NEW t \in Seq(FrameType), NEW e \in FrameType
  PROVE  /\ Static(Append(t, e)) <=> (Static(t) \/ e.static)
         /\ FirstProtects(Append(t, e)) <=>
              (FirstProtects(t) /\ (e.protects <=> (e.static /\ ~Static(t))))
<1> DEFINE n == Len(t)
           s == Append(t, e)
<1>1. n \in Nat /\ Len(s) = n + 1 /\ s[n + 1] = e /\ \A k \in 1..n : s[k] = t[k]
  BY Elements
<1> HIDE DEF s
<1>2. \A k \in 1..(n + 1) : k = n + 1 \/ k \in 1..n
  BY <1>1
<1>3. n + 1 \in 1..(n + 1) /\ \A k \in 1..n : k \in 1..(n + 1)
  BY <1>1
<1>4. 1..((n + 1) - 1) = 1..n /\ \A k \in 1..n : \A j \in 1..(k - 1) : j \in 1..n
  BY <1>1
<1>5. Static(s) <=> \E k \in 1..(n + 1) : s[k].static
  BY <1>1 DEF Static
<1>6. Static(t) <=> \E k \in 1..n : t[k].static
  BY DEF Static
<1>7. FirstProtects(s) <=>
        \A k \in 1..(n + 1) : s[k].protects <=> (s[k].static /\ \A j \in 1..(k - 1) : ~s[j].static)
  BY <1>1 DEF FirstProtects
<1>8. FirstProtects(t) <=>
        \A k \in 1..n : t[k].protects <=> (t[k].static /\ \A j \in 1..(k - 1) : ~t[j].static)
  BY DEF FirstProtects
<1> HIDE DEF n
<1>9. Static(s) <=> (Static(t) \/ e.static)
  BY <1>1, <1>2, <1>3, <1>5, <1>6
<1>10. ASSUME NEW k \in 1..n
       PROVE  (\A j \in 1..(k - 1) : ~s[j].static) <=> (\A j \in 1..(k - 1) : ~t[j].static)
  BY <1>1, <1>4
<1>11. (\A j \in 1..((n + 1) - 1) : ~s[j].static) <=> ~Static(t)
  <2>1. (\A j \in 1..((n + 1) - 1) : ~s[j].static) <=> (\A j \in 1..n : ~s[j].static)
    BY <1>4
  <2> QED BY <1>1, <1>6, <2>1
<1>12. FirstProtects(s) <=> (FirstProtects(t) /\ (e.protects <=> (e.static /\ ~Static(t))))
  <2>1. FirstProtects(s) <=>
          /\ \A k \in 1..n : s[k].protects <=> (s[k].static /\ \A j \in 1..(k - 1) : ~s[j].static)
          /\ s[n + 1].protects <=> (s[n + 1].static /\ \A j \in 1..((n + 1) - 1) : ~s[j].static)
    BY <1>2, <1>3, <1>7
  <2>2. (\A k \in 1..n : s[k].protects <=> (s[k].static /\ \A j \in 1..(k - 1) : ~s[j].static))
        <=> FirstProtects(t)
    BY <1>1, <1>8, <1>10
  <2> QED BY <1>1, <1>11, <2>1, <2>2, Zenon
<1> QED
  BY <1>9, <1>12 DEF s

-----------------------------------------------------------------------------
(* What a step does to the nested runs keeps the invariant.                *)

\* Of a run that goes on, only gas, stack, memory and pc change.
Same(f, g) ==
  /\ g.kind = f.kind /\ g.code = f.code /\ g.out = f.out
  /\ g.unchecked = f.unchecked /\ g.static = f.static /\ g.protects = f.protects

\* ReservedAfter, of any state.
FreeAfter(m, new, free) ==
  IF new.len = m.len \/ ~m.pooled THEN free
  ELSE IF new.pooled THEN new.off + new.len ELSE m.off

\* The types of a memory's fields.
LEMMA MemoryFields ==
  ASSUME NEW f \in FrameType
  PROVE  /\ f.mem.len \in Nat /\ f.mem.off \in 0..PoolSize /\ f.mem.off \in Nat
         /\ f.mem.pooled \in BOOLEAN
BY InterpreterAssumption DEF FrameType, MemoryType

\* The last run goes on with a memory that may have grown.
LEMMA RunReplaced ==
  ASSUME NEW t \in Seq(FrameType), NEW f \in FrameType, NEW g \in FrameType, NEW free \in 0..PoolSize, NEW on,
         Runs(Append(t, f), free, on), Same(f, g), Resized(f.mem, g.mem), Lands(g)
  PROVE  /\ Runs(Append(t, g), FreeAfter(f.mem, g.mem, free), on)
         /\ FreeAfter(f.mem, g.mem, free) \in 0..PoolSize
<1> DEFINE now == FreeAfter(f.mem, g.mem, free)
<1>1. /\ Append(t, g) \in Seq(FrameType) /\ Len(Append(t, g)) = Len(Append(t, f))
      /\ Append(t, f) # <<>> /\ Append(t, g) # <<>>
  BY AppendProperties
<1>2. Landed(Append(t, g))
  BY LandedAppended DEF Runs
<1>3. Awaited(Append(t, g))
  BY AwaitedAppended DEF Runs, Same
<1>4. Guarded(Append(t, g), on)
  <2>1. Guarded(Append(t, f), on)
    BY <1>1 DEF Runs
  <2>2. (Static(Append(t, f)) <=> (Static(t) \/ f.static)) /\ (Static(Append(t, g)) <=> (Static(t) \/ g.static))
    BY GuardedAppended
  <2>3. /\ FirstProtects(Append(t, f)) <=> (FirstProtects(t) /\ (f.protects <=> (f.static /\ ~Static(t))))
        /\ FirstProtects(Append(t, g)) <=> (FirstProtects(t) /\ (g.protects <=> (g.static /\ ~Static(t))))
    BY GuardedAppended
  <2>4. g.static = f.static /\ g.protects = f.protects
    BY DEF Same
  <2> QED BY <2>1, <2>2, <2>3, <2>4, Zenon DEF Guarded
<1>5. /\ Ordered(t, free)
      /\ f.mem.pooled => f.mem.off + f.mem.len <= free
      /\ f.mem.pooled => \A k \in 1..Len(t) :
           t[k].mem.pooled => t[k].mem.off + t[k].mem.len <= f.mem.off
  BY OrderedAppended DEF Runs
<1>6. /\ f.mem.len \in Nat /\ f.mem.off \in 0..PoolSize /\ f.mem.pooled \in BOOLEAN
      /\ g.mem.len \in Nat /\ g.mem.off \in 0..PoolSize /\ g.mem.pooled \in BOOLEAN /\ PoolSize \in Nat
      /\ \A k \in 1..Len(t) : t[k].mem.off + t[k].mem.len \in Nat
  <2>1. \A k \in 1..Len(t) : t[k] \in FrameType
    OBVIOUS
  <2> QED BY <2>1, MemoryFields, InterpreterAssumption
<1>7. /\ Ordered(t, now) /\ now \in 0..PoolSize
      /\ g.mem.pooled => g.mem.off + g.mem.len <= now
      /\ g.mem.pooled => \A k \in 1..Len(t) :
           t[k].mem.pooled => t[k].mem.off + t[k].mem.len <= g.mem.off
  <2>1. CASE g.mem.len = f.mem.len \/ ~f.mem.pooled
    <3>1. now = free
      BY <2>1 DEF FreeAfter
    <3>2. g.mem.pooled => f.mem.pooled /\ g.mem.len = f.mem.len /\ g.mem.off = f.mem.off
      BY <2>1 DEF Resized
    <3> HIDE DEF now
    <3> QED BY <1>5, <1>6, <3>1, <3>2
  <2>2. CASE g.mem.len # f.mem.len /\ f.mem.pooled
    <3>1. now = IF g.mem.pooled THEN g.mem.off + g.mem.len ELSE f.mem.off
      BY <2>2 DEF FreeAfter
    <3>2. g.mem.off = f.mem.off /\ (g.mem.pooled => g.mem.off + g.mem.len <= PoolSize)
      BY <2>2 DEF Resized
    <3> HIDE DEF now
    <3>3. now \in 0..PoolSize /\ now >= f.mem.off
      BY <1>6, <3>1, <3>2
    <3>4. \A k \in 1..Len(t) : t[k].mem.pooled => t[k].mem.off + t[k].mem.len <= now
      BY <1>5, <1>6, <2>2, <3>3
    <3>5. Ordered(t, now)
      BY <1>5, <3>4 DEF Ordered
    <3> QED BY <1>5, <1>6, <2>2, <3>1, <3>2, <3>3, <3>5
  <2> QED BY <2>1, <2>2
<1> HIDE DEF now
<1>8. Ordered(Append(t, g), now)
  BY <1>7, OrderedAppended
<1> QED
  BY <1>1, <1>2, <1>3, <1>4, <1>7, <1>8 DEF Runs, now

\* A run that begins.
LEMMA RunPushed ==
  ASSUME NEW t \in Seq(FrameType), NEW c \in FrameType, NEW e \in FrameType, NEW free \in 0..PoolSize,
         NEW on \in BOOLEAN, Runs(Append(t, c), free, on), Len(t) < CallCreateDepth,
         Waits(c), Lands(e), e.mem.len = 0, e.mem.off = free,
         e.protects <=> (e.static /\ ~on),
         e.kind = "call" => e.unchecked \/ Covered(e.out, c.mem.len)
  PROVE  Runs(Append(Append(t, c), e), free, on \/ e.static)
<1> DEFINE s == Append(t, c)
<1>1. s \in Seq(FrameType) /\ s # <<>> /\ Len(s) = Len(t) + 1 /\ s[Len(t) + 1] = c /\ Len(t) \in Nat
  BY AppendProperties
<1>2. /\ Append(s, e) \in Seq(FrameType) /\ Len(Append(s, e)) <= CallCreateDepth + 1
      /\ Append(s, e) # <<>>
  <2> HIDE DEF s
  <2>1. Append(s, e) \in Seq(FrameType) /\ Len(Append(s, e)) = Len(s) + 1 /\ Append(s, e) # <<>>
    BY <1>1, AppendProperties
  <2> QED BY <1>1, <2>1, InterpreterAssumption
<1>w. AllWait(s)
  <2>1. AllWait(t) /\ Lands(c)
    BY LandedAppended DEF Runs
  <2> QED BY <2>1, LandedAppended
<1> HIDE DEF s
<1>3. Landed(Append(s, e))
  BY <1>1, <1>w, LandedAppended
<1>4. Runs(s, free, on)
  BY DEF s
<1>5. Awaited(Append(s, e))
  BY <1>1, <1>4, AwaitedAppended DEF Runs
<1>6. Guarded(Append(s, e), on \/ e.static)
  <2>1. Guarded(s, on)
    BY <1>1, <1>4 DEF Runs
  <2>2. /\ Static(Append(s, e)) <=> (Static(s) \/ e.static)
        /\ FirstProtects(Append(s, e)) <=> (FirstProtects(s) /\ (e.protects <=> (e.static /\ ~Static(s))))
    BY <1>1, GuardedAppended
  <2> QED BY <2>1, <2>2, Zenon DEF Guarded
<1>7. Ordered(Append(s, e), free)
  <2>1. Ordered(s, free)
    BY <1>4 DEF Runs
  <2>2. free + 0 = free /\ free <= free
    BY InterpreterAssumption
  <2>3. \A k \in 1..Len(s) : s[k].mem.pooled => s[k].mem.off + s[k].mem.len <= free
    BY <2>1 DEF Ordered
  <2> QED BY <1>1, <2>1, <2>2, <2>3, OrderedAppended
<1> QED
  BY <1>2, <1>3, <1>5, <1>6, <1>7 DEF Runs, s

\* A run that ends.
LEMMA RunPopped ==
  ASSUME NEW t \in Seq(FrameType), t # <<>>, NEW f \in FrameType, NEW free \in 0..PoolSize,
         NEW on \in BOOLEAN, Runs(Append(t, f), free, on)
  PROVE  /\ Runs(t, IF f.mem.pooled THEN f.mem.off ELSE free, on /\ ~f.protects)
         /\ (IF f.mem.pooled THEN f.mem.off ELSE free) \in 0..PoolSize
         /\ AllWait(t)
<1> DEFINE now == IF f.mem.pooled THEN f.mem.off ELSE free
<1>1. Len(Append(t, f)) = Len(t) + 1 /\ Len(t) \in Nat /\ Append(t, f) # <<>>
  BY AppendProperties
<1>2. Len(t) <= CallCreateDepth + 1
  BY <1>1, InterpreterAssumption DEF Runs
<1>3. AllWait(t)
  BY LandedAppended DEF Runs
<1>4. Landed(t) /\ Awaited(t)
  BY <1>3, AwaitedAppended DEF Runs, Landed, AllWait
<1>5. Guarded(t, on /\ ~f.protects)
  <2>1. Guarded(Append(t, f), on)
    BY <1>1 DEF Runs
  <2>2. /\ Static(Append(t, f)) <=> (Static(t) \/ f.static)
        /\ FirstProtects(Append(t, f)) <=> (FirstProtects(t) /\ (f.protects <=> (f.static /\ ~Static(t))))
    BY GuardedAppended
  <2> QED BY <2>1, <2>2, Zenon DEF Guarded
<1>6. /\ Ordered(t, free)
      /\ f.mem.pooled => \A k \in 1..Len(t) :
           t[k].mem.pooled => t[k].mem.off + t[k].mem.len <= f.mem.off
  BY OrderedAppended DEF Runs
<1>7. Ordered(t, now) /\ now \in 0..PoolSize
  <2>1. f.mem.off \in 0..PoolSize
    BY MemoryFields
  <2>2. CASE f.mem.pooled
    BY <1>6, <2>1, <2>2 DEF Ordered
  <2>3. CASE ~f.mem.pooled
    BY <1>6, <2>3
  <2> QED BY <2>2, <2>3
<1> HIDE DEF now
<1> QED
  BY <1>2, <1>3, <1>4, <1>5, <1>7 DEF Runs, now

\* Control goes on after an instruction and its data.
LEMMA GoesOn ==
  ASSUME NEW f \in FrameType, NEW g \in FrameType, Lands(f), g.code = f.code, NEW d \in Nat,
         f.pc < Len(f.code) => PushData(f.code[f.pc + 1]) = d, g.pc = f.pc + 1 + d
  PROVE  Lands(g)
<1>1. f.code \in Codes /\ f.pc \in Nat /\ Len(f.code) \in Nat
  BY CodeAssumption DEF FrameType
<1> SUFFICES ASSUME g.pc < Len(f.code) PROVE g.pc \in Starts(f.code)
  BY DEF Lands
<1>2. f.pc < Len(f.code)
  BY <1>1
<1>3. Following(f.code, f.pc) = g.pc
  BY <1>2 DEF Following
<1>4. f.pc \in Starts(f.code)
  BY <1>2 DEF Lands
<1> QED
  BY <1>1, <1>2, <1>3, <1>4, StartsLeast DEF ClosedIn

-----------------------------------------------------------------------------
(* The steps.                                                              *)

\* What every step keeps or does: the invariant but for wrote and steps, and that gas
\* is taken or a run ends.
Kept ==
  /\ Runs(frames', reserved', read_only')
  /\ reserved' \in 0..PoolSize /\ last_retval' \in 0..MaxU64 /\ read_only' \in BOOLEAN
  /\ access' \in [covered : BOOLEAN, unchecked : BOOLEAN]
  /\ access'.covered \/ access'.unchecked
  /\ frames' # <<>> =>
       \/ TotalGas(frames') < TotalGas(frames)
       \/ TotalGas(frames') <= TotalGas(frames) /\ Len(frames') < Len(frames)

\* When no run is left there is nothing to keep.
LEMMA RunsEmpty ==
  ASSUME NEW free, NEW on
  PROVE  Runs(<<>>, free, on)
BY InterpreterAssumption DEF Runs, Landed, Awaited, Ordered

\* The last run and the ones below it.
LEMMA TopBelow ==
  ASSUME Invariant, frames # <<>>
  PROVE  /\ Below \in Seq(FrameType) /\ Top \in FrameType /\ frames = Append(Below, Top)
         /\ Len(frames) = Len(Below) + 1 /\ Len(Below) \in Nat
         /\ TotalGas(frames) = TotalGas(Below) + Top.gas
         /\ TotalGas(Below) \in Nat /\ Top.gas \in Nat
         /\ Runs(Append(Below, Top), reserved, read_only) /\ Lands(Top)
<1>1. frames \in Seq(FrameType) /\ Runs(frames, reserved, read_only)
  BY DEF Invariant, Runs
<1>2. /\ Below \in Seq(FrameType) /\ Top \in FrameType /\ frames = Append(Below, Top)
      /\ Len(Below) = Len(frames) - 1 /\ Len(frames) \in Nat \ {0}
  BY <1>1, FrontLast DEF Top, Below
<1>3. TotalGas(Append(Below, Top)) = TotalGas(Below) + Top.gas /\ TotalGas(Below) \in Nat
  BY <1>2, GasAppended, GasOfFrames
<1>4. Top.gas \in Nat
  BY <1>2 DEF FrameType
<1>5. Runs(Append(Below, Top), reserved, read_only)
  BY <1>1, <1>2
<1>6. Lands(Top)
  BY <1>2, <1>5, LandedAppended DEF Runs
<1> QED
  BY <1>2, <1>3, <1>4, <1>5, <1>6

\* An instruction a run comes to is one of the set; what goes with it is data.
LEMMA InstructionFound ==
  ASSUME NEW f \in FrameType, NEW i \in InstructionsAt(f), i # Invalid
  PROVE  /\ i \in Instructions
         /\ f.pc < Len(f.code) => PushData(f.code[f.pc + 1]) = PushData(i)
         /\ i.op \in CallOps \cup CreateOps => f.pc < Len(f.code) /\ PushData(i) = 0
<1>1. /\ f.code \in Seq(Instructions \cup {AnyOp, Invalid}) /\ f.pc \in Nat /\ Len(f.code) \in Nat
  BY CodeAssumption DEF FrameType
<1>2. I("STOP") \in Instructions /\ I("STOP") # AnyOp /\ I("STOP").op = "STOP"
  BY DEF Instructions, PushOps, DupOps, SwapOps, LogOps, Family, AnyOp, I
<1>3. f.pc < Len(f.code) => f.code[f.pc + 1] \in Instructions \cup {AnyOp, Invalid}
  BY <1>1
<1>4. i.op \in CallOps \cup CreateOps => PushData(i) = 0 /\ i.op # "STOP"
  BY DEF CallOps, CreateOps, PushData
<1>5. CASE GetOp(f.code, f.pc) = AnyOp
  <2>1. i \in Instructions /\ i.op # "PUSH"
    BY <1>5 DEF InstructionsAt
  <2>2. f.pc < Len(f.code) /\ f.code[f.pc + 1] = AnyOp
    BY <1>1, <1>2, <1>5 DEF GetOp
  <2>3. PushData(AnyOp) = 0 /\ PushData(i) = 0
    BY <2>1 DEF PushData, AnyOp, I
  <2> QED BY <1>4, <2>1, <2>2, <2>3
<1>6. CASE GetOp(f.code, f.pc) # AnyOp
  <2>1. i = GetOp(f.code, f.pc)
    BY <1>6 DEF InstructionsAt
  <2>2. CASE f.pc < Len(f.code)
    <3>1. i = f.code[f.pc + 1]
      BY <2>1, <2>2 DEF GetOp
    <3> QED BY <1>3, <1>4, <1>6, <2>1, <2>2, <3>1
  <2>3. CASE ~(f.pc < Len(f.code))
    <3>1. i = I("STOP")
      BY <2>1, <2>3 DEF GetOp
    <3> QED BY <1>2, <1>4, <2>3, <3>1
  <2> QED BY <2>2, <2>3
<1> QED
  BY <1>5, <1>6

\* ReservedAfter stays in the pool.
LEMMA FreeInPool ==
  ASSUME NEW f \in FrameType, NEW g \in FrameType, Resized(f.mem, g.mem), NEW free \in 0..PoolSize
  PROVE  FreeAfter(f.mem, g.mem, free) \in 0..PoolSize
<1>1. /\ f.mem.len \in Nat /\ f.mem.off \in 0..PoolSize
      /\ g.mem.len \in Nat /\ g.mem.off \in 0..PoolSize /\ PoolSize \in Nat
  BY MemoryFields, InterpreterAssumption
<1>2. g.mem.pooled /\ g.mem.len # f.mem.len => g.mem.off + g.mem.len <= PoolSize
  BY DEF Resized
<1> QED
  BY <1>1, <1>2 DEF FreeAfter

\* A caller that goes on after its call.
LEMMA Resumed ==
  ASSUME NEW c \in FrameType, NEW gas \in Nat
  PROVE  LET d == [c EXCEPT !.gas = @ + gas, !.pc = @ + 1]
         IN  /\ d \in FrameType /\ Same(c, d) /\ d.mem = c.mem
             /\ d.gas = c.gas + gas /\ d.pc = c.pc + 1
<1> DEFINE d == [c EXCEPT !.gas = @ + gas, !.pc = @ + 1]
<1>1. c.gas + gas \in Nat /\ c.pc + 1 \in Nat
  BY DEF FrameType
<1>2. PICK a : a = [c EXCEPT !.gas = c.gas + gas]
  OBVIOUS
<1>3. /\ a \in FrameType /\ Same(c, a) /\ a.mem = c.mem
      /\ a.gas = c.gas + gas /\ a.pc = c.pc
  BY <1>1, <1>2 DEF FrameType, Same
<1>4. PICK e : e = d
  OBVIOUS
<1>5. e = [a EXCEPT !.pc = c.pc + 1]
  BY <1>2, <1>4, Zenon
<1>6. /\ e \in FrameType /\ Same(a, e) /\ e.mem = a.mem
      /\ e.gas = a.gas /\ e.pc = c.pc + 1
  BY <1>1, <1>3, <1>5 DEF FrameType, Same
<1>7. Same(c, e)
  BY <1>3, <1>6 DEF Same
<1> QED
  BY <1>3, <1>4, <1>6, <1>7

\* A run ends, with the gas and the data its caller gets.
LEMMA LeaveKeeps ==
  ASSUME Invariant, frames # <<>>, NEW f \in FrameType, Same(Top, f), f.gas <= Top.gas,
         NEW outcome, NEW ret \in 0..MaxU64, Leave(f, outcome, ret)
  PROVE  Kept
<1> DEFINE stored == f.kind = "create" /\ outcome = "ok"
           done == IF stored /\ ~Stores(f, ret) THEN "failed" ELSE outcome
           gas == IF done = "failed" THEN 0 ELSE IF stored THEN f.gas - 200 * ret ELSE f.gas
           data == IF done = "reverted" \/ (done = "ok" /\ f.kind = "call") THEN ret ELSE 0
           now == IF Top.mem.pooled THEN Top.mem.off ELSE reserved
           copied == done # "failed"
<1>1. /\ reserved' = now /\ read_only' = (read_only /\ ~f.protects)
      /\ Below = <<>> => frames' = <<>> /\ access' = NoAccess /\ last_retval' = last_retval
      /\ Below # <<>> => Returned(Front(Below), Last(Below), f, gas, data, copied)
  BY DEF Leave, Unprotected
<1>2. /\ Below \in Seq(FrameType) /\ Top \in FrameType /\ frames = Append(Below, Top)
      /\ Len(frames) = Len(Below) + 1 /\ Len(Below) \in Nat
      /\ TotalGas(frames) = TotalGas(Below) + Top.gas
      /\ TotalGas(Below) \in Nat /\ Top.gas \in Nat
      /\ Runs(Append(Below, Top), reserved, read_only)
  BY TopBelow
<1>3. reserved \in 0..PoolSize /\ read_only \in BOOLEAN /\ last_retval \in 0..MaxU64 /\ f.gas \in Nat
  BY DEF Invariant, FrameType
<1>4. gas \in Nat /\ gas <= f.gas
  <2>1. done # "failed" /\ stored => 200 * ret <= f.gas
    BY DEF Stores
  <2>2. 200 * ret \in Nat
    BY InterpreterAssumption
  <2> HIDE DEF done, stored
  <2> QED BY <1>3, <2>1, <2>2
<1>5. data \in 0..MaxU64
  BY InterpreterAssumption
<1>n. now \in 0..PoolSize
  BY <1>2, <1>3, MemoryFields
<1>a. NoAccess \in [covered : BOOLEAN, unchecked : BOOLEAN] /\ NoAccess.covered
  BY DEF NoAccess
<1>r. read_only' \in BOOLEAN /\ f.protects = Top.protects
  BY <1>1 DEF Same
<1> HIDE DEF stored, done, gas, data, now, copied
<1>6. CASE Below = <<>>
  BY <1>1, <1>3, <1>6, <1>n, <1>a, <1>r, RunsEmpty DEF Kept
<1>7. CASE Below # <<>>
  <2>1. PICK t, c : t = Front(Below) /\ c = Last(Below)
    OBVIOUS
  <2>2. /\ t \in Seq(FrameType) /\ c \in FrameType /\ Below = Append(t, c)
        /\ Len(t) = Len(Below) - 1 /\ c = Below[Len(Below)] /\ Len(Below) >= 1
    BY <1>2, <1>7, <2>1, FrontLast DEF Last
  <2>3. Runs(Below, now, read_only /\ ~Top.protects) /\ AllWait(Below)
    BY <1>2, <1>3, <1>7, RunPopped DEF now
  <2>4. Runs(Append(t, c), now, read_only') /\ Lands(c) /\ Waits(c)
    <3>1. read_only' = (read_only /\ ~Top.protects)
      BY <1>1, <1>r
    <3>2. Lands(c) /\ Waits(c)
      BY <2>2, <2>3, LandedAppended
    <3> QED BY <2>2, <2>3, <3>1, <3>2, Zenon
  <2>5. CASE f.kind = "call" /\ copied /\ ~Covered(f.out, c.mem.len)
    <3>1. /\ frames' = <<>> /\ access' = [covered |-> FALSE, unchecked |-> f.unchecked]
          /\ last_retval' = last_retval
      BY <1>1, <1>7, <2>1, <2>5 DEF Returned, Panic
    <3>2. Top.kind = "call" => Top.unchecked \/ Covered(Top.out, c.mem.len)
      BY <1>2, <2>2, AwaitedAppended DEF Runs
    <3>3. f.unchecked = TRUE
      BY <2>5, <3>2 DEF Same, FrameType
    <3>4. access' = [covered |-> FALSE, unchecked |-> TRUE]
      BY <3>1, <3>3, Zenon
    <3>5. access' \in [covered : BOOLEAN, unchecked : BOOLEAN] /\ access'.unchecked
      BY <3>4
    <3> QED BY <1>1, <1>3, <1>n, <1>r, <3>1, <3>5, RunsEmpty DEF Kept
  <2>6. CASE ~(f.kind = "call" /\ copied /\ ~Covered(f.out, c.mem.len))
    <3> DEFINE d == [c EXCEPT !.gas = @ + gas, !.pc = @ + 1]
    <3>1. frames' = Append(t, d) /\ last_retval' = data /\ access' = NoAccess
      BY <1>1, <1>7, <2>1, <2>6 DEF Returned
    <3>2. c.gas \in Nat /\ c.pc \in Nat
      BY <2>2 DEF FrameType
    <3>3. /\ d \in FrameType /\ Same(c, d) /\ d.mem = c.mem /\ d.gas = c.gas + gas /\ d.pc = c.pc + 1
      BY <1>4, <2>2, Resumed
    <3> HIDE DEF d
    <3>4. Resized(c.mem, d.mem) /\ FreeAfter(c.mem, d.mem, now) = now
      <4>1. c.mem.len \in Nat
        BY <2>2, MemoryFields
      <4> QED BY <3>3, <4>1 DEF Resized, FreeAfter
    <3>5. Lands(d)
      <4>1. 0 \in Nat /\ d.pc = c.pc + 1 + 0 /\ PushData(c.code[c.pc + 1]) = 0 /\ d.code = c.code
        BY <2>4, <3>2, <3>3 DEF Waits, Same
      <4> QED BY <2>2, <2>4, <3>3, <4>1, GoesOn
    <3>6. Runs(Append(t, d), now, read_only')
      BY <1>n, <2>2, <2>4, <3>3, <3>4, <3>5, RunReplaced
    <3>7. TotalGas(Append(t, d)) = TotalGas(t) + d.gas /\ TotalGas(Below) = TotalGas(t) + c.gas /\ TotalGas(t) \in Nat
      BY <2>2, <3>3, GasAppended, GasOfFrames
    <3>8. TotalGas(frames') <= TotalGas(frames)
      <4>1. TotalGas(frames') = TotalGas(t) + (c.gas + gas)
        BY <3>1, <3>3, <3>7, Zenon
      <4>2. TotalGas(frames) = (TotalGas(t) + c.gas) + Top.gas
        BY <1>2, <3>7, Zenon
      <4>3. TotalGas(t) \in Nat
        BY <3>7
      <4>4. \A a, b, h, q, x \in Nat : h <= q /\ q <= x => a + (b + h) <= (a + b) + x
        OBVIOUS
      <4>5. gas \in Nat /\ f.gas \in Nat /\ Top.gas \in Nat /\ gas <= f.gas /\ f.gas <= Top.gas
        BY <1>2, <1>3, <1>4
      <4>6. TotalGas(t) + (c.gas + gas) <= (TotalGas(t) + c.gas) + Top.gas
        BY <3>2, <4>3, <4>4, <4>5
      <4> QED BY <4>1, <4>2, <4>6
    <3>9. Len(frames') < Len(frames)
      <4>1. Len(Append(t, d)) = Len(t) + 1 /\ Len(t) \in Nat
        BY <2>2, <3>3, Elements
      <4> QED BY <1>2, <2>2, <3>1, <4>1
    <3> QED BY <1>1, <1>5, <1>n, <1>a, <1>r, <3>1, <3>6, <3>8, <3>9 DEF Kept
  <2> QED BY <2>5, <2>6
<1> QED
  BY <1>6, <1>7

\* A run begins with its first instruction and no memory, where the pool is free.
LEMMA RunBegins ==
  ASSUME read_only \in BOOLEAN, NEW kind \in {"call", "create"}, NEW gas \in Nat, NEW height \in Heights,
         2 * height <= gas, NEW code \in Codes, NEW used \in 0..PoolSize, NEW out \in Region,
         NEW unchecked \in BOOLEAN, NEW static \in BOOLEAN
  PROVE  LET e == NewFrame(kind, gas, height, code, used, out, unchecked, static)
         IN  /\ e \in FrameType /\ Lands(e) /\ e.mem.len = 0 /\ e.mem.off = used
             /\ e.gas = gas - 2 * height /\ e.gas <= gas /\ e.kind = kind /\ e.out = out
             /\ e.unchecked = unchecked /\ e.static = static
             /\ e.protects <=> (static /\ ~read_only)
<1>1. PICK p \in BOOLEAN : p = (static /\ ~read_only)
  OBVIOUS
<1>2. PICK e : e = NewFrame(kind, gas, height, code, used, out, unchecked, static)
  OBVIOUS
<1>3. e = [kind |-> kind, gas |-> gas - 2 * height, height |-> height, code |-> code, pc |-> 0,
           mem |-> NewMemory(used), out |-> out, unchecked |-> unchecked, static |-> static, protects |-> p]
  BY <1>1, <1>2, Zenon DEF NewFrame
<1>4. NewMemory(used) \in MemoryType /\ NewMemory(used).len = 0 /\ NewMemory(used).off = used
  BY InterpreterAssumption DEF NewMemory, MemoryType
<1>5. height \in 0..StackLimit /\ gas - 2 * height \in Nat /\ gas - 2 * height <= gas
  BY InterpreterAssumption
<1> HIDE DEF NewMemory
<1>6. /\ e.gas = gas - 2 * height /\ e.kind = kind /\ e.out = out /\ e.mem = NewMemory(used)
      /\ e.unchecked = unchecked /\ e.static = static /\ e.protects = p /\ e.pc = 0 /\ e.code = code
  BY <1>3
<1>7. e \in FrameType
  BY <1>3, <1>4, <1>5 DEF FrameType
<1>8. Lands(e)
  BY <1>6, StartsLeast DEF Lands, ClosedIn
<1>9. e.protects <=> (static /\ ~read_only)
  BY <1>1, <1>6, Zenon
<1> QED
  BY <1>2, <1>4, <1>5, <1>6, <1>7, <1>8, <1>9

\* A call or creation: the caller has paid, and what it gives away with what it keeps is
\* less than it had.
LEMMA NestKeeps ==
  ASSUME Invariant, frames # <<>>, NEW i, NEW x, NEW c \in FrameType, Same(Top, c), c.pc = Top.pc,
         Resized(Top.mem, c.mem), Waits(Top), NEW gas \in Nat, c.gas + gas < Top.gas,
         NEW call, call.kind \in {"call", "create"}, call.out \in Region, call.unchecked \in BOOLEAN,
         call.kind = "call" => call.unchecked \/ Covered(call.out, c.mem.len),
         NEW atOnce, \A r \in atOnce : r.gas \in 0..gas /\ r.ret \in 0..MaxU64,
         Nest(i, x, c, call, gas, atOnce)
  PROVE  Kept
<1> DEFINE used == FreeAfter(Top.mem, c.mem, reserved)
           static == i.op = "STATICCALL"
<1>1. /\ Below \in Seq(FrameType) /\ Top \in FrameType /\ frames = Append(Below, Top)
      /\ Len(frames) = Len(Below) + 1 /\ Len(Below) \in Nat
      /\ TotalGas(frames) = TotalGas(Below) + Top.gas
      /\ TotalGas(Below) \in Nat /\ Top.gas \in Nat
      /\ Runs(Append(Below, Top), reserved, read_only) /\ Lands(Top)
  BY TopBelow
<1>2. reserved \in 0..PoolSize /\ read_only \in BOOLEAN /\ last_retval \in 0..MaxU64
  BY DEF Invariant
<1>3. /\ reserved' = used
      /\ \/ /\ \E r \in atOnce : Returned(Below, c, call, r.gas, r.ret, r.copied)
            /\ read_only' = read_only
         \/ /\ Len(frames) <= CallCreateDepth
            /\ \E code \in Codes, height \in Heights :
                 /\ 2 * height <= gas
                 /\ frames' = Append(Append(Below, c),
                                     NewFrame(call.kind, gas, height, code, used, call.out,
                                              call.unchecked, static))
            /\ read_only' = (read_only \/ static)
            /\ last_retval' = 0
            /\ access' = NoAccess
  BY DEF Nest, ReservedAfter, FreeAfter
<1>4. used \in 0..PoolSize
  BY <1>1, <1>2, FreeInPool
<1>a. NoAccess \in [covered : BOOLEAN, unchecked : BOOLEAN] /\ NoAccess.covered
  BY DEF NoAccess
<1>g. c.gas \in Nat /\ c.code = Top.code /\ Top.code \in Codes /\ c.pc \in Nat
  BY <1>1 DEF FrameType, Same
<1>l. Lands(c) /\ Waits(c)
  BY <1>1, <1>g DEF Lands, Waits
<1>s. static \in BOOLEAN
  OBVIOUS
<1> HIDE DEF used, static
<1>5. CASE \E r \in atOnce : Returned(Below, c, call, r.gas, r.ret, r.copied) /\ read_only' = read_only
  <2>1. PICK r \in atOnce : Returned(Below, c, call, r.gas, r.ret, r.copied) /\ read_only' = read_only
    BY <1>5
  <2>2. PICK back \in 0..gas : back = r.gas
    OBVIOUS
  <2>3. CASE call.kind = "call" /\ r.copied /\ ~Covered(call.out, c.mem.len)
    <3>1. /\ frames' = <<>> /\ access' = [covered |-> FALSE, unchecked |-> call.unchecked]
          /\ last_retval' = last_retval
      BY <2>1, <2>3 DEF Returned, Panic
    <3>2. call.unchecked = TRUE
      BY <2>3
    <3>3. access' = [covered |-> FALSE, unchecked |-> TRUE]
      BY <3>1, <3>2, Zenon
    <3>4. access' \in [covered : BOOLEAN, unchecked : BOOLEAN] /\ access'.unchecked
      BY <3>3
    <3> QED BY <1>2, <1>3, <1>4, <2>1, <3>1, <3>4, RunsEmpty DEF Kept
  <2>4. CASE ~(call.kind = "call" /\ r.copied /\ ~Covered(call.out, c.mem.len))
    <3> DEFINE d == [c EXCEPT !.gas = @ + back, !.pc = @ + 1]
    <3>1. frames' = Append(Below, d) /\ last_retval' = r.ret /\ access' = NoAccess
      BY <2>1, <2>2, <2>4 DEF Returned
    <3>2. back \in Nat
      OBVIOUS
    <3>3. d \in FrameType /\ Same(c, d) /\ d.mem = c.mem /\ d.gas = c.gas + back /\ d.pc = c.pc + 1
      BY <3>2, Resumed
    <3> HIDE DEF d
    <3>4. Same(Top, d) /\ Resized(Top.mem, d.mem) /\ FreeAfter(Top.mem, d.mem, reserved) = used
      BY <3>3 DEF Same, used
    <3>5. Lands(d)
      <4>1. 0 \in Nat /\ d.pc = c.pc + 1 + 0 /\ PushData(c.code[c.pc + 1]) = 0 /\ d.code = c.code
        BY <1>g, <1>l, <3>3 DEF Waits, Same
      <4> QED BY <1>l, <3>3, <4>1, GoesOn
    <3>6. Runs(Append(Below, d), used, read_only)
      BY <1>1, <1>2, <3>3, <3>4, <3>5, RunReplaced
    <3>7. TotalGas(frames') < TotalGas(frames)
      <4>1. TotalGas(Append(Below, d)) = TotalGas(Below) + d.gas
        BY <1>1, <3>3, GasAppended
      <4>2. TotalGas(frames') = TotalGas(Below) + (c.gas + back)
        BY <3>1, <3>3, <4>1, Zenon
      <4>3. c.gas + back < Top.gas
        BY <1>1, <1>g
      <4> QED BY <1>1, <1>g, <4>2, <4>3
    <3> QED BY <1>2, <1>3, <1>4, <1>a, <2>1, <3>1, <3>6, <3>7 DEF Kept
  <2> QED BY <2>3, <2>4
<1>6. CASE /\ Len(frames) <= CallCreateDepth
           /\ \E code \in Codes, height \in Heights :
                /\ 2 * height <= gas
                /\ frames' = Append(Append(Below, c),
                                    NewFrame(call.kind, gas, height, code, used, call.out,
                                             call.unchecked, static))
           /\ read_only' = (read_only \/ static)
           /\ last_retval' = 0
           /\ access' = NoAccess
  <2>1. PICK code \in Codes, height \in Heights :
             /\ 2 * height <= gas
             /\ frames' = Append(Append(Below, c),
                                 NewFrame(call.kind, gas, height, code, used, call.out,
                                          call.unchecked, static))
    BY <1>6
  <2>2. PICK e : e = NewFrame(call.kind, gas, height, code, used, call.out, call.unchecked, static)
    OBVIOUS
  <2>3. /\ e \in FrameType /\ Lands(e) /\ e.mem.len = 0 /\ e.mem.off = used
        /\ e.gas <= gas /\ e.kind = call.kind /\ e.out = call.out
        /\ e.unchecked = call.unchecked /\ e.static = static
        /\ e.protects <=> (static /\ ~read_only)
    BY <1>2, <1>4, <1>s, <2>1, <2>2, RunBegins
  <2>4. Runs(Append(Below, c), used, read_only)
    BY <1>1, <1>2, <1>l, RunReplaced DEF used
  <2>5. Runs(Append(Append(Below, c), e), used, read_only \/ e.static)
    <3>1. e.kind = "call" => e.unchecked \/ Covered(e.out, c.mem.len)
      BY <2>3
    <3>2. e.protects <=> (e.static /\ ~read_only)
      BY <2>3, Zenon
    <3>3. Len(Below) < CallCreateDepth
      BY <1>1, <1>6, InterpreterAssumption
    <3> QED BY <1>1, <1>2, <1>4, <1>l, <2>3, <2>4, <3>1, <3>2, <3>3, RunPushed
  <2>6. Runs(frames', reserved', read_only')
    <3>1. frames' = Append(Append(Below, c), e) /\ reserved' = used /\ read_only' = (read_only \/ e.static)
      BY <1>3, <1>6, <2>1, <2>2, <2>3
    <3> QED BY <2>5, <3>1
  <2>7. TotalGas(frames') < TotalGas(frames)
    <3>1. Append(Below, c) \in Seq(FrameType)
      BY <1>1, AppendProperties
    <3>2. TotalGas(Append(Append(Below, c), e)) = (TotalGas(Below) + c.gas) + e.gas
      BY <1>1, <2>3, <3>1, GasAppended
    <3>3. TotalGas(frames') = (TotalGas(Below) + c.gas) + e.gas
      BY <2>1, <2>2, <3>2, Zenon
    <3>4. e.gas \in Nat
      BY <2>3 DEF FrameType
    <3>5. \A a, b, h, q, y \in Nat : h <= q /\ b + q < y => (a + b) + h < a + y
      OBVIOUS
    <3> QED BY <1>1, <1>g, <2>3, <3>3, <3>4, <3>5
  <2>8. read_only' \in BOOLEAN
    BY <1>6
  <2> QED BY <1>2, <1>3, <1>4, <1>6, <1>a, <2>6, <2>7, <2>8, InterpreterAssumption DEF Kept
<1> QED
  BY <1>3, <1>5, <1>6

\* An instruction that passes the checks: the run after it, and the memory it uses.
LEMMA PassedChecks ==
  ASSUME Invariant, frames # <<>>, NEW i \in InstructionsAt(Top), NEW x \in Operands(i),
         NEW extra \in Extra(i, x), Executes(i, x, extra)
  PROVE  LET f == After(i, x, extra)
             base == Base(i, x, extra, Top, NeededMemory(i, x))
             tmp == CallGasTmp(i, x, base, Top)
         IN  /\ i \in Instructions /\ f \in FrameType /\ Same(Top, f) /\ f.pc = Top.pc
             /\ Resized(Top.mem, f.mem)
             /\ base \in Nat /\ tmp \in Nat /\ base >= Constant(i) + extra
             /\ f.gas = Top.gas - (base + tmp) /\ base + tmp <= Top.gas
             /\ Uncovered(i, x, f) => SizeUnchecked(i, x)
             /\ i.op \in CallOps => SizeUnchecked(i, x) \/ Covered(Out(i, x), f.mem.len)
<1> DEFINE f == After(i, x, extra)
<1>1. Top \in FrameType
  BY TopBelow
<1>2. i # Invalid /\ validateStack(i, Top.height) /\ ~Refused(i, x, extra, Top)
  BY DEF Executes
<1>3. i \in Instructions
  BY <1>1, <1>2, InstructionFound
<1>4. Charged(Top, f, Cost(i, x, extra, Top), NeededMemory(i, x))
  BY <1>1, <1>2, <1>3, AfterCharged
<1>5. LET base == Base(i, x, extra, Top, NeededMemory(i, x))
          tmp == CallGasTmp(i, x, base, Top)
      IN  /\ NeededMemory(i, x) \in 0..MaxMemorySize
          /\ base \in Nat /\ base >= Constant(i) + extra /\ tmp \in Nat
          /\ Cost(i, x, extra, Top) = base + tmp /\ base + tmp <= Top.gas
  BY <1>1, <1>2, <1>3, Affordable
<1> HIDE DEF f
<1>6. NeededMemory(i, x) # Overflow /\ NeededMemory(i, x) <= f.mem.len /\ f.mem.len \in Nat
  <2>1. f \in FrameType
    BY <1>4 DEF Charged
  <2>2. f.mem.len \in Nat
    BY <2>1, MemoryFields
  <2> QED BY <1>4, <1>5, <2>2, InterpreterAssumption DEF Charged, Overflow
<1>7. SizeUnchecked(i, x) \/ /\ \A r \in Accesses(i, x) : Covered(r, f.mem.len)
                             /\ i.op \in CallOps => Covered(Out(i, x), f.mem.len)
  BY <1>3, <1>6, MemoryCovers
<1>8. Uncovered(i, x, f) => SizeUnchecked(i, x)
  BY <1>7 DEF Uncovered
<1>9. i.op \in CallOps => SizeUnchecked(i, x) \/ Covered(Out(i, x), f.mem.len)
  BY <1>7
<1>10. /\ f \in FrameType /\ Same(Top, f) /\ f.pc = Top.pc /\ Resized(Top.mem, f.mem)
       /\ f.gas = Top.gas - Cost(i, x, extra, Top)
  BY <1>4 DEF Charged, Same
<1> QED
  BY <1>3, <1>5, <1>8, <1>9, <1>10 DEF f

\* Under write protection no instruction that changes accounts passes the checks.
LEMMA NothingWritten ==
  ASSUME Invariant, frames # <<>>, NEW i \in Instructions, NEW x, NEW extra, Executes(i, x, extra)
  PROVE  wrote' = FALSE
<1>1. Guarded(frames, read_only) /\ DOMAIN frames = 1..Len(frames)
  BY DEF Invariant, Runs
<1>2. InStatic => read_only
  BY <1>1 DEF InStatic, Guarded, Static
<1>3. ~Protected(i, x) /\ ~(i.op = "TSTORE" /\ read_only)
  BY DEF Executes, Refused
<1>4. read_only => ~ChangesState(i, x)
  BY <1>3 DEF Protected, ChangesState, writes, CreateOps, Value
<1>5. wrote' = (InStatic /\ ChangesState(i, x))
  BY DEF Executes
<1>6. (InStatic /\ ChangesState(i, x)) = FALSE
  BY <1>2, <1>4
<1> QED
  BY <1>5, <1>6, Zenon

\* A panic is only met where a size wrapped.
LEMMA PanicKeeps ==
  ASSUME Invariant, NEW i, NEW x, SizeUnchecked(i, x), Panic(SizeUnchecked(i, x)),
         reserved' \in 0..PoolSize, read_only' \in BOOLEAN
  PROVE  Kept
<1>1. /\ frames' = <<>> /\ access' = [covered |-> FALSE, unchecked |-> SizeUnchecked(i, x)]
      /\ last_retval' = last_retval
  BY DEF Panic
<1>2. SizeUnchecked(i, x) = TRUE
  BY DEF SizeUnchecked
<1>3. access' = [covered |-> FALSE, unchecked |-> TRUE]
  BY <1>1, <1>2, Zenon
<1>4. access' \in [covered : BOOLEAN, unchecked : BOOLEAN] /\ access'.unchecked
  BY <1>3
<1>5. last_retval \in 0..MaxU64
  BY DEF Invariant
<1> QED
  BY <1>1, <1>4, <1>5, RunsEmpty DEF Kept

\* Where a jump that passed the checks goes.
LEMMA JumpLands ==
  ASSUME NEW f \in FrameType, NEW i \in Instructions, NEW x \in Operands(i), i.op \in {"JUMP", "JUMPI"},
         ValidJumpdest(f.code, x[1])
  PROVE  U64(x[1]) \in Nat /\ U64(x[1]) \in Starts(f.code)
<1>1. f.code \in Codes /\ Len(f.code) \in Nat
  BY CodeAssumption DEF FrameType
<1>2. x[1] \in Targets
  BY DEF Operands, CopyOps, CreateOps, CallOps
<1>3. x[1] \in Nat /\ x[1] <= MaxU64
  BY <1>2, InterpreterAssumption DEF ValidJumpdest
<1>4. U64(x[1]) = x[1]
  BY <1>3, U64Facts, InterpreterAssumption
<1>5. x[1] < Len(f.code)
  <2>1. I("STOP") # I("JUMPDEST")
    BY DEF I
  <2> QED BY <2>1 DEF ValidJumpdest, GetOp
<1> QED
  BY <1>1, <1>3, <1>4, <1>5, UnmarkedStarts DEF ValidJumpdest

\* An instruction that stays in its run.
LEMMA PlainKeeps ==
  ASSUME Invariant, frames # <<>>, NEW i \in InstructionsAt(Top), NEW x \in Operands(i),
         NEW extra \in Extra(i, x), Plain(i, x, extra)
  PROVE  Kept
<1>0. PICK f : f = After(i, x, extra)
  OBVIOUS
<1>1. /\ Executes(i, x, extra) /\ i.op \notin CallOps \cup CreateOps \cup halts \cup {"REVERT"}
      /\ reserved' = ReservedAfter(Top.mem, f.mem) /\ read_only' = read_only
      /\ Uncovered(i, x, f) => Panic(SizeUnchecked(i, x))
      /\ ~Uncovered(i, x, f) => /\ frames' = Append(Below, [f EXCEPT !.pc = NextPc(i, x, f.pc)])
                                /\ access' = NoAccess /\ last_retval' = last_retval
  BY <1>0 DEF Plain
<1>2. PICK cost : cost = Base(i, x, extra, Top, NeededMemory(i, x))
                       + CallGasTmp(i, x, Base(i, x, extra, Top, NeededMemory(i, x)), Top)
  OBVIOUS
<1>3. /\ i \in Instructions /\ f \in FrameType /\ Same(Top, f) /\ f.pc = Top.pc
      /\ Resized(Top.mem, f.mem) /\ cost \in Nat /\ cost >= Constant(i) + extra
      /\ f.gas = Top.gas - cost /\ cost <= Top.gas
      /\ Uncovered(i, x, f) => SizeUnchecked(i, x)
  <2>1. Constant(i) \in Nat /\ extra \in Nat
    <3>1. i \in Instructions
      BY <1>1, PassedChecks
    <3> QED BY <3>1, InstructionsCost
  <2> QED BY <1>0, <1>1, <1>2, <2>1, PassedChecks
<1>4. cost >= 1
  <2>1. i.op \notin {"STOP", "RETURN", "REVERT"}
    BY <1>1 DEF halts
  <2>2. Constant(i) \in Nat /\ extra \in Nat /\ Constant(i) + extra >= 1
    BY <1>3, <2>1, InstructionsCost
  <2> QED BY <1>3, <2>2
<1>5. /\ Below \in Seq(FrameType) /\ Top \in FrameType /\ frames = Append(Below, Top)
      /\ TotalGas(frames) = TotalGas(Below) + Top.gas
      /\ TotalGas(Below) \in Nat /\ Top.gas \in Nat
      /\ Runs(Append(Below, Top), reserved, read_only) /\ Lands(Top)
  BY TopBelow
<1>6. reserved \in 0..PoolSize /\ read_only \in BOOLEAN /\ last_retval \in 0..MaxU64
  BY DEF Invariant
<1>7. reserved' = FreeAfter(Top.mem, f.mem, reserved) /\ reserved' \in 0..PoolSize
  <2>1. reserved' = FreeAfter(Top.mem, f.mem, reserved)
    BY <1>1 DEF ReservedAfter, FreeAfter
  <2> QED BY <1>3, <1>5, <1>6, <2>1, FreeInPool
<1>8. CASE Uncovered(i, x, f)
  BY <1>1, <1>3, <1>6, <1>7, <1>8, PanicKeeps
<1>9. CASE ~Uncovered(i, x, f)
  <2>1. PICK pc : pc = NextPc(i, x, f.pc)
    OBVIOUS
  <2>2. PICK g : g = [f EXCEPT !.pc = pc]
    OBVIOUS
  <2>3. frames' = Append(Below, g) /\ access' = NoAccess /\ last_retval' = last_retval
    BY <1>1, <1>9, <2>1, <2>2
  <2>4. f.pc \in Nat /\ PushData(i) \in Nat
    BY <1>3, DataBounded, InterpreterAssumption DEF FrameType
  <2>5. ASSUME i.op = "JUMP" \/ (i.op = "JUMPI" /\ x[2] # 0)
        PROVE  g \in FrameType /\ Same(f, g) /\ g.mem = f.mem /\ g.gas = f.gas /\ Lands(g)
    <3>1. pc = U64(x[1])
      BY <2>1, <2>5 DEF NextPc
    <3>2. ValidJumpdest(Top.code, x[1])
      BY <1>1, <2>5 DEF Executes, Refused
    <3>3. pc \in Nat /\ pc \in Starts(Top.code)
      BY <1>3, <1>5, <2>5, <3>1, <3>2, JumpLands
    <3>4. g \in FrameType /\ Same(f, g) /\ g.mem = f.mem /\ g.gas = f.gas /\ g.pc = pc
      BY <1>3, <2>2, <3>3 DEF FrameType, Same
    <3>5. Lands(g)
      BY <1>3, <3>3, <3>4 DEF Lands, Same
    <3> QED BY <3>4, <3>5
  <2>6. ASSUME ~(i.op = "JUMP" \/ (i.op = "JUMPI" /\ x[2] # 0))
        PROVE  g \in FrameType /\ Same(f, g) /\ g.mem = f.mem /\ g.gas = f.gas /\ Lands(g)
    <3>1. pc = f.pc + 1 + PushData(i)
      BY <2>1, <2>4, <2>6 DEF NextPc, PushData
    <3>2. pc \in Nat
      BY <2>4, <3>1
    <3>3. g \in FrameType /\ Same(f, g) /\ g.mem = f.mem /\ g.gas = f.gas /\ g.pc = pc
      BY <1>3, <2>2, <3>2 DEF FrameType, Same
    <3>4. i # Invalid
      BY <1>1 DEF Executes
    <3>5. Top.pc < Len(Top.code) => PushData(Top.code[Top.pc + 1]) = PushData(i)
      BY <1>5, <3>4, InstructionFound
    <3>6. g.code = Top.code /\ g.pc = Top.pc + 1 + PushData(i)
      BY <1>3, <3>1, <3>3 DEF Same
    <3>7. Lands(g)
      BY <1>5, <2>4, <3>3, <3>5, <3>6, GoesOn
    <3> QED BY <3>3, <3>7
  <2>7. g \in FrameType /\ Same(f, g) /\ g.mem = f.mem /\ g.gas = f.gas /\ Lands(g)
    BY <2>5, <2>6
  <2>8. Same(Top, g) /\ Resized(Top.mem, g.mem)
    BY <1>3, <2>7 DEF Same
  <2>9. Runs(Append(Below, g), FreeAfter(Top.mem, g.mem, reserved), read_only)
    BY <1>5, <1>6, <2>7, <2>8, RunReplaced
  <2>10. TotalGas(frames') < TotalGas(frames)
    <3>1. TotalGas(Append(Below, g)) = TotalGas(Below) + g.gas
      BY <1>5, <2>7, GasAppended
    <3>2. TotalGas(frames') = TotalGas(Below) + (Top.gas - cost)
      BY <1>3, <2>3, <2>7, <3>1, Zenon
    <3> QED BY <1>3, <1>4, <1>5, <3>2
  <2>11. NoAccess \in [covered : BOOLEAN, unchecked : BOOLEAN] /\ NoAccess.covered
    BY DEF NoAccess
  <2> QED BY <1>1, <1>6, <1>7, <2>3, <2>7, <2>9, <2>10, <2>11 DEF Kept
<1> QED
  BY <1>8, <1>9

\* STOP, RETURN, SELFDESTRUCT and REVERT.
LEMMA EndsKeeps ==
  ASSUME Invariant, frames # <<>>, NEW i \in InstructionsAt(Top), NEW x \in Operands(i),
         NEW extra \in Extra(i, x), Ends(i, x, extra)
  PROVE  Kept
<1>0. PICK f : f = After(i, x, extra)
  OBVIOUS
<1>1. PICK outcome, ret :
        /\ outcome = IF i.op = "REVERT" THEN "reverted" ELSE "ok"
        /\ ret = IF i.op \in {"RETURN", "REVERT"} THEN U64(x[2]) ELSE 0
  OBVIOUS
<1>2. /\ Executes(i, x, extra)
      /\ Uncovered(i, x, f) =>
           Panic(SizeUnchecked(i, x)) /\ reserved' = reserved /\ read_only' = read_only
      /\ ~Uncovered(i, x, f) => Leave(f, outcome, ret)
  BY <1>0, <1>1 DEF Ends
<1>3. PICK cost : cost = Base(i, x, extra, Top, NeededMemory(i, x))
                       + CallGasTmp(i, x, Base(i, x, extra, Top, NeededMemory(i, x)), Top)
  OBVIOUS
<1>4. /\ i \in Instructions /\ f \in FrameType /\ Same(Top, f)
      /\ cost \in Nat /\ f.gas = Top.gas - cost
      /\ Uncovered(i, x, f) => SizeUnchecked(i, x)
  BY <1>0, <1>2, <1>3, PassedChecks
<1>5. reserved \in 0..PoolSize /\ read_only \in BOOLEAN /\ Top.gas \in Nat
  BY TopBelow DEF Invariant
<1>6. f.gas <= Top.gas
  BY <1>4, <1>5
<1>7. ret \in 0..MaxU64
  <2>1. CASE i.op \in {"RETURN", "REVERT"}
    <3>1. x[2] \in Word
      <4>1. Accesses(i, x) = {<<x[1], x[2]>>}
        BY <2>1 DEF Accesses, CopyOps, CreateOps, CallOps
      <4>2. <<x[1], x[2]>> \in Region
        BY <1>4, <4>1, OperandsTyped DEF Typed
      <4> QED BY <4>2 DEF Region
    <3>2. x[2] \in Int
      BY <3>1, InterpreterAssumption DEF Word
    <3> QED BY <1>1, <2>1, <3>2, U64Facts
  <2>2. CASE i.op \notin {"RETURN", "REVERT"}
    BY <1>1, <2>2, InterpreterAssumption
  <2> QED BY <2>1, <2>2
<1>8. CASE Uncovered(i, x, f)
  BY <1>2, <1>4, <1>5, <1>8, PanicKeeps
<1>9. CASE ~Uncovered(i, x, f)
  BY <1>2, <1>4, <1>6, <1>7, <1>9, LeaveKeeps
<1> QED
  BY <1>8, <1>9

\* A failed check, or a byte that is no instruction.
LEMMA FailsKeeps ==
  ASSUME Invariant, Fails
  PROVE  Kept
<1>1. frames # <<>> /\ Leave(Top, "failed", 0)
  BY DEF Fails
<1>2. Top \in FrameType /\ Top.gas \in Nat /\ 0 \in 0..MaxU64
  BY <1>1, TopBelow, InterpreterAssumption
<1>3. Same(Top, Top) /\ Top.gas <= Top.gas
  BY <1>2 DEF Same
<1> QED
  BY <1>1, <1>2, <1>3, LeaveKeeps

\* What a call gives back at once is part of what it was given.
LEMMA NoRunGives ==
  ASSUME NEW i, NEW x, NEW gas \in Nat, NEW r \in NoRun(i, x, gas)
  PROVE  r.gas \in 0..gas /\ r.ret \in 0..MaxU64
<1> DEFINE failed == [gas |-> gas, ret |-> 0, copied |-> FALSE]
           done(g, n, c) == [gas |-> gas - g, ret |-> n, copied |-> c]
<1>1. /\ gas \in 0..gas /\ 0 \in 0..MaxU64 /\ 32 \in 0..MaxU64
      /\ \A g \in PrecompileGas : g <= gas => gas - g \in 0..gas
  BY InterpreterAssumption
<1>2. \/ r = failed
      \/ r = [gas |-> gas, ret |-> 0, copied |-> TRUE]
      \/ \E g \in PrecompileGas, n \in {0, 32}, c \in BOOLEAN : g <= gas /\ r = done(g, n, c)
  BY DEF NoRun
<1>3. CASE r = failed \/ r = [gas |-> gas, ret |-> 0, copied |-> TRUE]
  BY <1>1, <1>3
<1>4. CASE \E g \in PrecompileGas, n \in {0, 32}, c \in BOOLEAN : g <= gas /\ r = done(g, n, c)
  <2>1. PICK g \in PrecompileGas, n \in {0, 32}, c \in BOOLEAN : g <= gas /\ r = done(g, n, c)
    BY <1>4
  <2>2. r.gas = gas - g /\ r.ret = n
    BY <2>1
  <2> QED BY <1>1, <2>1, <2>2
<1> QED
  BY <1>2, <1>3, <1>4

\* CALL, CALLCODE, DELEGATECALL and STATICCALL.
LEMMA CallsKeeps ==
  ASSUME Invariant, frames # <<>>, NEW i \in InstructionsAt(Top), NEW x \in Operands(i),
         NEW extra \in Extra(i, x), Calls(i, x, extra)
  PROVE  Kept
<1>0. PICK f, base, tmp, call, gas :
        /\ f = After(i, x, extra) /\ base = Base(i, x, extra, Top, NeededMemory(i, x))
        /\ tmp = CallGasTmp(i, x, base, Top)
        /\ call = [kind |-> "call", out |-> Out(i, x), unchecked |-> SizeUnchecked(i, x)]
        /\ gas = tmp + Stipend(i, x)
  OBVIOUS
<1>1. /\ i.op \in CallOps /\ Executes(i, x, extra)
      /\ Uncovered(i, x, f) =>
           Panic(SizeUnchecked(i, x)) /\ reserved' = reserved /\ read_only' = read_only
      /\ ~Uncovered(i, x, f) => Nest(i, x, f, call, gas, NoRun(i, x, gas))
  BY <1>0 DEF Calls
<1>2. /\ i \in Instructions /\ f \in FrameType /\ Same(Top, f) /\ f.pc = Top.pc
      /\ Resized(Top.mem, f.mem)
      /\ base \in Nat /\ tmp \in Nat /\ base >= Constant(i) + extra
      /\ f.gas = Top.gas - (base + tmp) /\ base + tmp <= Top.gas
      /\ Uncovered(i, x, f) => SizeUnchecked(i, x)
      /\ SizeUnchecked(i, x) \/ Covered(Out(i, x), f.mem.len)
  BY <1>0, <1>1, PassedChecks
<1>3. reserved \in 0..PoolSize /\ read_only \in BOOLEAN /\ Top.gas \in Nat /\ Top \in FrameType
  BY TopBelow DEF Invariant
<1>4. Stipend(i, x) \in Nat /\ base > Stipend(i, x)
  <2>1. /\ Constant(i) \in Nat /\ extra \in Nat /\ Constant(i) >= 700
        /\ i.op \in {"CALL", "CALLCODE"} /\ x[3] # 0 => extra >= 9000
    BY <1>1, <1>2, InstructionsCost
  <2>2. CASE Value(i, x) = 0
    <3>1. Stipend(i, x) = 0
      BY <2>2 DEF Stipend
    <3> QED BY <1>2, <2>1, <3>1
  <2>3. CASE Value(i, x) # 0
    <3>1. Stipend(i, x) = 2300 /\ extra >= 9000
      BY <2>1, <2>3 DEF Stipend, Value
    <3> QED BY <1>2, <2>1, <3>1
  <2> QED BY <2>2, <2>3
<1>5. gas \in Nat /\ f.gas + gas < Top.gas
  <2>1. \A a, b, t, s \in Nat : b + t <= a /\ b > s => t + s \in Nat /\ (a - (b + t)) + (t + s) < a
    OBVIOUS
  <2>2. gas = tmp + Stipend(i, x) /\ f.gas = Top.gas - (base + tmp)
    BY <1>0, <1>2, Zenon
  <2> QED BY <1>2, <1>3, <1>4, <2>1, <2>2
<1>6. Waits(Top)
  <2>1. i # Invalid
    BY <1>1 DEF Executes
  <2> QED BY <1>1, <1>3, <2>1, InstructionFound DEF Waits
<1>7. /\ call.kind = "call" /\ call.out = Out(i, x) /\ call.out \in Region
      /\ call.unchecked \in BOOLEAN /\ (call.unchecked <=> SizeUnchecked(i, x))
  <2>1. Out(i, x) \in Region
    BY <1>1, CallOperands
  <2>2. PICK b \in BOOLEAN : b = SizeUnchecked(i, x)
    BY DEF SizeUnchecked
  <2>3. call = [kind |-> "call", out |-> Out(i, x), unchecked |-> b]
    BY <1>0, <2>2, Zenon
  <2>4. call.kind = "call" /\ call.out = Out(i, x) /\ call.unchecked = b
    BY <2>3
  <2> QED BY <2>1, <2>2, <2>4, Zenon
<1>8. CASE Uncovered(i, x, f)
  BY <1>1, <1>2, <1>3, <1>8, PanicKeeps
<1>9. CASE ~Uncovered(i, x, f)
  <2>1. call.kind \in {"call", "create"} /\ (call.unchecked \/ Covered(call.out, f.mem.len))
    BY <1>2, <1>7
  <2>2. \A r \in NoRun(i, x, gas) : r.gas \in 0..gas /\ r.ret \in 0..MaxU64
    BY <1>5, NoRunGives
  <2>3. Nest(i, x, f, call, gas, NoRun(i, x, gas))
    BY <1>1, <1>9
  <2> QED BY <1>2, <1>5, <1>6, <1>7, <2>1, <2>2, <2>3, NestKeeps
<1> QED
  BY <1>8, <1>9

\* CREATE and CREATE2.
LEMMA CreatesKeeps ==
  ASSUME Invariant, frames # <<>>, NEW i \in InstructionsAt(Top), NEW x \in Operands(i),
         NEW extra \in Extra(i, x), Creates(i, x, extra)
  PROVE  Kept
<1>0. PICK f, kept, cost, call, gas :
        /\ f = After(i, x, extra) /\ kept = f.gas \div 64 /\ gas = f.gas - kept
        /\ cost = Base(i, x, extra, Top, NeededMemory(i, x))
                  + CallGasTmp(i, x, Base(i, x, extra, Top, NeededMemory(i, x)), Top)
        /\ call = [kind |-> "create", out |-> NoRegion, unchecked |-> FALSE]
  OBVIOUS
<1>g. PICK c : c = [f EXCEPT !.gas = kept]
  OBVIOUS
<1>1. /\ i.op \in CreateOps /\ Executes(i, x, extra)
      /\ Uncovered(i, x, f) =>
           Panic(SizeUnchecked(i, x)) /\ reserved' = reserved /\ read_only' = read_only
      /\ ~Uncovered(i, x, f) => Nest(i, x, c, call, gas, NoCreation(gas))
  BY <1>0, <1>g DEF Creates
<1>2. /\ i \in Instructions /\ f \in FrameType /\ Same(Top, f) /\ f.pc = Top.pc
      /\ Resized(Top.mem, f.mem) /\ cost \in Nat
      /\ f.gas = Top.gas - cost /\ cost <= Top.gas
      /\ Uncovered(i, x, f) => SizeUnchecked(i, x)
  BY <1>0, <1>1, PassedChecks
<1>c. cost >= 1
  <2>1. Base(i, x, extra, Top, NeededMemory(i, x)) \in Nat
        /\ CallGasTmp(i, x, Base(i, x, extra, Top, NeededMemory(i, x)), Top) \in Nat
        /\ Base(i, x, extra, Top, NeededMemory(i, x)) >= Constant(i) + extra
    BY <1>1, PassedChecks
  <2>2. Constant(i) \in Nat /\ extra \in Nat /\ Constant(i) >= 700
    BY <1>1, <1>2, InstructionsCost
  <2> QED BY <1>0, <2>1, <2>2
<1>3. reserved \in 0..PoolSize /\ read_only \in BOOLEAN /\ Top.gas \in Nat /\ Top \in FrameType
  BY TopBelow DEF Invariant
<1>4. f.gas \in Nat /\ kept \in Nat /\ gas \in Nat /\ kept + gas < Top.gas
  <2>1. f.gas \in Nat
    BY <1>2 DEF FrameType
  <2>2. kept \in Nat /\ kept <= f.gas
    <3>1. \A a \in Nat : a \div 64 \in Nat /\ a \div 64 <= a
      OBVIOUS
    <3> QED BY <1>0, <2>1, <3>1, Zenon
  <2>3. \A a, k \in Nat : k <= a => a - k \in Nat /\ k + (a - k) = a
    OBVIOUS
  <2>4. gas \in Nat /\ kept + gas = f.gas
    BY <1>0, <2>1, <2>2, <2>3
  <2> QED BY <1>2, <1>3, <1>c, <2>1, <2>2, <2>4
<1>5. /\ c \in FrameType /\ Same(f, c) /\ c.mem = f.mem /\ c.gas = kept /\ c.pc = f.pc
  BY <1>2, <1>4, <1>g DEF FrameType, Same
<1>6. Waits(Top)
  <2>1. i # Invalid
    BY <1>1 DEF Executes
  <2> QED BY <1>1, <1>3, <2>1, InstructionFound DEF Waits
<1>7. call.kind = "create" /\ call.out \in Region /\ call.unchecked \in BOOLEAN
  BY <1>0, InterpreterAssumption DEF NoRegion, Region, Word
<1>8. CASE Uncovered(i, x, f)
  BY <1>1, <1>2, <1>3, <1>8, PanicKeeps
<1>9. CASE ~Uncovered(i, x, f)
  <2>1. call.kind \in {"call", "create"} /\ call.kind # "call"
    BY <1>7
  <2>2. \A r \in NoCreation(gas) : r.gas \in 0..gas /\ r.ret \in 0..MaxU64
    BY <1>4, InterpreterAssumption DEF NoCreation
  <2>3. Nest(i, x, c, call, gas, NoCreation(gas))
    BY <1>1, <1>9
  <2>4. Same(Top, c) /\ c.pc = Top.pc /\ Resized(Top.mem, c.mem) /\ c.gas + gas < Top.gas
    BY <1>2, <1>4, <1>5 DEF Same
  <2> QED BY <1>4, <1>5, <1>6, <1>7, <2>1, <2>2, <2>3, <2>4, NestKeeps
<1> QED
  BY <1>8, <1>9

-----------------------------------------------------------------------------
(* The specification.                                                      *)

\* A message call begins with what the invariant says.
LEMMA InitInvariant ==
  ASSUME Init
  PROVE  Invariant
<1>1. PICK gas \in Gas, code \in Codes, height \in Heights :
        /\ 2 * height <= gas
        /\ frames = <<NewFrame("call", gas, height, code, 0, NoRegion, FALSE, FALSE)>>
  BY DEF Init
<1>n. PICK no \in BOOLEAN : no = FALSE
  OBVIOUS
<1>2. PICK e : e = NewFrame("call", gas, height, code, 0, NoRegion, no, no)
  OBVIOUS
<1>3. /\ reserved = 0 /\ read_only = FALSE /\ last_retval = 0
      /\ access = NoAccess /\ wrote = FALSE /\ steps = 0 /\ frames = <<e>>
  BY <1>1, <1>2, <1>n, Zenon DEF Init
<1>4. 0 \in 0..PoolSize /\ NoRegion \in Region /\ gas \in Nat /\ gas <= MaxU64
  BY InterpreterAssumption DEF NoRegion, Region, Word
<1>b. read_only \in BOOLEAN
  BY <1>3
<1>5. /\ e \in FrameType /\ Lands(e) /\ e.mem.len = 0 /\ e.mem.off = 0 /\ e.gas <= gas
      /\ ~e.static /\ ~e.protects
  <2>1. "call" \in {"call", "create"}
    OBVIOUS
  <2>2. /\ e \in FrameType /\ Lands(e) /\ e.mem.len = 0 /\ e.mem.off = 0 /\ e.gas <= gas
        /\ e.static = no
        /\ e.protects <=> (no /\ ~read_only)
    BY <1>1, <1>2, <1>4, <1>b, <2>1, RunBegins
  <2>3. ~e.static /\ ~e.protects
    BY <1>n, <2>2, Zenon
  <2> QED BY <2>2, <2>3
<1>6. <<e>> \in Seq(FrameType) /\ <<e>> = Append(<<>>, e) /\ <<>> \in Seq(FrameType) /\ Len(<<e>>) = 1
  BY <1>5
<1>7. Runs(<<e>>, 0, no)
  <2>1. Landed(<<e>>)
    BY <1>5, <1>6 DEF Landed
  <2>2. Awaited(<<e>>)
    BY DEF Awaited
  <2>3. Ordered(<<e>>, 0)
    BY <1>5, <1>6 DEF Ordered
  <2>4. Guarded(<<e>>, no)
    BY <1>5, <1>6, <1>n DEF Guarded, Static, FirstProtects
  <2> QED BY <1>6, <2>1, <2>2, <2>3, <2>4, InterpreterAssumption DEF Runs
<1>8. TotalGas(<<e>>) <= MaxU64
  <2>1. TotalGas(Append(<<>>, e)) = TotalGas(<<>>) + e.gas
    BY <1>5, <1>6, GasAppended
  <2>2. TotalGas(<<>>) = 0
    <3>1. DOMAIN <<>> = {}
      OBVIOUS
    <3> QED BY <3>1, SumEmpty DEF TotalGas
  <2>3. e.gas \in Nat
    BY <1>5 DEF FrameType
  <2>4. TotalGas(<<e>>) = 0 + e.gas
    BY <1>6, <2>1, <2>2, Zenon
  <2> QED BY <1>4, <1>5, <2>3, <2>4, InterpreterAssumption
<1>9. NoAccess \in [covered : BOOLEAN, unchecked : BOOLEAN] /\ NoAccess.covered
  BY DEF NoAccess
<1>10. Invariant
  <2>1. reserved \in 0..PoolSize /\ last_retval \in 0..MaxU64 /\ steps \in 0..MaxSteps
    BY <1>3, InterpreterAssumption
  <2>2. Runs(frames, reserved, read_only) /\ TotalGas(frames) <= MaxU64
    BY <1>3, <1>7, <1>8, <1>n, Zenon
  <2> QED BY <1>3, <1>b, <1>9, <2>1, <2>2, Zenon DEF Invariant
<1> QED
  BY <1>10

\* Every step keeps the runs, and writes nothing under write protection.
LEMMA NextKeeps ==
  ASSUME Invariant, Next
  PROVE  Kept /\ wrote' = FALSE /\ steps' \in 0..MaxSteps /\ frames # <<>>
<1>0. steps \in 0..MaxSteps /\ MaxSteps \in Nat
  BY InterpreterAssumption DEF Invariant
<1>1. CASE Fails
  <2>1. wrote' = FALSE /\ steps < MaxSteps /\ steps' = steps + 1 /\ frames # <<>>
    BY <1>1 DEF Fails
  <2> QED BY <1>0, <1>1, <2>1, FailsKeeps
<1>2. ASSUME frames # <<>>, NEW i \in InstructionsAt(Top), NEW x \in Operands(i), NEW extra \in Extra(i, x),
             \/ Plain(i, x, extra) \/ Ends(i, x, extra) \/ Calls(i, x, extra) \/ Creates(i, x, extra)
      PROVE  Kept /\ wrote' = FALSE /\ steps' \in 0..MaxSteps
  <2>1. Executes(i, x, extra)
    BY <1>2 DEF Plain, Ends, Calls, Creates
  <2>2. i \in Instructions
    BY <1>2, <2>1, PassedChecks
  <2>3. wrote' = FALSE
    BY <1>2, <2>1, <2>2, NothingWritten
  <2>4. steps' \in 0..MaxSteps
    BY <1>0, <2>1 DEF Executes
  <2>5. Kept
    BY <1>2, PlainKeeps, EndsKeeps, CallsKeeps, CreatesKeeps
  <2> QED BY <2>3, <2>4, <2>5
<1> QED
  BY <1>1, <1>2 DEF Next

\* The invariant is inductive.
LEMMA NextInvariant ==
  ASSUME Invariant, [Next]_vars
  PROVE  Invariant'
<1>1. CASE Next
  <2>1. Kept /\ wrote' = FALSE /\ steps' \in 0..MaxSteps
    BY <1>1, NextKeeps
  <2>2. TotalGas(frames) <= MaxU64 /\ TotalGas(frames) \in Nat
    BY GasOfFrames DEF Invariant, Runs
  <2>3. TotalGas(frames') <= MaxU64
    <3>1. CASE frames' = <<>>
      <4>1. DOMAIN <<>> = {}
        OBVIOUS
      <4>2. TotalGas(<<>>) = 0
        BY <4>1, SumEmpty DEF TotalGas
      <4> QED BY <3>1, <4>2, InterpreterAssumption
    <3>2. CASE frames' # <<>>
      <4>1. TotalGas(frames') \in Nat
        BY <2>1, GasOfFrames DEF Kept, Runs
      <4>2. TotalGas(frames') <= TotalGas(frames)
        BY <2>1, <2>2, <3>2, <4>1 DEF Kept
      <4> QED BY <2>2, <4>1, <4>2, InterpreterAssumption
    <3> QED BY <3>1, <3>2
  <2> QED BY <2>1, <2>3 DEF Invariant, Kept
<1>2. CASE UNCHANGED vars
  BY <1>2 DEF Invariant, vars
<1> QED
  BY <1>1, <1>2

\* The invariant holds of every behaviour.
LEMMA Invariance == Spec => []Invariant
<1>1. Init => Invariant
  BY InitInvariant
<1>2. Invariant /\ [Next]_vars => Invariant'
  BY NextInvariant
<1> QED
  BY <1>1, <1>2, PTL DEF Spec

\* Whatever the code, the stack of every run stays within its limit though the instructions
\* push and pop unchecked, gas is a uint64 also after a call gives it back, memory stays in
\* what has a price, and runs nest no deeper than EVM.call allows.
THEOREM TypesHold == Spec => []TypeOK
<1>1. Invariant => TypeOK
  <2> SUFFICES ASSUME Invariant PROVE TypeOK
    OBVIOUS
  <2>1. /\ frames \in Seq(FrameType) /\ Len(frames) <= CallCreateDepth + 1
        /\ TotalGas(frames) <= MaxU64
    BY DEF Invariant, Runs
  <2>2. ASSUME NEW k \in DOMAIN frames
        PROVE  /\ frames[k].gas \in 0..MaxU64 /\ frames[k].height \in 0..StackLimit
               /\ frames[k].pc \in Nat /\ frames[k].mem.len \in 0..MaxMemorySize
    <3>1. frames[k] \in FrameType /\ k \in 1..Len(frames)
      BY <2>1
    <3>2. frames[k].gas <= TotalGas(frames) /\ TotalGas(frames) \in Nat
      BY <2>1, <3>1, GasOfFrames
    <3>3. /\ frames[k].gas \in Nat /\ frames[k].height \in 0..StackLimit
          /\ frames[k].pc \in Nat /\ frames[k].mem.len \in 0..MaxMemorySize
      BY <3>1 DEF FrameType, MemoryType
    <3> QED BY <2>1, <3>2, <3>3, InterpreterAssumption
  <2>3. /\ reserved \in 0..PoolSize /\ last_retval \in 0..MaxU64
        /\ read_only \in BOOLEAN /\ wrote \in BOOLEAN /\ steps \in 0..MaxSteps
        /\ access \in [covered : BOOLEAN, unchecked : BOOLEAN]
    BY DEF Invariant
  <2> QED BY <2>1, <2>2, <2>3 DEF TypeOK
<1> QED
  BY <1>1, Invariance, PTL

\* Of all that instructions and returning calls read and write, only what wrapped in the
\* computation of its size lies past the memory, and runs never share a byte of the pool.
THEOREM MemoryIsSafe == Spec => []MemorySafe
<1>1. Invariant => MemorySafe
  <2> SUFFICES ASSUME Invariant PROVE MemorySafe
    OBVIOUS
  <2>1. DOMAIN frames = 1..Len(frames) /\ Ordered(frames, reserved) /\ (access.covered \/ access.unchecked)
    BY DEF Invariant, Runs
  <2> QED BY <2>1 DEF MemorySafe, Ordered
<1> QED
  BY <1>1, Invariance, PTL

\* However deep, no instruction changes accounts inside a STATICCALL.  Of a precompiled contract
\* called there the theorem says nothing: EVM.call runs it without a look at read_only.
THEOREM StaticInstructionsWriteNothing == Spec => []ReadOnlyHeld
<1>1. Invariant => ReadOnlyHeld
  BY DEF Invariant, ReadOnlyHeld
<1> QED
  BY <1>1, Invariance, PTL

\* Control only comes to where instructions begin, never to the data of a PUSHn, whatever
\* the code: what codeBitmap leaves unmarked is what the walk from the first byte reaches.
THEOREM ControlLands == Spec => []JumpsLand
<1>1. Invariant => JumpsLand
  <2> SUFFICES ASSUME Invariant PROVE JumpsLand
    OBVIOUS
  <2>1. DOMAIN frames = 1..Len(frames) /\ Landed(frames)
    BY DEF Invariant, Runs
  <2> QED BY <2>1 DEF JumpsLand, Landed, Lands
<1> QED
  BY <1>1, Invariance, PTL

\* Each instruction takes gas from the runs together or ends one: stipends and the gas that
\* calls give back never make up for what was paid.
THEOREM GasRunsOut == Spec => GasDecreases
<1> DEFINE A == frames' # <<>> =>
                  \/ TotalGas(frames') < TotalGas(frames)
                  \/ TotalGas(frames') = TotalGas(frames) /\ Len(frames') < Len(frames)
<1>1. Invariant /\ [Next]_vars => [A]_vars
  <2> SUFFICES ASSUME Invariant, Next PROVE A
    OBVIOUS
  <2>1. Kept
    BY NextKeeps
  <2>2. TotalGas(frames) \in Nat /\ TotalGas(frames') \in Nat
    BY <2>1, GasOfFrames DEF Invariant, Kept, Runs
  <2> QED BY <2>1, <2>2 DEF Kept
<1>2. Spec => [][A]_vars
  BY <1>1, Invariance, PTL DEF Spec
<1> QED
  BY <1>2 DEF GasDecreases
=============================================================================
