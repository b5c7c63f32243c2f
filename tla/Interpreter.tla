----------------------------- MODULE Interpreter -----------------------------
(***************************************************************************)
(* The EVM interpreter (core/vm): the loop of EVM.run over the instruction *)
(* set, with the checks of the stack, of write protection, of memory and   *)
(* of gas that come before an instruction, and the calls and creations     *)
(* that nest one run in another.                                           *)
(*                                                                         *)
(* Of the stack only the height is kept: code is arbitrary, so the         *)
(* operands of an instruction are any words.  Of memory and of return data *)
(* only the length is kept.  Accounts are those of TransitionState; what   *)
(* gas or outcomes depend on of them is chosen freely here.                *)
(***************************************************************************)
EXTENDS Integers, Sequences, FiniteSets, FiniteSetsExt, SequencesExt

CONSTANTS
    MaxU64,           \* largest uint64 (2^64 - 1, scaled)
    MaxWord,          \* largest word of the stack (2^256 - 1, scaled)
    MaxMemorySize,    \* largest memory that has a price (0xffffffffe0, scaled)
    StackLimit,       \* 1024
    CallCreateDepth,  \* 1024
    MaxCodeSize,      \* 24576
    PoolSize,         \* bytes of the memory pool
    PrecompileGas,    \* gas a precompiled contract requires
    Heights,          \* heights of the stack a code is entered with
    MaxN,             \* bound: the n of PUSHn, DUPn and SWAPn (32, 16, 16)
    Gas,              \* gas of a message call
    Regions,          \* operands: offset and length of a region of memory
    CallRegions,      \* operands: two regions, of the arguments of a call and of its result
    Words,            \* operands: gas of a call, where a copy comes from
    Targets,          \* operands: where a jump goes
    Codes,            \* codes: sequences of bytes, each an instruction or AnyOp
    MaxSteps          \* bound: instructions executed

ASSUME InterpreterAssumption ==
    /\ MaxU64 \in Nat /\ MaxWord \in Nat /\ 32 <= MaxU64 /\ MaxU64 < MaxWord
    /\ MaxMemorySize \in 0..MaxU64
    /\ StackLimit \in Nat /\ CallCreateDepth \in Nat /\ MaxCodeSize \in Nat
    /\ PoolSize \in Nat /\ PrecompileGas \subseteq Nat /\ Heights \subseteq 0..StackLimit
    /\ MaxN \in Nat /\ MaxSteps \in Nat
    /\ Gas \subseteq 0..MaxU64 /\ Words \cup Targets \subseteq 0..MaxWord
    /\ Regions \subseteq (0..MaxWord) \X (0..MaxWord)
    /\ CallRegions \subseteq ((0..MaxWord) \X (0..MaxWord)) \X ((0..MaxWord) \X (0..MaxWord))

VARIABLES
    frames,      \* the nested runs, innermost last
    read_only,   \* write protection is on
    reserved,    \* bytes of the memory pool in use
    last_retval, \* length of the return data of the last call
    access,      \* the last use of memory: was it covered, did the check of its size miss a wrap
    wrote,       \* the last instruction changed the state inside a STATICCALL
    steps

vars == <<frames, read_only, reserved, last_retval, access, wrote, steps>>
-----------------------------------------------------------------------------
(* Instructions: an opcode, and the n of PUSHn, DUPn, SWAPn and LOGn.      *)

I(name) == [op |-> name, n |-> 0]
Family(name, ns) == {[op |-> name, n |-> n] : n \in ns}

\* A byte of code that may be any instruction but a PUSHn or JUMPDEST; an unused opcode.
AnyOp == I("ANY")
Invalid == I("INVALID")

BinaryOps == {"ADD", "MUL", "SUB", "DIV", "SDIV", "MOD", "SMOD", "SIGNEXTEND", "LT", "GT",
              "SLT", "SGT", "EQ", "AND", "OR", "XOR", "BYTE", "SHL", "SHR", "SAR", "EXP"}
TernaryOps == {"ADDMOD", "MULMOD"}
UnaryOps == {"NOT", "ISZERO", "CALLDATALOAD", "BLOCKHASH", "BALANCE", "EXTCODESIZE",
             "EXTCODEHASH", "SLOAD", "TLOAD", "MLOAD"}
NullaryOps == {"ADDRESS", "ORIGIN", "CALLER", "CALLVALUE", "CALLDATASIZE", "CODESIZE",
               "GASPRICE", "COINBASE", "TIMESTAMP", "NUMBER", "DIFFICULTY", "GASLIMIT",
               "CHAINID", "SELFBALANCE", "RETURNDATASIZE", "PC", "MSIZE", "GAS", "PUSH0"}
CopyOps == {"CALLDATACOPY", "CODECOPY", "RETURNDATACOPY", "MCOPY"}
CallOps == {"CALL", "CALLCODE", "DELEGATECALL", "STATICCALL"}
CreateOps == {"CREATE", "CREATE2"}
PushOps == Family("PUSH", 1..MaxN)
DupOps == Family("DUP", 1..MaxN)
SwapOps == Family("SWAP", 1..MaxN)
LogOps == Family("LOG", 0..4)

Instructions ==
    {I(o) : o \in UNION {BinaryOps, TernaryOps, UnaryOps, NullaryOps, CopyOps, CallOps,
        CreateOps, {"KECCAK256", "EXTCODECOPY", "POP", "MSTORE", "MSTORE8", "SSTORE",
        "TSTORE", "JUMP", "JUMPI", "JUMPDEST", "STOP", "RETURN", "REVERT", "SELFDESTRUCT"}}}
    \cup PushOps \cup DupOps \cup SwapOps \cup LogOps

ASSUME CodeAssumption == Codes \subseteq Seq(Instructions \cup {AnyOp, Invalid})

(* The instruction set: what validateStack of an instruction pops and      *)
(* pushes, and its flags.                                                  *)

\* makeStackFunc(pop, push)
StackFunc(i) ==
    CASE i.op \in BinaryOps  -> <<2, 1>>
      [] i.op \in TernaryOps -> <<3, 1>>
      [] i.op \in UnaryOps   -> <<1, 1>>
      [] i.op \in NullaryOps -> <<0, 1>>
      [] i.op \in CopyOps    -> <<3, 0>>
      [] i.op \in {"CALL", "CALLCODE"}           -> <<7, 1>>
      [] i.op \in {"DELEGATECALL", "STATICCALL"} -> <<6, 1>>
      [] i.op = "CREATE"  -> <<3, 1>>
      [] i.op = "CREATE2" -> <<4, 1>>
      [] i.op = "KECCAK256"   -> <<2, 1>>
      [] i.op = "EXTCODECOPY" -> <<4, 0>>
      [] i.op \in {"POP", "JUMP", "SELFDESTRUCT"} -> <<1, 0>>
      [] i.op \in {"MSTORE", "MSTORE8", "SSTORE", "TSTORE", "JUMPI", "RETURN", "REVERT"} -> <<2, 0>>
      [] i.op \in {"STOP", "JUMPDEST"} -> <<0, 0>>
      [] i.op = "PUSH" -> <<0, 1>>
      [] i.op = "DUP"  -> <<i.n, i.n + 1>>
      [] i.op = "SWAP" -> <<i.n + 1, i.n + 1>>
      [] i.op = "LOG"  -> <<i.n + 2, 0>>

validateStack(i, height) ==
    height >= StackFunc(i)[1] /\ height + StackFunc(i)[2] - StackFunc(i)[1] <= StackLimit

writes == CreateOps \cup {"SSTORE", "SELFDESTRUCT", "LOG"}
halts == {"STOP", "RETURN", "SELFDESTRUCT"}
returns == CallOps \cup CreateOps \cup {"REVERT"}
-----------------------------------------------------------------------------
(* What the instructions do: the deepest item of the stack they use, the   *)
(* items they leave, the regions of memory they read and write.            *)

Pop(n, push) == [uses |-> n, leaves |-> push - n]

StackEffect(i) ==
    CASE i.op \in BinaryOps \cup {"KECCAK256"} -> Pop(2, 1)   \* pop and peek
      [] i.op \in TernaryOps -> Pop(3, 1)
      [] i.op \in UnaryOps   -> Pop(1, 1)
      [] i.op \in NullaryOps \cup {"PUSH"} -> Pop(0, 1)
      [] i.op \in CopyOps    -> Pop(3, 0)
      [] i.op \in {"CALL", "CALLCODE"} -> Pop(7, 1)
      [] i.op \in {"DELEGATECALL", "STATICCALL"} -> Pop(6, 1)
      [] i.op = "CREATE"  -> Pop(3, 1)
      [] i.op = "CREATE2" -> Pop(4, 1)
      [] i.op = "EXTCODECOPY" -> Pop(4, 0)
      [] i.op \in {"POP", "JUMP", "SELFDESTRUCT"} -> Pop(1, 0)
      [] i.op \in {"MSTORE", "MSTORE8", "SSTORE", "TSTORE", "JUMPI", "RETURN", "REVERT"} -> Pop(2, 0)
      [] i.op \in {"STOP", "JUMPDEST"} -> Pop(0, 0)
      [] i.op = "DUP"  -> [uses |-> i.n, leaves |-> 1]
      [] i.op = "SWAP" -> [uses |-> i.n + 1, leaves |-> 0]
      [] i.op = "LOG"  -> Pop(i.n + 2, 0)

\* Operands an instruction can find, from the top of the stack; those that do not matter
\* are left out.
Operands(i) ==
    CASE i.op \in {"KECCAK256", "RETURN", "REVERT", "LOG"} -> {<<r[1], r[2]>> : r \in Regions}
      [] i.op \in CopyOps -> {<<r[1], w, r[2]>> : r \in Regions, w \in Words}
      [] i.op = "EXTCODECOPY" -> {<<0, r[1], w, r[2]>> : r \in Regions, w \in Words}
      [] i.op \in {"MLOAD", "MSTORE", "MSTORE8"} -> {<<r[1]>> : r \in Regions}
      [] i.op \in CreateOps -> {<<0, r[1], r[2]>> : r \in Regions}
      [] i.op \in {"CALL", "CALLCODE"} ->
             {<<g, 0, v, r[1][1], r[1][2], r[2][1], r[2][2]>> : g \in Words, v \in {0, 1}, r \in CallRegions}
      [] i.op \in {"DELEGATECALL", "STATICCALL"} ->
             {<<g, 0, r[1][1], r[1][2], r[2][1], r[2][2]>> : g \in Words, r \in CallRegions}
      [] i.op = "JUMP" -> {<<w>> : w \in Targets}
      [] i.op = "JUMPI" -> {<<w, c>> : w \in Targets, c \in {0, 1}}
      [] OTHER -> {<<>>}

U64(w) == w % (MaxU64 + 1)

Value(i, x) == IF i.op \in {"CALL", "CALLCODE"} THEN x[3] ELSE 0

In(i, x)  == IF i.op \in {"CALL", "CALLCODE"} THEN <<x[4], x[5]>> ELSE <<x[3], x[4]>>
Out(i, x) == IF i.op \in {"CALL", "CALLCODE"} THEN <<x[6], x[7]>> ELSE <<x[5], x[6]>>

\* The regions an instruction uses at once; the one a call returns to is used later.
Accesses(i, x) ==
    CASE i.op \in {"KECCAK256", "RETURN", "REVERT", "LOG"} -> {<<x[1], x[2]>>}
      [] i.op = "MCOPY" -> {<<x[1], x[3]>>, <<x[2], x[3]>>}
      [] i.op \in CopyOps \ {"MCOPY"} -> {<<x[1], x[3]>>}
      [] i.op = "EXTCODECOPY" -> {<<x[2], x[4]>>}
      [] i.op \in {"MLOAD", "MSTORE"} -> {<<x[1], 32>>}
      [] i.op = "MSTORE8" -> {<<x[1], 1>>}
      [] i.op \in CreateOps -> {<<x[2], x[3]>>}
      [] i.op \in CallOps -> {In(i, x)}
      [] OTHER -> {}

\* Set, Set32, GetCopy, GetPtr and Copy take offset and length as uint64, without a check.
Covered(region, mem) == region[2] = 0 \/ U64(region[1]) + U64(region[2]) <= mem
-----------------------------------------------------------------------------
(* Memory: the size an instruction needs, and the pool.                    *)

Wraps(off, len) == len # 0 /\ off + len > MaxWord

calcMemSize(off, len) == IF len = 0 THEN 0 ELSE (off + len) % (MaxWord + 1)

\* The memory table.  A size of MCOPY that is no uint64 counts as none.
memorySize(i, x) ==
    CASE i.op \in CallOps -> Max({calcMemSize(r[1], r[2]) : r \in {In(i, x), Out(i, x)}})
      [] i.op = "MCOPY" ->
             LET size == calcMemSize(Max({x[1], x[2]}), x[3])
             IN  IF size <= MaxU64 THEN size ELSE 0
      [] OTHER -> Max({calcMemSize(r[1], r[2]) : r \in Accesses(i, x)} \cup {0})

\* Whether the check of the size lets an overflow through.
SizeUnchecked(i, x) ==
    \/ \E r \in Accesses(i, x) \cup (IF i.op \in CallOps THEN {Out(i, x)} ELSE {}) : Wraps(r[1], r[2])
    \/ i.op = "MCOPY" /\ x[3] # 0 /\ Max({x[1], x[2]}) + x[3] > MaxU64

toWordSize(size) == IF size > MaxU64 - 31 THEN MaxU64 \div 32 + 1 ELSE (size + 31) \div 32

\* Mutant: the memory of a run begins where the memory of its caller does.
NewMemoryShared(used) == [len |-> 0, fee |-> 0, off |-> 0, pooled |-> TRUE]

\* Memory.Init: from where the memory of the runs below ends.
NewMemory(used) == [len |-> 0, fee |-> 0, off |-> used, pooled |-> TRUE]

\* Memory.Resize: from the pool while that has room, else a slice of its own.
Resize(m, size) ==
    IF size <= m.len THEN m
    ELSE [m EXCEPT !.len = size, !.pooled = @ /\ m.off + size <= PoolSize]

ReservedAfter(m, new) ==
    IF new.len = m.len \/ ~m.pooled THEN reserved
    ELSE IF new.pooled THEN new.off + new.len ELSE m.off

(* Gas.  A cost is a uint64 or Overflow.                                   *)

Overflow == -1

SafeAdd(a, b) == IF a = Overflow \/ b = Overflow THEN Overflow
                 ELSE IF a + b > MaxU64 THEN Overflow ELSE a + b
SafeMul(a, b) == IF a * b > MaxU64 THEN Overflow ELSE a * b

\* The price of a length in words: Uint64WithOverflow, toWordSize, SafeMul.
WordGas(len, price) == IF len > MaxU64 THEN Overflow ELSE SafeMul(toWordSize(len), price)

\* memoryGasCost: newTotalFee, in uint64, and what of it is not yet paid.
TotalFee(size) == LET words == toWordSize(size)
                  IN  U64(3 * words + U64(words * words) \div 512)

memoryGasCost(m, size) ==
    IF size = 0 THEN 0
    ELSE IF size > MaxMemorySize THEN Overflow
    ELSE IF toWordSize(size) * 32 > m.len THEN U64(TotalFee(size) - m.fee) ELSE 0

Constant(i) ==
    CASE i.op \in {"STOP", "RETURN", "REVERT"} -> 0
      [] i.op = "JUMPDEST" -> 1
      [] i.op \in (NullaryOps \ {"SELFBALANCE"}) \cup {"POP"} -> 2
      [] i.op \in {"MUL", "DIV", "SDIV", "MOD", "SMOD", "SIGNEXTEND", "SELFBALANCE"} -> 5
      [] i.op \in {"KECCAK256"} -> 6
      [] i.op \in {"ADDMOD", "MULMOD", "JUMP"} -> 8
      [] i.op \in {"JUMPI", "EXP"} -> 10
      [] i.op = "BLOCKHASH" -> 20
      [] i.op \in {"TLOAD", "TSTORE"} -> 100
      [] i.op = "LOG" -> 375 + i.n * 375
      [] i.op \in CallOps \cup {"BALANCE", "EXTCODESIZE", "EXTCODEHASH", "EXTCODECOPY"} -> 700
      [] i.op = "SLOAD" -> 800
      [] i.op = "SELFDESTRUCT" -> 5000
      [] i.op \in CreateOps -> 32000
      [] i.op = "SSTORE" -> 0
      [] OTHER -> 3

\* What depends on the accounts and on operands left out: the bytes of an exponent, the
\* values of a slot (gasSStore), an account that does not exist yet.
Extra(i, x) ==
    CASE i.op = "EXP" -> {0, 50, 32 * 50}
      [] i.op = "SSTORE" -> {200, 5000, 20000}
      [] i.op = "SELFDESTRUCT" -> {0, 25000}
      [] i.op = "CALL" -> IF Value(i, x) = 0 THEN {0} ELSE {9000, 9000 + 25000}
      [] i.op = "CALLCODE" -> IF Value(i, x) = 0 THEN {0} ELSE {9000}
      [] OTHER -> {0}

\* The part of the price that grows with a length.
LengthGas(i, x) ==
    CASE i.op \in CopyOps -> WordGas(x[3], 3)
      [] i.op = "EXTCODECOPY" -> WordGas(x[4], 3)
      [] i.op = "KECCAK256" -> WordGas(x[2], 6)
      [] i.op = "CREATE2" -> WordGas(x[3], 6)
      [] i.op = "LOG" -> IF x[2] > MaxU64 THEN Overflow ELSE SafeMul(x[2], 8)
      [] OTHER -> 0

\* callGas: at most 63/64 of what is left after the price of the call, in uint64.
callGas(gas, base, wanted) ==
    LET available == U64(gas - base)
        most == available - available \div 64
    IN  IF wanted > MaxU64 \/ most < wanted THEN most ELSE wanted

\* The price without what a call is given, and call_gas_tmp.
Base(i, x, extra, f, size) ==
    SafeAdd(SafeAdd(memoryGasCost(f.mem, size), Constant(i) + extra), LengthGas(i, x))

CallGasTmp(i, x, base, f) ==
    IF i.op \in CallOps /\ base # Overflow THEN callGas(f.gas, base, x[1]) ELSE 0
-----------------------------------------------------------------------------
(* Code: which bytes are data of a PUSHn, and where a jump may go.         *)

GetOp(code, pc) == IF pc < Len(code) THEN code[pc + 1] ELSE I("STOP")

PushData(i) == IF i.op = "PUSH" THEN i.n ELSE 0

\* Mutant: the last byte of data of a PUSHn counts as code.
codeBitmapShort(code) ==
    LET walk[pc \in 0..(Len(code) + MaxN)] ==
            IF pc >= Len(code) THEN {}
            ELSE (pc + 1)..(pc + PushData(code[pc + 1]) - 1) \cup walk[pc + 1 + PushData(code[pc + 1])]
    IN  walk[0]

\* codeBitmap: one walk over the code marks the data of each PUSHn.
codeBitmap(code) ==
    LET walk[pc \in 0..(Len(code) + MaxN)] ==
            IF pc >= Len(code) THEN {}
            ELSE (pc + 1)..(pc + PushData(code[pc + 1])) \cup walk[pc + 1 + PushData(code[pc + 1])]
    IN  walk[0]

ValidJumpdest(code, dest) ==
    /\ dest <= MaxU64
    /\ GetOp(code, dest) = I("JUMPDEST")
    /\ dest \notin codeBitmap(code)

\* Where an instruction goes on: makePush skips its data, a jump goes to its target.
NextPc(i, x, pc) ==
    CASE i.op = "PUSH" -> pc + 1 + i.n
      [] i.op = "JUMP" \/ (i.op = "JUMPI" /\ x[2] # 0) -> U64(x[1])
      [] OTHER -> pc + 1
-----------------------------------------------------------------------------
(* A run: its frame on top of the others.                                  *)

Top == Last(frames)
Below == Front(frames)

\* EVM.run starts with an empty stack and empty memory.  The code begins with PUSH0s that
\* bring the stack to some height; what follows them is one of Codes.
NewFrame(kind, gas, height, code, used, out, unchecked, static) ==
    [kind |-> kind, gas |-> gas - 2 * height, height |-> height, code |-> code, pc |-> 0,
     mem |-> NewMemory(used), out |-> out, unchecked |-> unchecked, static |-> static,
     protects |-> static /\ ~read_only]

NoRegion == <<0, 0>>
NoAccess == [covered |-> TRUE, unchecked |-> FALSE]

Init ==
    /\ reserved = 0 /\ read_only = FALSE /\ last_retval = 0
    /\ access = NoAccess /\ wrote = FALSE /\ steps = 0
    /\ \E gas \in Gas, code \in Codes, height \in Heights :
         /\ 2 * height <= gas
         /\ frames = <<NewFrame("call", gas, height, code, 0, NoRegion, FALSE, FALSE)>>

\* Mutant: a run that ends takes write protection away though its caller set it.
UnprotectedAlways(f) == FALSE

\* The run that set write protection takes it away.
Unprotected(f) == read_only /\ ~f.protects

\* An access past the memory: a panic, or whatever the slice finds there.  It is not followed.
Panic(unchecked) ==
    /\ frames' = <<>>
    /\ access' = [covered |-> FALSE, unchecked |-> unchecked]
    /\ UNCHANGED last_retval

\* What a caller gets back: gas, return data, and a copy of it in memory unless the call
\* failed.
Returned(rest, caller, call, gas, ret, copied) ==
    IF call.kind = "call" /\ copied /\ ~Covered(call.out, caller.mem.len)
    THEN Panic(call.unchecked)
    ELSE /\ frames' = Append(rest, [caller EXCEPT !.gas = @ + gas, !.pc = @ + 1])
         /\ last_retval' = ret
         /\ access' = NoAccess

\* create, after the run: the code is stored if it is not too long and can be paid for.
Stores(f, ret) == ret <= MaxCodeSize /\ 200 * ret <= f.gas

\* A run ends: what it had of the pool is released, if Resize did not release it before, and
\* its caller goes on.  An error but the revert takes all gas.
Leave(f, outcome, ret) ==
    LET stored == f.kind = "create" /\ outcome = "ok"
        done == IF stored /\ ~Stores(f, ret) THEN "failed" ELSE outcome
        gas == IF done = "failed" THEN 0 ELSE IF stored THEN f.gas - 200 * ret ELSE f.gas
        data == IF done = "reverted" \/ (done = "ok" /\ f.kind = "call") THEN ret ELSE 0
    IN  /\ reserved' = IF Top.mem.pooled THEN Top.mem.off ELSE reserved
        /\ read_only' = Unprotected(f)
        /\ IF Below = <<>>
           THEN frames' = <<>> /\ access' = NoAccess /\ UNCHANGED last_retval
           ELSE Returned(Front(Below), Last(Below), f, gas, data, done # "failed")
-----------------------------------------------------------------------------
(* The loop of EVM.run: the checks before an instruction, its execution,   *)
(* and what follows it.                                                    *)

InstructionsAt(f) ==
    IF GetOp(f.code, f.pc) = AnyOp
    THEN {i \in Instructions : i.op \notin {"PUSH", "JUMPDEST"}}
    ELSE {GetOp(f.code, f.pc)}

Protected(i, x) == read_only /\ (i.op \in writes \/ (i.op = "CALL" /\ Value(i, x) # 0))

\* The memory an instruction needs in whole words, Overflow if that is no uint64.
NeededMemory(i, x) ==
    IF memorySize(i, x) > MaxU64 THEN Overflow ELSE SafeMul(toWordSize(memorySize(i, x)), 32)

Cost(i, x, extra, f) ==
    LET base == Base(i, x, extra, f, NeededMemory(i, x))
    IN  SafeAdd(base, CallGasTmp(i, x, base, f))

\* The checks an instruction does not pass, and the ones execute makes itself.
Refused(i, x, extra, f) ==
    \/ Protected(i, x)
    \/ NeededMemory(i, x) = Overflow
    \/ Cost(i, x, extra, f) = Overflow \/ Cost(i, x, extra, f) > f.gas
    \/ i.op = "JUMP" /\ ~ValidJumpdest(f.code, x[1])
    \/ i.op = "JUMPI" /\ x[2] # 0 /\ ~ValidJumpdest(f.code, x[1])
    \/ i.op = "RETURNDATACOPY" /\ (x[2] > MaxU64 \/ (x[2] + x[3]) % (MaxWord + 1) > last_retval)
    \/ i.op = "TSTORE" /\ read_only

\* UseGas and Resize.
Paid(i, x, extra, f) ==
    LET size == NeededMemory(i, x)
        grown == Resize(f.mem, size)
    IN  [f EXCEPT !.gas = @ - Cost(i, x, extra, f),
                  !.mem = [grown EXCEPT !.fee = IF grown.len > f.mem.len THEN TotalFee(size) ELSE @]]

\* A byte that is no instruction, a stack too low or too high for it, or a failed check.
Fails ==
    /\ frames # <<>> /\ steps < MaxSteps
    /\ \E i \in InstructionsAt(Top) :
         \/ i = Invalid
         \/ i # Invalid /\ ~validateStack(i, Top.height)
         \/ /\ i # Invalid /\ validateStack(i, Top.height)
            /\ \E x \in Operands(i) : \E extra \in Extra(i, x) : Refused(i, x, extra, Top)
    /\ Leave(Top, "failed", 0)
    /\ wrote' = FALSE
    /\ steps' = steps + 1

\* What the instruction itself does to the state of accounts.
ChangesState(i, x) ==
    i.op \in CreateOps \cup {"SSTORE", "TSTORE", "SELFDESTRUCT", "LOG"} \/ (i.op = "CALL" /\ x[3] # 0)

InStatic == \E k \in DOMAIN frames : frames[k].static

\* An instruction passes the checks with operands x, and leaves the run in After.
Executes(i, x, extra) ==
    /\ frames # <<>> /\ steps < MaxSteps
    /\ i # Invalid /\ validateStack(i, Top.height)
    /\ ~Refused(i, x, extra, Top)
    /\ wrote' = (InStatic /\ ChangesState(i, x))
    /\ steps' = steps + 1

After(i, x, extra) ==
    [Paid(i, x, extra, Top) EXCEPT !.height = @ + StackEffect(i).leaves]

Uncovered(i, x, f) == \E r \in Accesses(i, x) : ~Covered(r, f.mem.len)

\* An instruction that stays in its run.
Plain(i, x, extra) ==
    LET f == After(i, x, extra) IN
    /\ i.op \notin CallOps \cup CreateOps \cup halts \cup {"REVERT"}
    /\ Executes(i, x, extra)
    /\ reserved' = ReservedAfter(Top.mem, f.mem)
    /\ UNCHANGED read_only
    /\ IF Uncovered(i, x, f) THEN Panic(SizeUnchecked(i, x))
       ELSE /\ frames' = Append(Below, [f EXCEPT !.pc = NextPc(i, x, @)])
            /\ access' = NoAccess
            /\ UNCHANGED last_retval

\* STOP, RETURN and SELFDESTRUCT halt the run, REVERT undoes it.
Ends(i, x, extra) ==
    LET f == After(i, x, extra) IN
    /\ i.op \in halts \cup {"REVERT"}
    /\ Executes(i, x, extra)
    /\ IF Uncovered(i, x, f)
       THEN Panic(SizeUnchecked(i, x)) /\ UNCHANGED <<reserved, read_only>>
       ELSE Leave(f, IF i.op = "REVERT" THEN "reverted" ELSE "ok",
                  IF i.op \in {"RETURN", "REVERT"} THEN U64(x[2]) ELSE 0)

\* Mutant: the stipend is given whether or not the call moves value.
StipendAlways(i, x) == 2300

Stipend(i, x) == IF Value(i, x) = 0 THEN 0 ELSE 2300

\* What call gives back without a run: too deep, too poor, no code, a precompiled contract
\* that is done, fails, or finds too little gas (its failure takes no other gas).
NoRun(i, x, gas) ==
    LET failed == [gas |-> gas, ret |-> 0, copied |-> FALSE]
    IN  IF Len(frames) > CallCreateDepth THEN {failed}
        ELSE UNION {
            IF Value(i, x) # 0 THEN {failed} ELSE {},
            {[gas |-> gas, ret |-> 0, copied |-> TRUE]},
            {[gas |-> gas - g, ret |-> n, copied |-> done] :
                g \in {g \in PrecompileGas : g <= gas}, n \in {0, 32}, done \in BOOLEAN},
            IF \E g \in PrecompileGas : g > gas THEN {failed} ELSE {}}

\* What create gives back without a run: too deep, too poor, an address that is taken.
NoCreation(gas) ==
    {[gas |-> gas, ret |-> 0, copied |-> FALSE]}
    \cup IF Len(frames) > CallCreateDepth THEN {} ELSE {[gas |-> 0, ret |-> 0, copied |-> FALSE]}

\* A call or creation: with given gas, and what may come back at once.
Nest(i, x, caller, call, gas, atOnce) ==
    LET used == ReservedAfter(Top.mem, caller.mem) IN
    /\ reserved' = used
    /\ \/ /\ \E r \in atOnce : Returned(Below, caller, call, r.gas, r.ret, r.copied)
          /\ UNCHANGED read_only
       \/ /\ Len(frames) <= CallCreateDepth
          /\ \E code \in Codes, height \in Heights :
               /\ 2 * height <= gas
               /\ frames' = Append(Append(Below, caller),
                                   NewFrame(call.kind, gas, height, code, used, call.out,
                                            call.unchecked, i.op = "STATICCALL"))
          /\ read_only' = (read_only \/ i.op = "STATICCALL")
          /\ last_retval' = 0
          /\ access' = NoAccess

\* CALL, CALLCODE, DELEGATECALL and STATICCALL.
Calls(i, x, extra) ==
    LET f == After(i, x, extra)
        tmp == CallGasTmp(i, x, Base(i, x, extra, Top, NeededMemory(i, x)), Top)
    IN  /\ i.op \in CallOps
        /\ Executes(i, x, extra)
        /\ IF Uncovered(i, x, f)
           THEN Panic(SizeUnchecked(i, x)) /\ UNCHANGED <<reserved, read_only>>
           ELSE LET call == [kind |-> "call", out |-> Out(i, x), unchecked |-> SizeUnchecked(i, x)]
                    gas == tmp + Stipend(i, x)
                IN  Nest(i, x, f, call, gas, NoRun(i, x, gas))

\* CREATE and CREATE2 give all but 1/64 of the gas.
Creates(i, x, extra) ==
    LET f == After(i, x, extra)
        kept == f.gas \div 64
    IN  /\ i.op \in CreateOps
        /\ Executes(i, x, extra)
        /\ IF Uncovered(i, x, f)
           THEN Panic(SizeUnchecked(i, x)) /\ UNCHANGED <<reserved, read_only>>
           ELSE Nest(i, x, [f EXCEPT !.gas = kept],
                     [kind |-> "create", out |-> NoRegion, unchecked |-> FALSE],
                     f.gas - kept, NoCreation(f.gas - kept))

Next ==
    \/ Fails
    \/ /\ frames # <<>>
       /\ \E i \in InstructionsAt(Top) : \E x \in Operands(i) : \E extra \in Extra(i, x) :
            \/ Plain(i, x, extra)
            \/ Ends(i, x, extra)
            \/ Calls(i, x, extra)
            \/ Creates(i, x, extra)

Spec == Init /\ [][Next]_vars
-----------------------------------------------------------------------------
(* Properties.                                                             *)

\* The stack of every run stays within its limit whatever the code (the instructions push
\* and pop without a check of their own), and runs nest no deeper than EVM.call allows.
TypeOK ==
    /\ Len(frames) <= CallCreateDepth + 1
    /\ \A k \in DOMAIN frames :
         /\ frames[k].gas \in 0..MaxU64
         /\ frames[k].height \in 0..StackLimit
         /\ frames[k].pc \in Nat
         /\ frames[k].mem.len \in 0..MaxMemorySize
    /\ reserved \in 0..PoolSize /\ last_retval \in 0..MaxU64
    /\ read_only \in BOOLEAN /\ wrote \in BOOLEAN /\ steps \in 0..MaxSteps
    /\ access \in [covered : BOOLEAN, unchecked : BOOLEAN]

\* What the comments on the copy instructions say: offsets and lengths were checked for
\* overflow when memory was sized and paid for.
AccessesChecked == access.covered

TotalGas(fs) == SumFunctionOnSet([k \in DOMAIN fs |-> fs[k].gas], DOMAIN fs)

\* Runs end: an instruction takes gas from the runs together, or ends one of them; calls,
\* creations, stipends and gas given back never add to it.
GasDecreases ==
    [][frames' # <<>> =>
         \/ TotalGas(frames') < TotalGas(frames)
         \/ TotalGas(frames') = TotalGas(frames) /\ Len(frames') < Len(frames)]_vars

\* Nothing a STATICCALL runs, however deep, changes the state of accounts by an instruction
\* (EVM.run keeps one flag for all runs).
ReadOnlyHeld == ~wrote

\* The places where an instruction begins: the least set with the first byte and the byte
\* after each instruction and its data.
Starts(code) ==
    CHOOSE S \in SUBSET (0..Len(code)) :
        LET Closed(R) == 0 \in R /\ \A pc \in R :
                pc < Len(code) => (pc + 1 + PushData(code[pc + 1]) \in R \/ pc + 1 + PushData(code[pc + 1]) > Len(code))
        IN  Closed(S) /\ \A R \in SUBSET S : Closed(R) => R = S

\* Control never reaches the data of a PUSHn, by a jump (ValidJumpdest) or by going on.
JumpsLand ==
    \A k \in DOMAIN frames :
        frames[k].pc < Len(frames[k].code) => frames[k].pc \in Starts(frames[k].code)

\* The memory table makes room for every region an instruction uses, also for the one a
\* call copies its result to much later: an access past the memory comes only from a size
\* that wrapped (Set, Copy and GetPtr do not check again).  Runs share one pool and never a
\* byte of it: each memory ends before the next begins, and the memory of the last ends
\* where the pool is free.
MemorySafe ==
    /\ access.covered \/ access.unchecked
    /\ \A k \in DOMAIN frames :
        LET m == frames[k].mem IN
        m.pooled => /\ m.off + m.len <= reserved
                    /\ \A j \in (k + 1)..Len(frames) :
                         frames[j].mem.pooled => m.off + m.len <= frames[j].mem.off
=============================================================================
