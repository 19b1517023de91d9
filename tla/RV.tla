--------------------------------- MODULE RV ---------------------------------
(***************************************************************************)
(* The instructions of the processor, as far as its control tells them     *)
(* apart: one or a few of each kind that decode routes, stalls or squashes *)
(* for.  An address is a word address, a register is as wide as an         *)
(* address.                                                                *)
(*                                                                         *)
(* An instruction is a record [uop, rd, rs1, rs2, imm, op2_sel], decoded:  *)
(* a register it does not read or write is x0 (hw/decode_issue/            *)
(* InstDecoder.v).                                                         *)
(***************************************************************************)
EXTENDS Integers

CONSTANTS
  NAddr,       \* the number of word addresses
  NumAregs     \* architectural registers, with x0

ASSUME AddrAssumption == NAddr \in Nat \ {0}
ASSUME NumAregsAssumption == NumAregs \in Nat \ {0}

Addr == 0 .. NAddr - 1
Val  == Addr
Areg == 0 .. NumAregs - 1

Wrap(n) == n % NAddr

ALU  == 0
M    == 1
CTRL == 2

\* The pipe that takes an operation (the subsets of hw/top/BlimpV8.v); the
\* decoder knows no other operation.
Subset == [i \in {ALU, M, CTRL} |->
  CASE i = ALU  -> {"ADD", "SUB", "LUI", "AUIPC"}
    [] i = M    -> {"MUL"}
    [] i = CTRL -> {"JAL", "JALR", "BEQ", "BNE", "BLTU", "BGEU"}]

Decodes(inst) == \E i \in DOMAIN Subset : inst.uop \in Subset[i]

Branches == {"BEQ", "BNE", "BLTU", "BGEU"}

Wen(inst) == Decodes(inst) /\ inst.uop \notin Branches

IsJump(inst) == inst.uop \in {"JAL", "JALR"}

\* What the pipes write back.
Result(uop, pc, op1, op2) ==
  CASE uop = "ADD"   -> Wrap(op1 + op2)
    [] uop = "SUB"   -> Wrap(op1 - op2)
    [] uop = "LUI"   -> op2
    [] uop = "AUIPC" -> Wrap(pc + op2)
    [] uop = "MUL"   -> Wrap(op1 * op2)
    [] OTHER         -> Wrap(pc + 1)

\* Whether a branch is taken.  Jumps were redirected in decode.
Taken(uop, op1, op2) ==
  CASE uop = "BEQ"  -> op1 = op2
    [] uop = "BNE"  -> op1 # op2
    [] uop = "BLTU" -> op1 < op2
    [] uop = "BGEU" -> op1 >= op2
    [] OTHER        -> FALSE

JumpTarget(inst, pc, op1) ==
  IF inst.uop = "JAL" THEN Wrap(pc + inst.imm) ELSE Wrap(op1 + inst.imm)

\* What a pipe offers to the writeback unit for the instruction D.
Offer(D, wen, wdata) ==
  [val |-> TRUE, seq_num |-> D.seq_num,
   msg |-> [pc |-> D.pc, waddr |-> D.waddr, wdata |-> wdata, wen |-> wen,
            preg |-> D.preg, ppreg |-> D.ppreg]]
=============================================================================
