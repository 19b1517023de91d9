---------------------------- MODULE InstDecoder ----------------------------
(***************************************************************************)
(* How the processor reads an instruction: the patterns of defs/ISA.v, the *)
(* control table of hw/decode_issue/InstDecoder.v and the immediates of    *)
(* hw/decode_issue/ImmGen.v.  Words are sets of bits, as in Asm.           *)
(***************************************************************************)
EXTENDS Asm

\* A pattern: the bits that are compared, and those of them that are 1.
Pattern(funct7, funct3, opcode, cared) ==
  [match |-> Shl(Word(funct7), 25) \cup Shl(Word(funct3), 12) \cup Word(opcode), cared |-> cared]

\* The entries of the table with the same control signals but for the
\* operation; `insts` lists names, operations and patterns.  rx is register 0,
\* "none" a signal that is undefined or not used.
Entries(signals, insts) ==
  [i \in 1 .. Len(insts) |-> [name |-> insts[i][1], uop |-> insts[i][2], pattern |-> insts[i][3]] @@ signals]

R(funct7, funct3) == Pattern(funct7, funct3, \b0110011, Funct7)
I(funct3, opcode) == Pattern(0, funct3, opcode, Funct3)
U(opcode)         == Pattern(0, 0, opcode, Opcode)

Signals(raddr0, raddr1, waddr, wen, imm_sel, op2_sel, op3_sel, jal) ==
  [raddr0 |-> raddr0, raddr1 |-> raddr1, waddr |-> waddr, wen |-> wen,
   imm_sel |-> imm_sel, op2_sel |-> op2_sel, op3_sel |-> op3_sel, jal |-> jal]

ControlTable ==
     Entries(Signals("rs1", "rs2", "rd", TRUE, "none", "rf", "none", "n"),
       << <<"add", "ADD", R(0, 0)>>, <<"sub", "SUB", R(32, 0)>>, <<"and", "AND", R(0, 7)>>,
          <<"or", "OR", R(0, 6)>>, <<"xor", "XOR", R(0, 4)>>, <<"slt", "SLT", R(0, 2)>>,
          <<"sltu", "SLTU", R(0, 3)>>, <<"sra", "SRA", R(32, 5)>>, <<"srl", "SRL", R(0, 5)>>,
          <<"sll", "SLL", R(0, 1)>> >>)
  \o Entries(Signals("rs1", "rx", "rd", TRUE, "IMM_I", "imm", "none", "n"),
       << <<"addi", "ADD", I(0, \b0010011)>>, <<"andi", "AND", I(7, \b0010011)>>,
          <<"ori", "OR", I(6, \b0010011)>>, <<"xori", "XOR", I(4, \b0010011)>>,
          <<"slti", "SLT", I(2, \b0010011)>>, <<"sltiu", "SLTU", I(3, \b0010011)>>,
          <<"srai", "SRA", Pattern(32, 5, \b0010011, Funct7)>>,
          <<"srli", "SRL", Pattern(0, 5, \b0010011, Funct7)>>,
          <<"slli", "SLL", Pattern(0, 1, \b0010011, Funct7)>> >>)
  \o Entries(Signals("rx", "rx", "rd", TRUE, "IMM_U", "imm", "none", "n"),
       << <<"lui", "LUI", U(\b0110111)>>, <<"auipc", "AUIPC", U(\b0010111)>> >>)
  \o Entries(Signals("rs1", "rx", "rd", TRUE, "IMM_I", "imm", "mem", "n"),
       << <<"lb", "LB", I(0, \b0000011)>>, <<"lh", "LH", I(1, \b0000011)>>, <<"lw", "LW", I(2, \b0000011)>>,
          <<"lbu", "LBU", I(4, \b0000011)>>, <<"lhu", "LHU", I(5, \b0000011)>> >>)
  \o Entries(Signals("rs1", "rs2", "rx", FALSE, "IMM_S", "imm", "mem", "n"),
       << <<"sb", "SB", I(0, \b0100011)>>, <<"sh", "SH", I(1, \b0100011)>>, <<"sw", "SW", I(2, \b0100011)>> >>)
  \o Entries(Signals("rx", "rx", "rx", FALSE, "none", "rf", "none", "n"), << <<"fence", "ADD", I(0, \b0001111)>> >>)
  \o Entries(Signals("rx", "rx", "rd", TRUE, "IMM_J", "none", "none", "jal"), << <<"jal", "JAL", U(\b1101111)>> >>)
  \o Entries(Signals("rs1", "rx", "rd", TRUE, "IMM_I", "none", "none", "jalr"), << <<"jalr", "JALR", I(0, \b1100111)>> >>)
  \o Entries(Signals("rs1", "rs2", "rx", FALSE, "IMM_B", "rf", "br", "n"),
       << <<"beq", "BEQ", I(0, \b1100011)>>, <<"bne", "BNE", I(1, \b1100011)>>, <<"blt", "BLT", I(4, \b1100011)>>,
          <<"bge", "BGE", I(5, \b1100011)>>, <<"bltu", "BLTU", I(6, \b1100011)>>,
          <<"bgeu", "BGEU", I(7, \b1100011)>> >>)
  \o Entries(Signals("rs1", "rs2", "rd", TRUE, "none", "rf", "none", "n"),
       << <<"mul", "MUL", R(1, 0)>>, <<"mulh", "MULH", R(1, 1)>>, <<"mulhu", "MULHU", R(1, 3)>>,
          <<"mulhsu", "MULHSU", R(1, 2)>>, <<"div", "DIV", R(1, 4)>>, <<"divu", "DIVU", R(1, 5)>>,
          <<"rem", "REM", R(1, 6)>>, <<"remu", "REMU", R(1, 7)>> >>)

\* casez takes the first entry that matches; val is FALSE if there is none.
InstDecode(inst) == SelectSeq(ControlTable, LAMBDA e : inst \cap e.pattern.cared = e.pattern.match)

raddr(inst, sel) ==
  CASE sel = "rs1" -> Int32(bitslice(inst, 19, 15))
    [] sel = "rs2" -> Int32(bitslice(inst, 24, 20))
    [] sel = "rd"  -> Int32(bitslice(inst, 11, 7))
    [] sel = "rx"  -> 0

\* Concatenations from the left; the sign fills the bits from `from` on.
Sign(inst, from) == IF 31 \in inst THEN from .. 31 ELSE {}

\* Mutant: the sign of a branch offset starts at bit 11.
ImmGen_EarlySign(inst, imm_sel) ==
  CASE imm_sel = "IMM_I" -> Sign(inst, 11) \cup bitslice(inst, 30, 20)
    [] imm_sel = "IMM_S" -> Sign(inst, 11) \cup Shl(bitslice(inst, 30, 25), 5) \cup bitslice(inst, 11, 7)
    [] imm_sel = "IMM_B" -> Sign(inst, 11) \cup Shl(bitslice(inst, 30, 25), 5) \cup Shl(bitslice(inst, 11, 8), 1)
    [] imm_sel = "IMM_U" -> Shl(bitslice(inst, 31, 12), 12)
    [] imm_sel = "IMM_J" -> Sign(inst, 20) \cup Shl(bitslice(inst, 19, 12), 12) \cup Shl(bitslice(inst, 20, 20), 11)
                            \cup Shl(bitslice(inst, 30, 21), 1)
    [] OTHER             -> {}

ImmGen(inst, imm_sel) ==
  CASE imm_sel = "IMM_I" -> Sign(inst, 11) \cup bitslice(inst, 30, 20)
    [] imm_sel = "IMM_S" -> Sign(inst, 11) \cup Shl(bitslice(inst, 30, 25), 5) \cup bitslice(inst, 11, 7)
    [] imm_sel = "IMM_B" -> Sign(inst, 12) \cup Shl(bitslice(inst, 7, 7), 11) \cup Shl(bitslice(inst, 30, 25), 5)
                            \cup Shl(bitslice(inst, 11, 8), 1)
    [] imm_sel = "IMM_U" -> Shl(bitslice(inst, 31, 12), 12)
    [] imm_sel = "IMM_J" -> Sign(inst, 20) \cup Shl(bitslice(inst, 19, 12), 12) \cup Shl(bitslice(inst, 20, 20), 11)
                            \cup Shl(bitslice(inst, 30, 21), 1)
    [] OTHER             -> {}
=============================================================================
