------------------------------- MODULE MCBlimp -------------------------------
(***************************************************************************)
(* An instance of Blimp for TLC: a few programs that bring the hazards     *)
(* together, on three registers of three bits.                             *)
(***************************************************************************)
EXTENDS Blimp

R(uop, rd, rs1, rs2) ==
  [uop |-> uop, rd |-> rd, rs1 |-> rs1, rs2 |-> rs2, imm |-> 0, op2_sel |-> FALSE]
I(uop, rd, rs1, imm) ==
  [uop |-> uop, rd |-> rd, rs1 |-> rs1, rs2 |-> 0, imm |-> imm, op2_sel |-> TRUE]
B(uop, rs1, rs2, imm) ==
  [uop |-> uop, rd |-> 0, rs1 |-> rs1, rs2 |-> rs2, imm |-> imm, op2_sel |-> FALSE]

\* Not an instruction: what fetch may read beyond a jump.
Junk == B("JUNK", 0, 0, 0)

Program(s) == [a \in Addr |-> s[a + 1]]

\* A loop in which slow products overwrite each other, the fast sum of its
\* branch does not wait for them, and the sum in its shadow does.  One round
\* retires eight instructions.
Loop == Program(<<
  R("MUL", 2, 1, 1),
  I("ADD", 1, 1, NAddr \div 2),
  B("BNE", 1, 0, NAddr - 2),
  R("ADD", 2, 1, 2),
  I("JAL", 2, 0, NAddr - 4),
  Junk,
  Junk,
  Junk>>)

\* A jump to a register just computed, jumps in the shadow of taken branches,
\* and slow writes to x0.
Jumps == Program(<<
  I("ADD", 1, 0, 4),
  I("JALR", 1, 1, 1),
  I("JAL", 2, 0, 5),
  R("MUL", 1, 1, 1),
  Junk,
  R("MUL", 0, 1, 1),
  B("BEQ", 0, 0, 2),
  I("JAL", 0, 0, NAddr - 5)>>)

\* One of each remaining operation, and branches on results just written.
Mix == Program(<<
  I("LUI", 1, 0, 3),
  I("AUIPC", 2, 0, 2),
  R("SUB", 2, 1, 2),
  B("BLTU", 2, 1, 2),
  R("MUL", 1, 1, 1),
  R("MUL", 1, 1, 1),
  B("BGEU", 1, 1, 2),
  Junk>>)

MCPrograms == {Loop, Jumps, Mix}
=============================================================================
