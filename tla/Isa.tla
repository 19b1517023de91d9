--------------------------------- MODULE Isa ---------------------------------
(***************************************************************************)
(* What the processor promises: it executes the program one instruction    *)
(* after the other, as the functional model fl/FLProc.cpp does.  `trace`   *)
(* is what the instruction trace port shows in a clock cycle: nothing, or  *)
(* the instruction that retires, with the register it writes.              *)
(***************************************************************************)
EXTENDS RV, Sequences

CONSTANT RstAddr

VARIABLES prog, pc, regs, trace

vars == <<prog, pc, regs, trace>>

Read(a) == IF a = 0 THEN 0 ELSE regs[a]

Init ==
  /\ pc    = RstAddr
  /\ regs  = [a \in Areg \ {0} |-> 0]
  /\ trace = << >>

inst == prog[pc]

op1 == Read(inst.rs1)
op2 == IF inst.op2_sel THEN inst.imm ELSE Read(inst.rs2)

wen   == Wen(inst) /\ inst.rd # 0
wdata == Result(inst.uop, pc, op1, op2)

NextPc ==
  IF IsJump(inst) THEN JumpTarget(inst, pc, op1)
  ELSE IF Taken(inst.uop, op1, op2) THEN Wrap(pc + inst.imm)
  ELSE Wrap(pc + 1)

\* One instruction retires.
Retire ==
  /\ Decodes(inst)
  /\ trace' = <<IF wen THEN [pc |-> pc, wen |-> TRUE, waddr |-> inst.rd, wdata |-> wdata]
                ELSE [pc |-> pc, wen |-> FALSE]>>
  /\ regs'  = IF wen THEN [regs EXCEPT ![inst.rd] = wdata] ELSE regs
  /\ pc'    = NextPc
  /\ UNCHANGED prog

\* Nothing retires.
Wait ==
  /\ trace' = << >>
  /\ UNCHANGED <<prog, pc, regs>>

Next == Retire \/ Wait

Spec == Init /\ [][Next]_vars
=============================================================================
