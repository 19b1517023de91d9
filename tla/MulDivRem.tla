------------------------------ MODULE MulDivRem ------------------------------
(***************************************************************************)
(* The iterative multiply, divide and remainder unit of                    *)
(* hw/execute/execute_units_l7/IterativeMulDivRemL7.v, for words of Width  *)
(* bits (32 in the code).  One step is one clock edge.                     *)
(*                                                                         *)
(* The environment issues any operation on any two words and takes the     *)
(* result after any delay.  `args` remembers the operands of the           *)
(* instruction in the unit.  What else travels with an instruction (pc,    *)
(* seq_num, waddr, preg, ppreg) is copied from D to W and left out.        *)
(***************************************************************************)
EXTENDS Integers

CONSTANT Width   \* at least 1

MulOps    == {"MUL", "MULH", "MULHU", "MULHSU"}
SignedDiv == {"DIV", "REM"}
Uops      == MulOps \cup SignedDiv \cup {"DIVU", "REMU"}

N    == 2 ^ Width
M    == 2 ^ (2 * Width)
Word == 0 .. N - 1
Long == 0 .. M - 1

\* Two's complement: the sign of a word and of a long, negation, extension.
NegWord(w) == w >= N \div 2
NegLong(x) == x >= M \div 2
Neg(x)     == (M - x) % M
SExt(w)    == IF NegWord(w) THEN w + M - N ELSE w

VARIABLES
  curr_state,
  uop,                    \* D_reg
  opa, opb,               \* the operands, two words wide
  b_shift,                \* the weight of opb in a quotient
  result,
  need_to_sign_restore,
  args

vars == <<curr_state, uop, opa, opb, b_shift, result, need_to_sign_restore, args>>

\* The data registers have no reset value and none is read before IDLE ends.
Init ==
  /\ curr_state = "IDLE"
  /\ uop = "MUL"
  /\ opa = 0 /\ opb = 0 /\ b_shift = 0 /\ result = 0
  /\ need_to_sign_restore = FALSE
  /\ args = <<0, 0>>

-----------------------------------------------------------------------------
(* One step of the calculation, for the signals of                         *)
(* IterativeMulDivRemStepL7.                                               *)

abs_a       == IF NegLong(opa) THEN Neg(opa) ELSE opa
adj_b       == IF NegLong(opa) THEN Neg(opb) ELSE opb
adj_b_shift == IF NegLong(opa) THEN Neg(b_shift) ELSE b_shift

\* Whether the divisor is taken from the dividend.
takes == IF uop \in SignedDiv THEN abs_a >= opb ELSE opa >= opb

next_a ==
  IF uop \in MulOps THEN (2 * opa) % M
  ELSE IF ~takes THEN opa
  ELSE IF uop \in SignedDiv THEN (opa + Neg(adj_b)) % M
  ELSE (opa + Neg(opb)) % M

\* Mutant: the multiplier is shifted as a signed number as well.
next_b_Signed == IF NegLong(opb) THEN M \div 2 + opb \div 2 ELSE opb \div 2

next_b ==
  IF uop \in SignedDiv /\ NegLong(opb) THEN M \div 2 + opb \div 2 ELSE opb \div 2

next_b_shift == b_shift \div 2

\* What the dividing steps do besides: divide-by-zero and overflow.
zero     == opb = 0 /\ uop \notin MulOps
overflow == opb \div N = N - 1 /\ opa % N = N \div 2 /\ uop \in SignedDiv

\* Mutant: the multiplicand is added after it is shifted.
next_result_AfterShift ==
  IF uop \in MulOps THEN IF opb % 2 = 1 THEN (result + next_a) % M ELSE result
  ELSE IF zero THEN IF uop \in {"DIV", "DIVU"} THEN M - 1 ELSE opa
  ELSE IF uop \in {"REM", "REMU"} THEN next_a
  ELSE IF ~takes THEN result
  ELSE (result + (IF uop = "DIV" THEN adj_b_shift ELSE b_shift)) % M

next_result ==
  IF overflow THEN IF uop = "DIV" THEN N \div 2 ELSE 0
  ELSE IF zero THEN IF uop \in {"DIV", "DIVU"} THEN M - 1 ELSE opa
  ELSE IF uop \in MulOps THEN IF opb % 2 = 1 THEN (result + opa) % M ELSE result
  ELSE IF uop \in {"REM", "REMU"} THEN next_a
  ELSE IF ~takes THEN result
  ELSE (result + (IF uop = "DIV" THEN adj_b_shift ELSE b_shift)) % M

calc_done ==
  \/ overflow
  \/ zero
  \/ IF uop \in MulOps THEN next_b = 0 ELSE next_b_shift = 0 \/ next_a = 0

-----------------------------------------------------------------------------
(* The state machine.                                                      *)

W_val == curr_state = "DONE"

D_rdy(W_rdy) == curr_state = "IDLE" \/ (curr_state = "DONE" /\ W_rdy)

init_opa(op, op1) == IF op \in {"MUL", "MULHU", "DIVU", "REMU"} THEN op1 ELSE SExt(op1)

init_opb(op, op2) ==
  IF op \notin MulOps THEN op2 * N
  ELSE IF op = "MULH" THEN SExt(op2)
  ELSE op2

\* Mutant: the sign of the divisor is not looked at.
Accept_NoSwap(op, op1, op2) ==
  /\ curr_state' = "CALC"
  /\ uop'     = op
  /\ args'    = <<op1, op2>>
  /\ opa'     = init_opa(op, op1)
  /\ opb'     = init_opb(op, op2)
  /\ b_shift' = N
  /\ result'  = 0
  /\ need_to_sign_restore' = FALSE

\* D_xfer, from IDLE or in the cycle in which the last result leaves.
Accept(op, op1, op2) ==
  /\ curr_state' = IF NegWord(op2) /\ op \in SignedDiv THEN "SWAP_SIGN" ELSE "CALC"
  /\ uop'     = op
  /\ args'    = <<op1, op2>>
  /\ opa'     = init_opa(op, op1)
  /\ opb'     = init_opb(op, op2)
  /\ b_shift' = N
  /\ result'  = 0
  /\ need_to_sign_restore' = FALSE

SwapSign ==
  /\ curr_state = "SWAP_SIGN"
  /\ curr_state' = "CALC"
  /\ opa' = Neg(opa)
  /\ opb' = Neg(opb)
  /\ need_to_sign_restore' = (uop = "REM")
  /\ UNCHANGED <<uop, args, b_shift, result>>

Calc ==
  /\ curr_state = "CALC"
  /\ curr_state' = IF ~calc_done THEN "CALC"
                   ELSE IF need_to_sign_restore THEN "RESTORE_SIGN"
                   ELSE "DONE"
  /\ opa'     = next_a
  /\ opb'     = next_b
  /\ b_shift' = next_b_shift
  /\ result'  = next_result
  /\ UNCHANGED <<uop, args, need_to_sign_restore>>

RestoreSign ==
  /\ curr_state = "RESTORE_SIGN"
  /\ curr_state' = "DONE"
  /\ result' = Neg(result)
  /\ UNCHANGED <<uop, args, opa, opb, b_shift, need_to_sign_restore>>

\* Decode offers nothing; a result may leave.
Deliver(W_rdy) ==
  /\ curr_state \in {"IDLE", "DONE"}
  /\ curr_state' = IF W_val /\ W_rdy THEN "IDLE" ELSE curr_state
  /\ UNCHANGED <<uop, args, opa, opb, b_shift, result, need_to_sign_restore>>

Issue(W_rdy) ==
  /\ D_rdy(W_rdy)
  /\ \E op \in Uops, op1, op2 \in Word : Accept(op, op1, op2)

Cycle(W_rdy) ==
  \/ SwapSign
  \/ Calc
  \/ RestoreSign
  \/ Deliver(W_rdy)
  \/ Issue(W_rdy)

Next == \E W_rdy \in BOOLEAN : Cycle(W_rdy)

Spec == Init /\ [][Next]_vars

\* The clock ticks.
FairSpec == Spec /\ WF_vars(SwapSign \/ Calc \/ RestoreSign)

\* MULH takes the upper word of the product, the others the lower one of
\* what they computed.
wdata == IF uop \in {"MULH", "MULHU", "MULHSU"} THEN result \div N ELSE result % N

-----------------------------------------------------------------------------
(* What the instructions mean: the functional model, fl/FLProc.cpp.        *)

Signed(w) == IF NegWord(w) THEN w - N ELSE w

Abs(i) == IF i < 0 THEN -i ELSE i

\* Division rounds towards zero.
Quotient(i, j) ==
  IF (i < 0) # (j < 0) THEN -(Abs(i) \div Abs(j)) ELSE Abs(i) \div Abs(j)

\* DIV and REM of the most negative word by -1 follow from the last lines.
Meaning(op, op1, op2) ==
  LET s1 == Signed(op1)
      s2 == Signed(op2)
  IN CASE op = "MUL"    -> (op1 * op2) % N
       [] op = "MULH"   -> ((s1 * s2) \div N) % N
       [] op = "MULHU"  -> (op1 * op2) \div N
       [] op = "MULHSU" -> ((s1 * op2) \div N) % N
       [] op = "DIVU"   -> IF op2 = 0 THEN N - 1 ELSE op1 \div op2
       [] op = "REMU"   -> IF op2 = 0 THEN op1 ELSE op1 % op2
       [] op = "DIV"    -> IF op2 = 0 THEN N - 1 ELSE Quotient(s1, s2) % N
       [] op = "REM"    -> IF op2 = 0 THEN op1 ELSE (s1 - s2 * Quotient(s1, s2)) % N

-----------------------------------------------------------------------------
(* Properties.                                                             *)

\* Every result is what the functional model computes (W.wdata in DONE).
ResultIsExact == W_val => wdata = Meaning(uop, args[1], args[2])

\* The same, but for the most negative word divided by itself.
ResultIsCorrect ==
  W_val /\ ~(uop = "DIV" /\ args = <<N \div 2, N \div 2>>) =>
    wdata = Meaning(uop, args[1], args[2])

\* While a product is calculated, what was added and what remains to be added
\* make up the whole product.
ProductIsKept ==
  curr_state = "CALC" /\ uop \in MulOps =>
    (result + opa * opb) % M = (init_opa(uop, args[1]) * init_opb(uop, args[2])) % M

\* While a quotient is calculated, quotient times divisor plus what remains
\* is the dividend (both with their signs swapped for a negative divisor), and
\* what remains is small enough for the steps to come.
QuotientIsKept ==
  curr_state = "CALC" /\ uop \in {"DIV", "DIVU"} /\ b_shift > 0 /\ args[2] \notin {0, N \div 2} =>
    LET swapped  == uop = "DIV" /\ NegWord(args[2])
        divisor  == IF swapped THEN N - args[2] ELSE args[2]
        dividend == IF swapped THEN Neg(init_opa(uop, args[1])) ELSE init_opa(uop, args[1])
    IN  /\ (result * divisor + opa) % M = dividend
        /\ opb = divisor * b_shift
        /\ (IF uop = "DIV" THEN abs_a ELSE opa) < 2 * opb

\* No step of a calculation loses or repeats a part of the result.
NothingIsLost == ProductIsKept /\ QuotientIsKept

\* The unit always finishes: no operands keep it calculating.
Finishes == (curr_state # "IDLE") ~> W_val
=============================================================================
