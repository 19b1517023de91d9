-------------------------------- MODULE Asm --------------------------------
(***************************************************************************)
(* The assembler and the disassembler of asm/, which the tests and the     *)
(* functional model (fl/FLInst.cpp) share: the table of instructions, the  *)
(* fields of a word, and the translation of a line to a word and back.     *)
(*                                                                         *)
(* A word is the set of its bits that are 1, so | is \cup, & is \cap and   *)
(* a mask is a set of positions.  A line is the sequence of its tokens:    *)
(* the name of the instruction, then registers by name, numbers (what      *)
(* get_imm_int read), and for FENCE sets of the letters i, o, r and w.     *)
(***************************************************************************)
EXTENDS Integers, Sequences, FiniteSets, FiniteSetsExt, TLC

Bits == 0 .. 31

\* The 32 bits of an int, and the int of 32 bits.
Word(n) == {i \in 0 .. 30 : (n \div 2 ^ i) % 2 = 1} \cup {i \in {31} : n < 0}
Int32(w) == SumSet({2 ^ i : i \in w \ {31}}) + (IF 31 \in w THEN -2147483647 - 1 ELSE 0)

\* w << k, and w >> k of a uint32_t and of an int32_t.
Shl(w, k) == {i + k : i \in {j \in w : j + k <= 31}}
Shr(w, k) == {i - k : i \in {j \in w : j >= k}}
Sar(w, k) == Shr(w, k) \cup (IF 31 \in w THEN 32 - k .. 31 ELSE {})

bitslice(w, end, start) == {i \in 0 .. end - start : i + start \in w}

----------------------------------------------------------------------------
(* The fields of a line.  One that throws is reported and adds no bits.    *)

Throws == {}

AbiNames == <<"zero", "ra", "sp", "gp", "tp", "t0", "t1", "t2", "s0", "s1", "a0", "a1", "a2", "a3", "a4", "a5",
              "a6", "a7", "s2", "s3", "s4", "s5", "s6", "s7", "s8", "s9", "s10", "s11", "t3", "t4", "t5", "t6">>

RegId(r) == "x" \o ToString(r)

reg_masks == [n \in {RegId(r) : r \in 0 .. 31} |-> CHOOSE r \in 0 .. 31 : RegId(r) = n]
             @@ [n \in {AbiNames[r] : r \in 1 .. 32} |-> (CHOOSE r \in 1 .. 32 : AbiNames[r] = n) - 1]
             @@ ("fp" :> 8)

reg_mask(name, at) == IF name \in DOMAIN reg_masks THEN Shl(Word(reg_masks[name]), at) ELSE Throws

imm_i_mask(imm) == IF imm > \hfff THEN Throws ELSE Shl(bitslice(Word(imm), 11, 0), 20)

imm_s_mask(imm) ==
  IF imm > \hfff THEN Throws
  ELSE Shl(bitslice(Word(imm), 4, 0), 7) \cup Shl(bitslice(Word(imm), 11, 5), 25)

\* Mutant: bit 11 is put where it is in an S-immediate.
imm_b_mask_Straight(imm) ==
  IF imm > \h1fff \/ imm % 2 # 0 THEN Throws
  ELSE Shl(bitslice(Word(imm), 4, 1), 8) \cup Shl(bitslice(Word(imm), 11, 5), 25)
       \cup Shl(bitslice(Word(imm), 12, 12), 31)

imm_b_mask(imm) ==
  IF imm > \h1fff \/ imm % 2 # 0 THEN Throws
  ELSE Shl(bitslice(Word(imm), 4, 1), 8) \cup Shl(bitslice(Word(imm), 10, 5), 25)
       \cup Shl(bitslice(Word(imm), 11, 11), 7) \cup Shl(bitslice(Word(imm), 12, 12), 31)

imm_u_mask(imm) == IF imm < 0 \/ imm > \hfffff THEN Throws ELSE Shl(Word(imm), 12)

imm_j_mask(imm) ==
  IF imm > \hfffff \/ imm % 2 # 0 THEN Throws
  ELSE Shl(bitslice(Word(imm), 10, 1), 21) \cup Shl(bitslice(Word(imm), 11, 11), 20)
       \cup Shl(bitslice(Word(imm), 19, 12), 12) \cup Shl(bitslice(Word(imm), 20, 20), 31)

imm_is_mask(imm) == IF imm > 31 \/ imm < 0 THEN Throws ELSE Shl(bitslice(Word(imm), 4, 0), 20)

\* The difference is unsigned, printed and read again as an int, which gives
\* the signed one.
addr_b_mask(addr, pc) == IF addr % 4 # 0 THEN Throws ELSE imm_b_mask(addr - pc)
addr_j_mask(addr, pc) == IF addr % 4 # 0 THEN Throws ELSE imm_j_mask(addr - pc)

FenceBit == [i |-> 7, o |-> 6, r |-> 5, w |-> 4]

pred_mask(mem_spec) == {FenceBit[c] + 20 : c \in mem_spec}
succ_mask(mem_spec) == {FenceBit[c] + 16 : c \in mem_spec}

----------------------------------------------------------------------------
(* The fields of a word.                                                   *)

get_reg(w, at) == Int32(bitslice(w, at + 4, at))
get_rs1(w) == get_reg(w, 15)
get_rs2(w) == get_reg(w, 20)
get_rd(w)  == get_reg(w, 7)

get_imm_i(w) == Sar(w, 20)
get_imm_s(w) == (Sar(w, 20) \cap 5 .. 31) \cup (Shr(w, 7) \cap 0 .. 4)

get_imm_b(w) == (Sar(w, 20) \cap (5 .. 10 \cup 12 .. 31)) \cup (Shr(w, 7) \cap 1 .. 4)
                \cup (Shl(w, 4) \cap {11})

get_imm_u(w) == Shr(w, 12)

get_imm_j(w) == (Sar(w, 20) \cap (1 .. 10 \cup 20 .. 31)) \cup (w \cap 12 .. 19)
                \cup (Shr(w, 9) \cap {11})

get_imm_is(w) == Sar(w, 20) \cap 0 .. 4

get_addr_b(w, pc) == Int32(get_imm_b(w)) + pc
get_addr_j(w, pc) == Int32(get_imm_j(w)) + pc

get_pred_id(w) == {c \in DOMAIN FenceBit : FenceBit[c] + 20 \in w}
get_succ_id(w) == {c \in DOMAIN FenceBit : FenceBit[c] + 16 \in w}

----------------------------------------------------------------------------
(* The instructions.                                                       *)

\* The masks of the table: 0x7F, 0x707F, 0xFE00707F and 0xFFFFFFFF.
Opcode == 0 .. 6
Funct3 == Opcode \cup 12 .. 14
Funct7 == Funct3 \cup 25 .. 31

\* Specs with the same fields and mask; names and matches come in pairs.
Specs(fields, mask, insts) ==
  [i \in 1 .. Len(insts) |-> [name |-> insts[i][1], fields |-> fields, match |-> Word(insts[i][2]), mask |-> mask]]

inst_specs ==
     Specs(<<"rd", "rs1", "rs2">>, Funct7,
           << <<"add", \h33>>, <<"sub", \h40000033>>, <<"and", \h7033>>, <<"or", \h6033>>, <<"xor", \h4033>>,
              <<"slt", \h2033>>, <<"sltu", \h3033>>, <<"sra", \h40005033>>, <<"srl", \h5033>>, <<"sll", \h1033>> >>)
  \o Specs(<<"rd", "rs1", "imm_i">>, Funct3,
           << <<"addi", \h13>>, <<"andi", \h7013>>, <<"ori", \h6013>>, <<"xori", \h4013>>,
              <<"slti", \h2013>>, <<"sltiu", \h3013>> >>)
  \o Specs(<<"rd", "rs1", "imm_is">>, Funct7,
           << <<"srai", \h40005013>>, <<"srli", \h5013>>, <<"slli", \h1013>> >>)
  \o Specs(<<"rd", "imm_u">>, Opcode, << <<"lui", \h37>>, <<"auipc", \h17>> >>)
  \o Specs(<<"rd", "imm_i", "rs1">>, Funct3,
           << <<"lb", \h03>>, <<"lh", \h1003>>, <<"lw", \h2003>>, <<"lbu", \h4003>>, <<"lhu", \h5003>> >>)
  \o Specs(<<"rs2", "imm_s", "rs1">>, Funct3, << <<"sb", \h23>>, <<"sh", \h1023>>, <<"sw", \h2023>> >>)
  \o Specs(<<"pred", "succ">>, Funct3, << <<"fence", \h0f>> >>)
  \o Specs(<<"rd", "addr_j">>, Opcode, << <<"jal", \h6f>> >>)
  \o Specs(<<"rd", "rs1", "imm_i">>, Funct3, << <<"jalr", \h67>> >>)
  \o Specs(<<"rs1", "rs2", "addr_b">>, Funct3,
           << <<"beq", \h63>>, <<"bne", \h1063>>, <<"blt", \h4063>>, <<"bge", \h5063>>, <<"bltu", \h6063>>,
              <<"bgeu", \h7063>> >>)
  \o Specs(<<>>, Bits, << <<"ecall", \h73>>, <<"ebreak", \h100073>> >>)
  \o Specs(<<"rd", "rs1", "rs2">>, Funct7,
           << <<"mul", \h2000033>>, <<"mulh", \h2001033>>, <<"mulhsu", \h2002033>>, <<"mulhu", \h2003033>>,
              <<"div", \h2004033>>, <<"divu", \h2005033>>, <<"rem", \h2006033>>, <<"remu", \h2007033>> >>)

\* The first of the table, if there is one.
get_inst_spec_by_name(name) == SelectSeq(inst_specs, LAMBDA spec : spec.name = name)
get_inst_spec(w) == SelectSeq(inst_specs, LAMBDA spec : w \cap spec.mask = spec.match)

----------------------------------------------------------------------------
(* Lines to words and back.                                                *)

Mask(field, token, pc) ==
  CASE field = "rs1"    -> reg_mask(token, 15)
    [] field = "rs2"    -> reg_mask(token, 20)
    [] field = "rd"     -> reg_mask(token, 7)
    [] field = "imm_i"  -> imm_i_mask(token)
    [] field = "imm_s"  -> imm_s_mask(token)
    [] field = "imm_u"  -> imm_u_mask(token)
    [] field = "imm_is" -> imm_is_mask(token)
    [] field = "pred"   -> pred_mask(token)
    [] field = "succ"   -> succ_mask(token)
    [] field = "addr_b" -> addr_b_mask(token, pc)
    [] field = "addr_j" -> addr_j_mask(token, pc)

Token(field, w, pc) ==
  CASE field = "rs1"    -> RegId(get_rs1(w))
    [] field = "rs2"    -> RegId(get_rs2(w))
    [] field = "rd"     -> RegId(get_rd(w))
    [] field = "imm_i"  -> Int32(get_imm_i(w))
    [] field = "imm_s"  -> Int32(get_imm_s(w))
    [] field = "imm_u"  -> Int32(get_imm_u(w))
    [] field = "imm_is" -> Int32(get_imm_is(w))
    [] field = "pred"   -> get_pred_id(w)
    [] field = "succ"   -> get_succ_id(w)
    [] field = "addr_b" -> get_addr_b(w, pc)
    [] field = "addr_j" -> get_addr_j(w, pc)

\* An unknown instruction or a wrong number of tokens throws out of assemble.
Assembles(line) ==
  /\ line # <<>>
  /\ get_inst_spec_by_name(line[1]) # <<>>
  /\ Len(line) = Len(get_inst_spec_by_name(line[1])[1].fields) + 1

assemble(line, pc) ==
  LET spec == get_inst_spec_by_name(line[1])[1]
  IN  spec.match \cup UNION {Mask(spec.fields[i], line[i + 1], pc) : i \in DOMAIN spec.fields}

\* What no instruction matches is shown as "????????".
disassemble(w, pc) ==
  LET spec == get_inst_spec(w)[1]
  IN  IF get_inst_spec(w) = <<>> THEN <<"????????">>
      ELSE <<spec.name>> \o [i \in DOMAIN spec.fields |-> Token(spec.fields[i], w, pc)]

\* The immediate that the functional model computes with.
FLImm(spec, w) ==
  LET has(f) == \E i \in DOMAIN spec.fields : spec.fields[i] = f
  IN  CASE has("imm_i")  -> get_imm_i(w)
        [] has("imm_is") -> get_imm_is(w)
        [] has("imm_s")  -> get_imm_s(w)
        [] has("imm_u")  -> Shl(get_imm_u(w), 12)
        [] has("addr_b") -> get_imm_b(w)
        [] has("addr_j") -> get_imm_j(w)
        [] OTHER         -> {}
=============================================================================
