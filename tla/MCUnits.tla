------------------------------- MODULE MCUnits -------------------------------
(***************************************************************************)
(* The parts that are small enough to be run through all their inputs, one *)
(* at a time: the buffer of ExQueue, the arbiters of SeqArb, the unit of   *)
(* MulDivRem, the screen of CharBuf, and the translation between lines and *)
(* words of Asm and InstDecoder.                                           *)
(***************************************************************************)
EXTENDS ExQueue, SeqArb, InstDecoder

CONSTANTS MaxRequests, Width, Rows, Cols, Visible

ASSUME MaxRequestsAssumption == MaxRequests \in Nat \ {0}
ASSUME WidthAssumption == Width \in Nat \ {0}
ASSUME ScreenAssumption == Rows \in Nat /\ Rows >= 2 /\ Cols \in Nat \ {0}

VARIABLES
  unit,              \* the part that is run
  n, oldest, req,    \* the arbiters: wires, the oldest number, the requests
  line, pc, word,    \* a line, where it stands, and the word in memory
  curr_state, uop, opa, opb, b_shift, result, need_to_sign_restore, args,
  mem, cursor_x, cursor_y, shift_offset

MDR    == INSTANCE MulDivRem
Screen == INSTANCE CharBuf

arbiterVars == <<n, oldest, req>>
asmVars     == <<line, pc, word>>
mdrVars     == <<curr_state, uop, opa, opb, b_shift, result, need_to_sign_restore, args>>
screenVars  == <<mem, cursor_x, cursor_y, shift_offset>>

----------------------------------------------------------------------------
(* The arbiters: requests come and go one at a time and the oldest number  *)
(* moves, on 1 to MaxRequests wires.                                       *)

Wires == 0 .. n - 1

Valid == {i \in Wires : req[i].val}

\* Requests are of instructions in flight, so no two carry the same number.
Raise(i, s) ==
  /\ ~req[i].val
  /\ \A j \in Valid : req[j].seq_num # s
  /\ req' = [req EXCEPT ![i] = [val |-> TRUE, seq_num |-> s]]
  /\ UNCHANGED <<n, oldest>>

Withdraw(i) ==
  /\ req[i].val
  /\ req' = [req EXCEPT ![i] = Idle]
  /\ UNCHANGED <<n, oldest>>

Move ==
  /\ oldest' = Plus(oldest, 1)
  /\ UNCHANGED <<n, req>>

\* Both squash units pass on the squash of the oldest instruction, for any
\* number of wires, also one that is no power of two: the root of the tree and
\* the end of the chain are the oldest request.  SeqArb grants that request and
\* no other: the numbers on the idle wires do not disturb the comparison with
\* the root.
OldestWins ==
  /\ IsOldest(oldest, req, n, SquashUnitL1(oldest, req, n))
  /\ IsOldest(oldest, req, n, SquashUnitL1Chain(oldest, req, n))
  /\ GrantsOldest(oldest, req, n, Granted(oldest, req, n))

----------------------------------------------------------------------------
(* The assembler: lines at the limits of their fields are assembled, and   *)
(* then bits of the word are flipped.                                      *)

Pcs  == {\h200, \h400000}
Regs == {<<"zero", "t6", "x10">>, <<"x31", "x0", "ra">>, <<"fp", "s1", "x21">>}

\* What a line may say for a field, and the numbers among it that the field
\* can hold; outside of those the assembler cuts off the sign or throws.
Numbers(field, at) ==
  CASE field \in {"imm_i", "imm_s"} -> {-2049, -2048, -1, 0, 1, 1365, 2047, 2048, 4096}
    [] field = "imm_u"  -> {-1, 0, 1, \h55555, \haaaaa, \hfffff, \h100000}
    [] field = "imm_is" -> {-1, 0, 1, 10, 31, 32}
    [] field = "addr_b" -> {at + k : k \in {-4100, -4096, -4, 0, 4, 30, 1364, 2048, 4092, 4096}}
    [] field = "addr_j" -> {at + k : k \in {-1048580, -1048576, -4, 0, 4, 2048, 4096, 349524, 698368, 1048572, 1048576}}
Holds(field, at) ==
  CASE field \in {"imm_i", "imm_s"} -> -2048 .. 2047
    [] field = "imm_u"  -> 0 .. \hfffff
    [] field = "imm_is" -> 0 .. 31
    [] field = "addr_b" -> {k \in at - 4096 .. at + 4095 : k % 4 = 0}
    [] field = "addr_j" -> {k \in at - 1048576 .. at + 1048575 : k % 4 = 0}

Fence == {{"i"}, {"o", "w"}, {"r", "w"}, {"i", "o", "r", "w"}}

Said(field, regs, at) ==
  CASE field = "rd"  -> {regs[1]}
    [] field = "rs1" -> {regs[2]}
    [] field = "rs2" -> {regs[3]}
    [] field \in {"pred", "succ"} -> Fence
    [] OTHER -> Numbers(field, at)

\* The lines of an instruction.
Lines(spec, regs, at) ==
  LET said(i) == Said(spec.fields[i], regs, at)
  IN  CASE Len(spec.fields) = 0 -> {<<spec.name>>}
        [] Len(spec.fields) = 2 -> {<<spec.name, a, b>> : a \in said(1), b \in said(2)}
        [] Len(spec.fields) = 3 -> {<<spec.name, a, b, c>> : a \in said(1), b \in said(2), c \in said(3)}

Assemble(spec, regs, at) ==
  /\ line = <<>> /\ word = {}
  /\ line' \in Lines(spec, regs, at)
  /\ Assembles(line')
  /\ pc' = at
  /\ word' = assemble(line', at)

\* From nothing to any word with its bits among those that decoders look at.
Flip(b) ==
  /\ line = <<>>
  /\ b \notin word
  /\ word' = word \cup {b}
  /\ UNCHANGED <<line, pc>>

\* The memory is cleared.
Erase ==
  /\ word # {}
  /\ line' = <<>> /\ pc' = 0 /\ word' = {}

Fits(spec) ==
  \A i \in DOMAIN spec.fields :
    LET f == spec.fields[i]
    IN  f \in {"rd", "rs1", "rs2", "pred", "succ"} \/ line[i + 1] \in Holds(f, pc)

\* A line with its registers by number.
Canonical(spec) ==
  <<spec.name>> \o [i \in DOMAIN spec.fields |->
     IF spec.fields[i] \in {"rd", "rs1", "rs2"} THEN RegId(reg_masks[line[i + 1]]) ELSE line[i + 1]]

\* What is assembled is disassembled to the same line, wherever it stands, if
\* its numbers fit their fields: the scattered bits of an immediate are put
\* back where they came from, and no other instruction comes before it in the
\* table.
RoundTrip ==
  line # <<>> =>
    LET spec == get_inst_spec_by_name(line[1])[1]
    IN  Fits(spec) => disassemble(word, pc) = Canonical(spec)

\* The processor and the functional model it is tested against read every word
\* alike, though their tables and their immediates are written separately: they
\* know the same instructions (but for the two system calls), with the same
\* registers and the same immediate.
DecodersAgree ==
  LET fl   == get_inst_spec(word)
      hw   == InstDecode(word)
      has(f) == \E i \in DOMAIN fl[1].fields : fl[1].fields[i] = f
      reg(f, get) == IF has(f) THEN get ELSE 0
      imm(w) == IF fl[1].name \in {"srai", "srli", "slli"} THEN w \cap 0 .. 4 ELSE w
  IN  IF fl = <<>> \/ fl[1].name \in {"ecall", "ebreak"} THEN hw = <<>>
      ELSE /\ hw # <<>>
           /\ hw[1].name = fl[1].name
           /\ raddr(word, hw[1].raddr0) = reg("rs1", get_rs1(word))
           /\ raddr(word, hw[1].raddr1) = reg("rs2", get_rs2(word))
           /\ raddr(word, hw[1].waddr) = reg("rd", get_rd(word))
           /\ hw[1].wen <=> has("rd")
           /\ imm(ImmGen(word, hw[1].imm_sel)) = FLImm(fl[1], word)

----------------------------------------------------------------------------
(* The multiplier and divider, on all pairs of words.                      *)

\* Every result is what the functional model computes, but for the most
\* negative word divided by itself (MulDivRem_overflow.cfg).
ResultIsCorrect == MDR!ResultIsCorrect

\* No step of a calculation loses or repeats a part of the product or of the
\* quotient.
NothingIsLost == MDR!NothingIsLost

\* The unit always finishes: no operands keep it calculating.
Finishes == MDR!Finishes

----------------------------------------------------------------------------
(* The screen, under every text.                                           *)

\* The ring of rows shows what a terminal shows that moves its rows.
ShowsTheText == Screen!ShowsTheText

----------------------------------------------------------------------------
UnitInit ==
  /\ unit \in {"queue", "arbiter", "asm", "mul_div_rem", "screen"}
  /\ FifoInit
  /\ unit # "queue" => \A s \in Slot : arr[s] = CHOOSE m \in Msg : TRUE
  /\ n \in (IF unit = "arbiter" THEN 1 .. MaxRequests ELSE {1})
  /\ oldest \in (IF unit = "arbiter" THEN SeqNum ELSE {0})
  /\ req = [i \in Wires |-> Idle]
  /\ line = <<>> /\ pc = 0 /\ word = {}
  /\ MDR!Init
  /\ Screen!Init

UnitNext ==
  /\ UNCHANGED unit
  /\ \/ unit = "queue" /\ ExNext /\ UNCHANGED <<arbiterVars, asmVars, mdrVars, screenVars>>
     \/ /\ unit = "arbiter"
        /\ \/ \E i \in Wires, s \in SeqNum : Raise(i, s)
           \/ \E i \in Wires : Withdraw(i)
           \/ Move
        /\ UNCHANGED <<fifoVars, asmVars, mdrVars, screenVars>>
     \/ /\ unit = "asm"
        /\ \/ \E i \in DOMAIN inst_specs, r \in Regs, at \in Pcs : Assemble(inst_specs[i], r, at)
           \/ \E b \in Funct3 \cup {20, 25, 30} : Flip(b)
           \/ Erase
        /\ UNCHANGED <<fifoVars, arbiterVars, mdrVars, screenVars>>
     \/ /\ unit = "mul_div_rem"
        /\ MDR!Next
        /\ UNCHANGED <<fifoVars, arbiterVars, asmVars, screenVars>>
     \/ /\ unit = "screen"
        /\ Screen!Next
        /\ UNCHANGED <<fifoVars, arbiterVars, asmVars, mdrVars>>

UnitSpec ==
  /\ UnitInit /\ [][UnitNext]_<<unit, fifoVars, arbiterVars, asmVars, mdrVars, screenVars>>
  /\ WF_mdrVars(MDR!SwapSign \/ MDR!Calc \/ MDR!RestoreSign)
=============================================================================
