-------------------------------- MODULE Blimp --------------------------------
(***************************************************************************)
(* The processor of hw/top/BlimpV8.v, without its memory pipe: fetch,      *)
(* decode and issue, three pipes, writeback and commit, and the squash     *)
(* unit, wired as there.  One step is one clock edge of all of them.       *)
(*                                                                         *)
(* The environment is the instruction memory, which takes requests and     *)
(* answers them in order after any delay (that it may also delay taking    *)
(* them is left to module FetchUnit), and the time a multiplication takes. *)
(* The program is chosen at the start.                                     *)
(*                                                                         *)
(* Four variables only observe: `clk` changes with every clock edge,       *)
(* `issued` lists the instructions issued and not yet committed, with      *)
(* their operands, `arch` says which physical register holds the committed *)
(* value of a register, `isa_pc` is the pc of the next instruction to      *)
(* commit.                                                                 *)
(***************************************************************************)
EXTENDS RV, SeqArb, Sequences, FiniteSets

CONSTANTS
  Programs,      \* the programs, functions from Addr to instructions
  RstAddr,       \* p_rst_addr
  NumPregs,      \* p_num_phys_regs, with p0
  MaxFetches,    \* p_max_in_flight of the fetch unit
  FifoDepth,     \* the depth of its resp_fifo
  ReclaimWidth   \* p_reclaim_width of the sequence number generator

\* What a word decodes to; "JUNK" stands for what no pipe takes.
Instruction ==
  [uop : (UNION {Subset[i] : i \in DOMAIN Subset}) \cup {"JUNK"},
   rd : Areg, rs1 : Areg, rs2 : Areg, imm : Val, op2_sel : BOOLEAN]

ASSUME ProgramsAssumption == Programs \subseteq [Addr -> Instruction]
ASSUME RstAddrAssumption == RstAddr \in Addr
ASSUME NumPregsAssumption == NumPregs \in Nat /\ NumPregs >= NumAregs
ASSUME MaxFetchesAssumption == MaxFetches \in Nat \ {0}
ASSUME FifoDepthAssumption == FifoDepth \in Nat \ {0}
ASSUME ReclaimWidthAssumption == ReclaimWidth \in 1 .. NSeq
ASSUME SeqNumBitsAssumption == NSeq > 1   \* p_seq_num_bits is not 0

VARIABLES
  prog,
  curr_addr, num_in_flight, num_to_squash, resp_fifo,   \* FU
  delivered, redirect, inst_mem,
  seq_num_list, curr_head_ptr, curr_tail_ptr,           \* its SeqNumGen
  oldest_seq_num,                                       \* every age register
  F_reg, jump_sent, rename_table, free_list, regs,      \* DIU
  alu_reg, alu_buf,                                     \* ALU_XU and alu_buf
  mul_reg, mul_done,                                    \* MUL_DIV_REM_XU
  ctrl_reg, ctrl_sent,                                  \* CTRL_XU
  X_reg, entries, deq_ptr,                              \* WCU
  trace,                                                \* inst_trace
  clk, issued, arch, isa_pc

vars ==
  <<prog, curr_addr, num_in_flight, num_to_squash, resp_fifo, delivered, redirect, inst_mem,
    seq_num_list, curr_head_ptr, curr_tail_ptr, oldest_seq_num,
    F_reg, jump_sent, rename_table, free_list, regs, alu_reg, alu_buf, mul_reg, mul_done,
    ctrl_reg, ctrl_sent, X_reg, entries, deq_ptr, trace, clk, issued, arch, isa_pc>>

-----------------------------------------------------------------------------
(* The units.                                                              *)

FU == INSTANCE FetchUnit WITH MaxInFlight <- MaxFetches, mem <- inst_mem

\* The instructions that have a sequence number, in program order.
InFlight ==
  [k \in 1 .. Len(issued) |-> issued[k].seq_num] \o
    (IF F_reg.val THEN <<F_reg.seq_num>> ELSE << >>)

SNG == INSTANCE SeqNumGen WITH MaxInFlight <- NSeq - 1, inflight <- InFlight

DIU == INSTANCE DecodeIssue WITH squash_sent <- jump_sent

\* The instructions the rename table knows of.
Renamed ==
  [k \in 1 .. Len(issued) |->
    [areg |-> issued[k].areg, preg |-> issued[k].preg, ppreg |-> issued[k].ppreg,
     done |-> issued[k].done]]

RT == INSTANCE RenameTable WITH MaxIssued <- NSeq, inflight <- Renamed

ALU_XU  == INSTANCE ALU WITH D_reg <- alu_reg, buffer <- alu_buf
MUL_XU  == INSTANCE MulPipe WITH D_reg <- mul_reg, done <- mul_done
CTRL_XU == INSTANCE ControlFlow WITH D_reg <- ctrl_reg, squash_sent <- ctrl_sent

\* The interfaces from the pipes to the writeback unit.
W == [i \in {ALU, M, CTRL} |->
  CASE i = ALU  -> ALU_XU!W
    [] i = M    -> MUL_XU!W
    [] i = CTRL -> CTRL_XU!W]

\* What the writeback unit sees of the instructions in flight: the offers.
Offered ==
  [k \in 1 .. 3 |->
    IF W[k - 1].val THEN [seq_num |-> W[k - 1].seq_num, msg |-> W[k - 1].msg, at |-> k - 1]
    ELSE [at |-> 3]]

WCU == INSTANCE WritebackCommit WITH
  NumPipes <- 3, Results <- {}, MaxInFlight <- NSeq, inflight <- Offered

None == [val |-> FALSE]

Init ==
  /\ prog \in Programs
  /\ FU!Init
  /\ seq_num_list = [s \in SeqNum |-> SNG!FREE]
  /\ curr_head_ptr = 0 /\ curr_tail_ptr = 0 /\ oldest_seq_num = 0
  /\ DIU!Init
  /\ ALU_XU!Init /\ MUL_XU!Init /\ CTRL_XU!Init
  /\ X_reg = None /\ entries = [s \in SeqNum |-> None] /\ deq_ptr = 0
  /\ trace = << >>
  /\ clk = 0 /\ issued = << >> /\ arch = [i \in RT!RenamedAreg |-> i] /\ isa_pc = RstAddr

\* The program, seen from the instructions committed so far.
ISA == INSTANCE Isa WITH pc <- isa_pc, regs <- [a \in Areg \ {0} |-> regs[arch[a]]]

-----------------------------------------------------------------------------
(* The wires between the units.                                            *)

NoNotif == [val |-> FALSE, seq_num |-> 0, areg |-> 0, preg |-> 0, ppreg |-> 0]

Notif(m) ==
  IF ~m.val THEN NoNotif
  ELSE [val |-> TRUE, seq_num |-> m.seq_num, areg |-> m.msg.waddr, preg |-> m.msg.preg,
        ppreg |-> m.msg.ppreg, wen |-> m.msg.wen, wdata |-> m.msg.wdata]

complete_notif == Notif(WCU!complete)
commit_notif   == Notif(WCU!commit)

\* The jump in decode and the branch in CTRL_XU, of which the older one wins.
squash_gnt_notif ==
  SquashUnitL1(oldest_seq_num,
    [i \in {0, 1} |-> IF i = 0 THEN DIU!squash_pub(complete_notif) ELSE CTRL_XU!squash], 2)

\* The pipes that can take an instruction, given those whose result is taken.
Ex_rdy(gnt) ==
  {i \in {ALU, M, CTRL} :
     CASE i = ALU  -> ALU_XU!D_rdy(ALU \in gnt)
       [] i = M    -> MUL_XU!D_rdy(M \in gnt)
       [] i = CTRL -> CTRL_XU!D_rdy(CTRL \in gnt)}

-----------------------------------------------------------------------------
(* One clock edge.                                                         *)

\* What the instruction trace shows in this cycle.
inst_trace(commit) ==
  IF ~commit.val THEN << >>
  ELSE IF commit.wen
    THEN <<[pc |-> WCU!commit.msg.pc, wen |-> TRUE,
            waddr |-> commit.areg, wdata |-> commit.wdata]>>
  ELSE <<[pc |-> WCU!commit.msg.pc, wen |-> FALSE]>>

\* The observing variables but the clock.
Observe(complete, commit, issue) ==
  LET completed ==
        [k \in 1 .. Len(issued) |->
          [issued[k] EXCEPT !.done = @ \/ (complete.val /\ complete.seq_num = issued[k].seq_num)]]
      retires == commit.val /\ issued # << >>
      left    == IF retires THEN Tail(completed) ELSE completed
  IN
  /\ trace' = inst_trace(commit)
  /\ issued' = IF issue = << >> THEN left
               ELSE Append(left, [seq_num |-> issue[1].seq_num, pc |-> issue[1].pc,
                                  op1 |-> issue[1].op1, op2 |-> issue[1].op2,
                                  areg |-> issue[1].waddr, preg |-> issue[1].preg,
                                  ppreg |-> issue[1].ppreg, done |-> FALSE])
  /\ arch' = IF retires /\ issued[1].areg # 0
             THEN [arch EXCEPT ![issued[1].areg] = issued[1].preg] ELSE arch
  /\ isa_pc' = IF retires THEN ISA!NextPc ELSE isa_pc

Cycle(resp_val, finish) ==
  LET complete == complete_notif
      commit   == commit_notif
      squash   == squash_gnt_notif
      target   == IF squash.val THEN <<squash.target>> ELSE << >>
      gnt      == WCU!Ex_gnt
      rdy      == Ex_rdy(gnt)
      to       == DIU!Issues(complete, squash, rdy)
      D        == [i \in {ALU, M, CTRL} |-> IF i \in to THEN <<DIU!X(complete)>> ELSE << >>]
      F_rdy    == DIU!F_rdy(complete, squash, rdy)
      F        == IF FU!D_xfer(F_rdy, SNG!alloc_val, target)
                    THEN <<[val |-> TRUE, inst |-> prog[Head(resp_fifo)],
                            pc |-> Head(resp_fifo), seq_num |-> curr_head_ptr]>>
                  ELSE << >>
  IN
  /\ resp_val => inst_mem # << >>
  /\ FU!Edge(TRUE, resp_val, F_rdy, SNG!alloc_val, target)
  /\ SNG!Edge(F # << >>, commit, squash)
  /\ DIU!Edge(F, complete, commit, squash, rdy)
  /\ ALU_XU!Edge(D[ALU], ALU \in gnt)
  /\ MUL_XU!Edge(D[M], M \in gnt, finish)
  /\ CTRL_XU!Edge(D[CTRL], CTRL \in gnt)
  /\ WCU!Edge
  /\ Observe(complete, commit, IF to = {} THEN << >> ELSE <<DIU!X(complete)>>)
  /\ clk' = 1 - clk
  /\ UNCHANGED prog

Next == \E resp_val, finish \in BOOLEAN : Cycle(resp_val, finish)

Spec == Init /\ [][Next]_vars

\* The clock runs, the memory answers and multiplications end.  What the
\* memory answers goes to resp_fifo or is dropped.
FairSpec ==
  /\ Spec
  /\ []<><<TRUE>>_clk
  /\ []<>(inst_mem = << >>) \/ []<><<TRUE>>_<<inst_mem, resp_fifo, num_to_squash>>
  /\ []<>(~mul_reg.val \/ mul_done)

-----------------------------------------------------------------------------
(* Properties.                                                             *)

\* The instruction trace is that of the program executed one instruction after
\* the other, and between two cycles the committed registers hold what it
\* computed: out-of-order completion, renaming, forwarding, speculation past
\* branches and jumps, and stalls do not show.
ImplementsIsa == ISA!Spec

\* The processor only squashes what it has not issued: whatever a branch or a
\* jump redirects, the younger instructions are still in fetch or decode.  The
\* rename table and the reorder buffer cannot undo anything and rely on it.
NoIssuedIsSquashed ==
  squash_gnt_notif.val =>
    \A k \in 1 .. Len(issued) :
      ~IsOlder(oldest_seq_num, squash_gnt_notif.seq_num, issued[k].seq_num)

\* The rest of the processor is the environment that SeqNumGen and RenameTable
\* assume, so what is proved of them holds in it.
MeetsAssumptions == SNG!Spec /\ RT!Spec

\* Decode gets the path of the program from the last redirection on, each
\* instruction once, while jumps and branches redirect it.
ImplementsStream == FU!ImplementsStream

\* resp_fifo has room for whatever the memory may answer.
RespHasRoom == FU!RespHasRoom

\* The processor never stops: instructions keep retiring.
RetiresForever == []<>(trace # << >>)
=============================================================================
