-------------------------------- MODULE Trap --------------------------------
(***************************************************************************)
(* Registers across traps and context switches of one CPU: the entry and   *)
(* exit of a trap and run_user (kern/modules/trap/src/arch/riscv/entry.rs, *)
(* mod.rs), switch_context (kern/modules/multitask/src/arch/riscv/mod.rs)  *)
(* and the code that calls them with interrupts on or off.                 *)
(*                                                                         *)
(* A step is a run of instructions that no interrupt can tell apart.       *)
(* Registers are in groups that are saved together: ra; sp; s, the         *)
(* callee-saved ones; t, all the others with the floating point ones; gt,  *)
(* gp and tp.  A stack is a list of blocks: <<th, d>> is the block at      *)
(* depth d of thread th, and pushing a block moves sp from d to d + 1.     *)
(* The Context an executor gives to run_user is a local variable of it,    *)
(* block 0.  What is below sp is not kept.                                 *)
(*                                                                         *)
(* A slot end may ask the executor to yield inside the handler.  Where it  *)
(* finds the runtime on its own stack is the subject of Runtime, and left  *)
(* out here.  A behaviour is followed up to the step that loses a context  *)
(* (`fault`): trap_entry saves the kernel over the Context of a program or *)
(* over the stack below it ("entry"), or a slot end comes while            *)
(* switch_context has the executor's SwitchContext in use, half stored,    *)
(* stored or half loaded, and the handler's own switch_yield is about to   *)
(* replace it ("switch").                                                  *)
(***************************************************************************)
EXTENDS Naturals, Sequences

CONSTANTS Executors, RT,   \* the threads: executors and the runtime
          Callers,         \* the executors that run a program
          MaxDepth         \* bound on the blocks of a stack

ASSUME DepthAssumption == MaxDepth \in Nat \ {0}
ASSUME ThreadsAssumption == RT \notin Executors /\ Callers \subseteq Executors

Threads == Executors \cup {RT}
Addr == Threads \X (0 .. MaxDepth)
NoAddr == <<RT, MaxDepth + 1>>   \* sscratch = 0

VARIABLES
  regs,      \* ra, sp, s, t, gt
  pc, priv,  \* "S" or "U"
  on,        \* sstatus.SIE
  prev,      \* sstatus.SPIE and SPP
  sie, sepc, scause, sscratch,
  mem,       \* the blocks of all stacks
  ctx,       \* the SwitchContext of every thread
  current,   \* the executor the runtime has switched to, or RT
  expect,    \* for every thread what its interrupted code had, innermost first
  out,       \* for every thread what it had when it called switch, last call first
  called,    \* for every executor what it had when it called run_user
  user,      \* for every executor what its user program had when it trapped
  fault

csrs == <<on, prev, sie, sepc, scause, sscratch>>
ghosts == <<expect, out, called, user>>
vars == <<regs, pc, priv, on, prev, sie, sepc, scause, sscratch,
          mem, ctx, current, expect, out, called, user, fault>>

Junk == "junk"
JunkT == <<Junk, Junk>>
JunkRegs == [ra |-> Junk, sp |-> NoAddr, s |-> Junk, t |-> JunkT, gt |-> Junk]

\* Context, with the slot of register zero, which holds the kernel's sp.
Context(r, z, p, c, i, e) ==
  [regs |-> r, zero |-> z, prev |-> p, scause |-> c, sie |-> i, sepc |-> e]
Dead == Context(JunkRegs, NoAddr, <<FALSE, "S">>, Junk, FALSE, Junk)

\* user_setup, with the interrupts of the program enabled or disabled.
UserSetup(c, i) ==
  [c EXCEPT !.regs.sp = <<"user", 0>>, !.prev = <<TRUE, "U">>, !.sepc = "user", !.sie = i]
Default == [Dead EXCEPT !.regs.gt = "user"]
Fresh == UserSetup(Default, FALSE)

\* SwitchContext::new_executor and init_executor_addr: s0 holds the executor.
NewExecutor(e) == [ra |-> "launch", sp |-> <<e, 0>>, s |-> e]
NewRuntime == [ra |-> Junk, sp |-> NoAddr, s |-> Junk]

\* jrinx_trap::init has written sscratch and stvec; the runtime is in its loop.
Init ==
  /\ regs = [ra |-> Junk, sp |-> <<RT, 0>>, s |-> Junk, t |-> JunkT, gt |-> "kernel"]
  /\ pc = "loop" /\ priv = "S"
  /\ on = FALSE /\ prev = <<TRUE, "U">> /\ sie = TRUE
  /\ sepc = Junk /\ scause = Junk /\ sscratch = NoAddr
  /\ mem = [a \in Addr |-> IF a[1] # RT /\ a[2] = 0 THEN Fresh ELSE Dead]
  /\ ctx = [th \in Threads |-> IF th = RT THEN NewRuntime ELSE NewExecutor(th)]
  /\ current = RT
  /\ expect = [th \in Threads |-> <<>>]
  /\ out = [th \in Threads |-> IF th = RT THEN <<>> ELSE <<NewExecutor(th)>>]
  /\ called = [e \in Executors |-> JunkRegs]
  /\ user = [e \in Executors |-> Fresh.regs]
  /\ fault = "none"

Self == regs.sp[1]
Below(a) == <<a[1], a[2] + 1>>
Above(a) == <<a[1], a[2] - 1>>

At(p) == fault = "none" /\ pc = p
Goto(p) == pc' = p /\ UNCHANGED <<priv, fault>>

-----------------------------------------------------------------------------
(* The trap: what the hardware does, and trap_entry. *)

\* An interrupt or exception c is taken.
HardwareTrap(c) ==
  /\ pc' = "trap_entry" /\ priv' = "S"
  /\ prev' = <<on, priv>> /\ on' = FALSE /\ sepc' = pc /\ scause' = c
  /\ IF priv = "S"
     THEN expect' = [expect EXCEPT ![Self] =
                       <<[regs |-> regs, pc |-> IF c = "break" THEN "code" ELSE pc,
                           on |-> on, sie |-> sie]>> \o @]
          /\ UNCHANGED user
     ELSE user' = [user EXCEPT ![sscratch[1]] = regs] /\ UNCHANGED expect
  /\ UNCHANGED <<regs, sie, sscratch, mem, ctx, current, out, called, fault>>

Interrupt(c) ==
  /\ fault = "none" /\ sie
  /\ \/ priv = "U"
     \/ on /\ regs.sp[2] < MaxDepth
  /\ HardwareTrap(c)

\* ebreak in the kernel; ecall or a page fault in the program.
Exception ==
  /\ (At("ebreak") /\ regs.sp[2] < MaxDepth) \/ At("user")
  /\ HardwareTrap(IF priv = "S" THEN "break" ELSE "ecall")

\* trap_entry to the call of the handler or to trap_from_user_ed: sscratch
\* tells where to save, sstatus.SPP where to go.  run_user has the stack
\* pointer in the program's Context before it has left the kernel.
TrapEntry ==
  /\ At("trap_entry")
  /\ LET frame == IF sscratch # NoAddr THEN sscratch ELSE Below(regs.sp)
     IN  /\ mem' = [mem EXCEPT ![frame] = Context(regs, @.zero, prev, scause, sie, sepc)]
         /\ regs' = [regs EXCEPT !.sp = frame, !.t = JunkT, !.ra = "exit"]
  /\ sscratch' = NoAddr
  /\ fault' = IF prev[2] = "S" /\ (sscratch # NoAddr \/ sepc = "run_scratch") THEN "entry" ELSE fault
  /\ pc' = (IF prev[2] = "S" THEN "handler" ELSE "from_user") /\ UNCHANGED priv
  /\ UNCHANGED <<on, prev, sie, sepc, scause, ctx, current, ghosts>>

\* Faulty variant: gp and tp of the program stay in the registers.
FromUserKeep ==
  /\ At("from_user")
  /\ LET area == mem[regs.sp].zero
         kept == mem[area].regs
     IN  /\ regs' = [regs EXCEPT !.sp = Above(area), !.s = kept.s, !.ra = kept.ra]
         /\ mem' = [mem EXCEPT ![area] = Dead]
         /\ Goto(kept.ra)
  /\ sepc' = Junk /\ scause' = Junk /\ prev' = <<TRUE, "U">>
  /\ called' = [called EXCEPT ![Self] = JunkRegs]
  /\ UNCHANGED <<on, sie, sscratch, ctx, current, expect, out, user>>

\* trap_from_user_ed: back to the caller of run_user.
FromUser ==
  /\ At("from_user")
  /\ LET area == mem[regs.sp].zero
         kept == mem[area].regs
     IN  /\ regs' = [regs EXCEPT !.sp = Above(area), !.s = kept.s, !.ra = kept.ra, !.gt = kept.gt]
         /\ mem' = [mem EXCEPT ![area] = Dead]
         /\ Goto(kept.ra)
  /\ sepc' = Junk /\ scause' = Junk /\ prev' = <<TRUE, "U">>
  /\ called' = [called EXCEPT ![Self] = JunkRegs]
  /\ UNCHANGED <<on, sie, sscratch, ctx, current, expect, out, user>>

-----------------------------------------------------------------------------
(* handle_kern_trap; interrupts are off. *)

Frame == mem[regs.sp]

\* A handler that comes to its end; the one of a breakpoint steps over it.
HandlerReturn ==
  /\ At("handler")
  /\ mem' = [mem EXCEPT ![regs.sp].sepc = IF Frame.scause = "break" THEN "code" ELSE @]
  /\ regs' = [regs EXCEPT !.t = JunkT]
  /\ Goto("exit_sepc")
  /\ UNCHANGED <<csrs, ctx, current, ghosts>>

\* The interrupted code is in switch_context, from its first store to the
\* load of ra: the SwitchContext of the thread on the stack is in use.
SwitchUnderWay == Frame.sepc \in {"switch_mid", "switch_ld", "switch_ra"}

\* The slot-end callback: with_saved_on enables interrupts for the switch.
HandlerYield ==
  /\ At("handler") /\ Frame.scause = "timer" /\ Self = current /\ Self # RT
  /\ IF SwitchUnderWay THEN fault' = "switch" /\ UNCHANGED <<pc, on, priv, regs>>
     ELSE /\ on' = TRUE /\ Goto("yield")
          /\ regs' = [regs EXCEPT !.s = "saved_on"]
  /\ UNCHANGED <<prev, sie, sepc, scause, sscratch, mem, ctx, current, ghosts>>

\* Faulty variant: the handler goes on with interrupts as they are.
HandlerResumeOn ==
  /\ At("yielded")
  /\ regs' = [regs EXCEPT !.s = Junk]
  /\ Goto("handler")
  /\ UNCHANGED <<csrs, mem, ctx, current, ghosts>>

\* ... and disables them when the switch returns, before the handler goes on.
HandlerResume ==
  /\ At("yielded")
  /\ on' = (on /\ regs.s # "saved_on")
  /\ regs' = [regs EXCEPT !.s = Junk]
  /\ Goto("handler")
  /\ UNCHANGED <<prev, sie, sepc, scause, sscratch, mem, ctx, current, ghosts>>

-----------------------------------------------------------------------------
(* trap_exit; sp points to the saved context. *)

ExitSepc ==
  /\ At("exit_sepc")
  /\ sepc' = Frame.sepc
  /\ regs' = [regs EXCEPT !.t = JunkT]
  /\ Goto("exit_sie")
  /\ UNCHANGED <<on, prev, sie, scause, sscratch, mem, ctx, current, ghosts>>

ExitSie ==
  /\ At("exit_sie")
  /\ sie' = Frame.sie /\ scause' = Frame.scause
  /\ Goto("exit_status")
  /\ UNCHANGED <<regs, on, prev, sepc, sscratch, mem, ctx, current, ghosts>>

\* A saved sstatus has SIE clear.
ExitStatus ==
  /\ At("exit_status")
  /\ prev' = Frame.prev /\ on' = FALSE
  /\ Goto("exit_regs")
  /\ UNCHANGED <<regs, sie, sepc, scause, sscratch, mem, ctx, current, ghosts>>

\* The general registers, sp last; a frame on the stack is popped by it.
ExitRegs ==
  /\ At("exit_regs")
  /\ regs' = Frame.regs
  /\ mem' = [mem EXCEPT ![regs.sp] = IF sscratch = NoAddr THEN Dead ELSE @]
  /\ Goto("sret")
  /\ UNCHANGED <<csrs, ctx, current, ghosts>>

\* Nothing reads sepc and scause before the next trap sets them.
Sret ==
  /\ At("sret")
  /\ pc' = sepc /\ priv' = prev[2] /\ on' = prev[1] /\ prev' = <<TRUE, "U">>
  /\ sepc' = Junk /\ scause' = Junk
  /\ expect' = IF prev[2] = "S" THEN [expect EXCEPT ![Self] = Tail(@)] ELSE expect
  /\ UNCHANGED <<regs, sie, sscratch, mem, ctx, current, out, called, user, fault>>

Exit == ExitSepc \/ ExitSie \/ ExitStatus \/ ExitRegs \/ Sret

-----------------------------------------------------------------------------
(* run_user *)

\* The caller may set up its Context anew, or go on where the program was.
CallRun(e, setup, ints) ==
  /\ At("code") /\ Self = e /\ regs.sp[2] < MaxDepth
  /\ LET c == IF setup THEN UserSetup(mem[<<e, 0>>], ints) ELSE mem[<<e, 0>>]
     IN  mem' = [mem EXCEPT ![<<e, 0>>] = c] /\ user' = [user EXCEPT ![e] = c.regs]
  /\ called' = [called EXCEPT ![e] = regs]
  /\ regs' = [regs EXCEPT !.ra = "code", !.t = <<e, Junk>>]
  /\ Goto("run_push")
  /\ UNCHANGED <<csrs, ctx, current, expect, out>>

\* The callee-saved registers, ra, gp and tp go to the stack, whose sp goes
\* to the context; sp now points to the context.
RunPush ==
  /\ At("run_push")
  /\ LET area == Below(regs.sp)
         own == <<regs.t[1], 0>>
     IN  /\ mem' = [mem EXCEPT ![area] = [Dead EXCEPT !.regs.s = regs.s, !.regs.ra = regs.ra,
                                                     !.regs.gt = regs.gt],
                               ![own].zero = area]
         /\ regs' = [regs EXCEPT !.sp = own, !.t = JunkT]
  /\ Goto("run_scratch")
  /\ UNCHANGED <<csrs, ctx, current, ghosts>>

RunScratch ==
  /\ At("run_scratch")
  /\ sscratch' = regs.sp
  /\ Goto("exit_sepc")
  /\ UNCHANGED <<regs, on, prev, sie, sepc, scause, mem, ctx, current, ghosts>>

RunUser == RunPush \/ RunScratch

-----------------------------------------------------------------------------
(* switch_context: a0 and a1 name the old and the new context. *)

CallSwitch(old, new, ret, r) ==
  /\ regs' = [r EXCEPT !.ra = ret, !.t = <<old, new>>]
  /\ out' = [out EXCEPT ![Self] = <<[ra |-> ret, sp |-> r.sp, s |-> r.s]>> \o @]
  /\ pc' = "switch_st"

SwitchSt ==
  /\ At("switch_st")
  /\ ctx' = [ctx EXCEPT ![regs.t[1]] = [@ EXCEPT !.ra = regs.ra, !.sp = regs.sp]]
  /\ Goto("switch_mid")
  /\ UNCHANGED <<regs, csrs, mem, current, ghosts>>

\* Faulty variant: s0, which is used for satp, is stored after satp.
SwitchStSLate ==
  /\ At("switch_mid")
  /\ ctx' = [ctx EXCEPT ![regs.t[1]] = [@ EXCEPT !.s = Junk]]
  /\ Goto("switch_ld")
  /\ UNCHANGED <<regs, csrs, mem, current, ghosts>>

\* satp, stored last and loaded first through s0, goes with the group s.
SwitchStS ==
  /\ At("switch_mid")
  /\ ctx' = [ctx EXCEPT ![regs.t[1]] = [@ EXCEPT !.s = regs.s]]
  /\ Goto("switch_ld")
  /\ UNCHANGED <<regs, csrs, mem, current, ghosts>>

\* Up to the load of sp the thread is on its old stack, where an interrupt
\* saves and restores whatever has been loaded.
SwitchLd ==
  /\ At("switch_ld")
  /\ LET new == ctx[regs.t[2]]
     IN  regs' = [regs EXCEPT !.s = new.s, !.sp = new.sp]
  /\ Goto("switch_ra")
  /\ UNCHANGED <<csrs, mem, ctx, current, ghosts>>

\* From then on it is on the stack of the new thread, and still to read ra
\* from the new context.
SwitchRa ==
  /\ At("switch_ra")
  /\ LET new == ctx[regs.t[2]]
     IN  /\ regs' = [regs EXCEPT !.ra = new.ra, !.t = JunkT]
         /\ Goto(new.ra)
  /\ out' = [out EXCEPT ![regs.t[2]] = Tail(@)]
  /\ UNCHANGED <<csrs, mem, ctx, current, expect, called, user>>

Switch == SwitchSt \/ SwitchStS \/ SwitchLd \/ SwitchRa

\* The switch_yield of the slot-end callback.
YieldSwitch ==
  /\ At("yield")
  /\ CallSwitch(current, RT, "yielded", regs)
  /\ UNCHANGED <<priv, csrs, mem, ctx, current, expect, called, user, fault>>

-----------------------------------------------------------------------------
(* The code of executors, of the program and of the runtime. *)

Values == {"v0", "v1"}

\* executor_launch: the executor is in s0.
Launch ==
  /\ At("launch")
  /\ regs' = [regs EXCEPT !.t = <<regs.s, Junk>>, !.s = "v0", !.ra = "code"]
  /\ Goto("code")
  /\ UNCHANGED <<csrs, mem, ctx, current, ghosts>>

Compute(v) ==
  /\ At("code") \/ At("user")
  /\ regs' = [regs EXCEPT !.s = v, !.t = <<v, v>>]
  /\ UNCHANGED <<pc, priv, csrs, mem, ctx, current, ghosts, fault>>

Breakpoint ==
  /\ At("code")
  /\ Goto("ebreak")
  /\ UNCHANGED <<regs, csrs, mem, ctx, current, ghosts>>

\* with_saved_off
SavedOff ==
  /\ \/ At("code") /\ on /\ Goto("off") /\ on' = FALSE
     \/ At("off") /\ Goto("code") /\ on' = TRUE
  /\ UNCHANGED <<regs, prev, sie, sepc, scause, sscratch, mem, ctx, current, ghosts>>

\* switch_yield, called by a task.
TaskYield ==
  /\ At("code")
  /\ CallSwitch(current, RT, "code", regs)
  /\ UNCHANGED <<priv, csrs, mem, ctx, current, expect, called, user, fault>>

\* with_saved_on around Inspector::run.
RuntimeOn ==
  /\ At("loop")
  /\ on' = TRUE /\ Goto("irun")
  /\ UNCHANGED <<regs, prev, sie, sepc, scause, sscratch, mem, ctx, current, ghosts>>

\* Inspector::run: the executor's id is a local variable.
RuntimeSwitch(e) ==
  /\ At("irun")
  /\ current' = e
  /\ CallSwitch(RT, e, "iback", [regs EXCEPT !.s = e])
  /\ UNCHANGED <<priv, csrs, mem, ctx, expect, called, user, fault>>

RuntimeBack ==
  /\ At("iback")
  /\ current' = RT /\ Goto("irun")
  /\ UNCHANGED <<regs, csrs, mem, ctx, ghosts>>

RuntimeOff ==
  /\ At("irun")
  /\ on' = FALSE /\ Goto("loop")
  /\ regs' = [regs EXCEPT !.s = Junk]
  /\ UNCHANGED <<prev, sie, sepc, scause, sscratch, mem, ctx, current, ghosts>>

Next ==
  \/ \E c \in {"timer", "other"} : Interrupt(c)
  \/ Exception \/ TrapEntry \/ FromUser
  \/ HandlerReturn \/ HandlerYield \/ YieldSwitch \/ HandlerResume
  \/ Exit \/ RunUser \/ Switch
  \/ \E e \in Callers, setup, ints \in BOOLEAN : CallRun(e, setup, ints)
  \/ Launch \/ Breakpoint \/ SavedOff \/ TaskYield
  \/ \E v \in Values : Compute(v)
  \/ RuntimeOn \/ RuntimeBack \/ RuntimeOff
  \/ \E e \in Executors : RuntimeSwitch(e)

Spec == Init /\ [][Next]_vars

-----------------------------------------------------------------------------
(* Properties. *)

\* Type invariant.
TypeOK ==
  /\ regs.sp \in Addr \cup {<<"user", 0>>}
  /\ priv \in {"S", "U"} /\ on \in BOOLEAN /\ sie \in BOOLEAN
  /\ sscratch \in Addr \cup {NoAddr}
  /\ current \in Threads
  /\ fault \in {"none", "entry", "switch"}

\* sret resumes exactly what was interrupted: all registers, the place (after
\* the instruction, for a breakpoint), the interrupt enables; nested traps,
\* a switch inside the handler and interrupts during that switch included.
\* A program is entered with what it had when it trapped.
TrapTransparent ==
  [][pc = "sret" =>
       IF prev[2] = "S"
       THEN LET x == Head(expect[Self])
            IN  /\ expect[Self] # <<>> /\ regs' = x.regs
                /\ pc' = x.pc
                /\ on' = x.on /\ sie' = x.sie /\ sscratch' = NoAddr
       ELSE /\ pc' = "user" /\ sscratch # NoAddr /\ regs' = user[sscratch[1]]]_vars

\* A thread that is switched to finds its stack, its callee-saved registers
\* and its place as they were when it called switch, and a new executor its
\* own address, wherever in switch_context either thread was interrupted: on
\* the old stack with none, some or all of the registers stored, or on the
\* new one before ra is loaded.  A slot end at one of those places, when
\* something is stored, is where the behaviours end (fault "switch").
SwitchTransparent ==
  [][pc = "switch_ra" /\ pc' # "trap_entry" =>
       LET x == Head(out[regs.t[2]])
       IN  /\ out[regs.t[2]] # <<>>
           /\ pc' = x.ra /\ regs'.ra = x.ra /\ regs'.sp = x.sp /\ regs'.s = x.s]_vars

\* run_user returns with the caller's stack, callee-saved registers, gp and
\* tp, and with the program's registers in the caller's Context; and with
\* interrupts off and sie as it was in the program, whatever the caller had.
RunTransparent ==
  [][pc = "from_user" =>
       LET e == Self
           x == called[e]
       IN  /\ pc' = "code" /\ regs'.sp = x.sp /\ regs'.s = x.s /\ regs'.gt = x.gt
           /\ mem'[<<e, 0>>].regs = user[e] /\ mem'[<<e, 0>>].sepc = "user"
           /\ ~ on' /\ sie' = mem'[<<e, 0>>].sie]_vars

\* What kern/src/test/trap/mod.rs relies on after run(): what the Context of
\* a program records is a trap of the program, never one of the kernel.
RunRecordsUser == \A e \in Callers : mem[<<e, 0>>].prev[2] = "U"
=============================================================================
