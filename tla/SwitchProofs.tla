---------------------------- MODULE SwitchProofs ----------------------------
(***************************************************************************)
(* The invariant of Trap, for any number of executors and any depth of     *)
(* nested traps, and that it is kept by what the threads and the program   *)
(* run, by switch_context and by a trap being taken.  TrapProofs goes on   *)
(* with the handlers, trap_exit and run_user.                              *)
(*                                                                         *)
(* The invariant says what every thread has in memory.  On its stack, for  *)
(* each trap under way, is a frame with what the trap interrupted          *)
(* (Stacked); `out` lists the calls of switch_context it has not come back *)
(* from, the deepest first (Listed); a thread that has switched away has   *)
(* in its SwitchContext what it had at the last of those calls             *)
(* (Suspended).  The thread that runs is in one of nine phases, and what   *)
(* the registers hold depends on the phase (Runs).  Inside switch_context  *)
(* they depend on how far it is (Stage): the thread that calls it has      *)
(* stored none, some or all of its registers, and once sp is loaded the    *)
(* thread that is switched to runs, which still has its return address in  *)
(* its SwitchContext.  A handler that yields is never above such code      *)
(* (Open): it would replace what is there.  Programs and Recorded are      *)
(* about the Contexts of the user programs.                                *)
(***************************************************************************)
EXTENDS Trap, Integers, Sequences, TLAPS

-----------------------------------------------------------------------------
(* What the state holds. *)

Words == Threads \cup {"junk", "exit", "saved_on", "kernel", "v0", "v1", "timer", "other", "break", "ecall",
  "code", "ebreak", "off", "launch", "loop", "irun", "iback", "yield", "yielded", "switch_st", "switch_mid",
  "switch_ld", "switch_ra", "run_push", "run_scratch", "user", "from_user", "trap_entry", "handler", "sret",
  "exit_sepc", "exit_sie", "exit_status", "exit_regs"}
Pointers == Addr \cup {NoAddr, <<"user", 0>>}
Regs == [ra : Words, sp : Pointers, s : Words, t : Words \X Words, gt : Words]
Status == BOOLEAN \X {"S", "U"}
Blocks == [regs : Regs, zero : Pointers, prev : Status, scause : Words, sie : BOOLEAN, sepc : Words]
Saves == [ra : Words, sp : Pointers, s : Words]
Snaps == [regs : Regs, pc : Words, on : BOOLEAN, sie : BOOLEAN]

\* What the variables hold.
Typed ==
  /\ regs \in Regs /\ pc \in Words
  /\ on \in BOOLEAN /\ prev \in Status /\ sie \in BOOLEAN
  /\ sepc \in Words /\ scause \in Words /\ sscratch \in Addr \cup {NoAddr}
  /\ mem \in [Addr -> Blocks]
  /\ ctx \in [Threads -> Saves]
  /\ current \in Threads
  /\ expect \in [Threads -> Seq(Snaps)]
  /\ out \in [Threads -> Seq(Saves)]
  /\ called \in [Executors -> Regs]
  /\ user \in [Executors -> Regs]

\* What switch_context keeps of the registers.
Saved(r) == [ra |-> r.ra, sp |-> r.sp, s |-> r.s]

\* What was interrupted at depth k of a stack.
Inner(e, k) == e[Len(e) - k]
Depth(th) == Len(expect[th])
Snap(th, k) == Inner(expect[th], k)

InSwitch == {"switch_st", "switch_mid", "switch_ld", "switch_ra"}
\* On the stack of the caller, ...
Calling == {"switch_st", "switch_mid", "switch_ld"}
\* ... and with the SwitchContext of the thread on the stack in use.
UnderWay == {"switch_mid", "switch_ld", "switch_ra"}
Exits == {"exit_sepc", "exit_sie", "exit_status", "exit_regs"}

\* Where switch_context returns to at depth d.
Returns(th, d, ra, s) ==
  \/ th = RT /\ d = 0 /\ ra = "iback"
  \/ th # RT /\ d = 0 /\ ra \in {"launch", "code"}
  \/ th # RT /\ d > 0 /\ ra = "yielded" /\ s = "saved_on"

\* Where a thread can be at depth d, and with which registers.
Place(th, d, r, p) ==
  \/ th # RT /\ d = 0 /\ p \in {"code", "ebreak", "off", "launch"}
  \/ /\ th # RT /\ d = 0 /\ p = "run_push" /\ r.ra = "code" /\ r.t[1] = th
     /\ called[th].sp = r.sp /\ called[th].s = r.s /\ called[th].gt = r.gt
  \/ th # RT /\ d > 0 /\ p \in {"yield", "yielded"} /\ r.s = "saved_on"
  \/ th = RT /\ d = 0 /\ p \in {"loop", "irun", "iback"}
  \/ p = "switch_ra" /\ r.t[2] = th
  \/ p \in Calling /\ Returns(th, d, r.ra, r.s)
     /\ IF th = RT THEN r.t = <<RT, current>> /\ current # RT ELSE r.t = <<th, RT>>

\* A handler that yields is not above a switch with the SwitchContext in use.
Open(th, d) == d > 0 => Snap(th, d - 1).pc \notin UnderWay

\* The frame above depth k is what was interrupted there.
Framed(th, k) ==
  LET x == Snap(th, k)
      f == mem[<<th, k + 1>>]
  IN  /\ f.regs = x.regs /\ f.prev = <<x.on, "S">> /\ f.sie = x.sie /\ f.sepc = x.pc
      /\ f.scause = "break" => x.pc = "code"

\* ... which was code of the thread on block k.
Level(th, k) ==
  LET x == Snap(th, k)
  IN  x.regs.sp = <<th, k>> /\ Place(th, k, x.regs, x.pc) /\ Open(th, k)

Stacked(th, d) == \A k \in 0 .. d - 1 : Framed(th, k) /\ Level(th, k)

\* out lists the calls of switch_context under way, the deepest first.
Calls(th) == {Saved(Snap(th, k).regs) : k \in {j \in 0 .. Depth(th) - 1 : Snap(th, j).pc \in Calling}}
Descends(s, R) ==
  /\ \A i, j \in DOMAIN s : i < j => s[j].sp[2] < s[i].sp[2]
  /\ \A i \in DOMAIN s : s[i] \in R
  /\ \A x \in R : \E i \in DOMAIN s : s[i] = x

\* The call of the innermost code itself, at p with registers r: what it has
\* until sp is loaded, and what it is about to have from then on.
Innermost(th, r, p) ==
  IF p \in Calling THEN {Saved(r)} ELSE IF p = "switch_ra" THEN {ctx[th]} ELSE {}

\* What the SwitchContext of th holds when it is in switch_context.
Stage(th, d, r, p) ==
  /\ p = "switch_mid" => ctx[th].ra = r.ra /\ ctx[th].sp = r.sp
  /\ p = "switch_ld" => ctx[th] = Saved(r)
  /\ p = "switch_ra" => ctx[th].sp = r.sp /\ ctx[th].s = r.s /\ Returns(th, d, ctx[th].ra, ctx[th].s)

Listed(th, top) == Descends(out[th], Calls(th) \cup top)

\* A thread that has called switch_context and not come back from it.
Suspended(th) ==
  /\ Depth(th) <= MaxDepth
  /\ Stacked(th, Depth(th)) /\ Open(th, Depth(th)) /\ Listed(th, {ctx[th]})
  /\ out[th] # <<>> /\ ctx[th] = Head(out[th]) /\ ctx[th].sp = <<th, Depth(th)>>
  /\ Returns(th, Depth(th), ctx[th].ra, ctx[th].s)

\* The phases of the thread that runs: in code outside traps, ...
InCode(th) ==
  /\ priv = "S" /\ sscratch = NoAddr
  /\ Depth(th) <= MaxDepth /\ regs.sp = <<th, Depth(th)>> /\ Place(th, Depth(th), regs, pc)
  /\ Stacked(th, Depth(th)) /\ Open(th, Depth(th))
  /\ Stage(th, Depth(th), regs, pc)
  /\ Listed(th, Innermost(th, regs, pc))

Top(th) == Snap(th, Depth(th) - 1)

\* What holds from the trap to its sret.
Interrupted(th) ==
  /\ priv = "S" /\ on = FALSE
  /\ Depth(th) \in 1 .. MaxDepth
  /\ Stacked(th, Depth(th) - 1) /\ Open(th, Depth(th) - 1)
  /\ Top(th).regs.sp = <<th, Depth(th) - 1>>
  /\ Stage(th, Depth(th) - 1, Top(th).regs, Top(th).pc)
  /\ Listed(th, IF Top(th).pc = "switch_ra" THEN {ctx[th]} ELSE {})

TopPlace(th) == Place(th, Depth(th) - 1, Top(th).regs, Top(th).pc)

\* ... before trap_entry has saved the registers, ...
Trapped(th) ==
  /\ Interrupted(th) /\ pc = "trap_entry"
  /\ regs = Top(th).regs /\ prev = <<Top(th).on, "S">> /\ sie = Top(th).sie
  /\ IF scause = "break" THEN Top(th).pc = "code" ELSE sepc = Top(th).pc
  /\ sscratch = NoAddr /\ sepc # "run_scratch" => TopPlace(th)

\* ... in the handler or in trap_exit, whose last steps rely on the first, ...
Handling(th) ==
  LET x == Top(th)
      f == mem[<<th, Depth(th)>>]
  IN
  /\ Interrupted(th) /\ TopPlace(th) /\ sscratch = NoAddr
  /\ regs.sp = <<th, Depth(th)>>
  /\ f.regs = x.regs /\ f.prev = <<x.on, "S">> /\ f.sie = x.sie
  /\ f.scause = "break" => x.pc = "code"
  /\ \/ pc = "handler" /\ (f.scause # "break" => f.sepc = x.pc)
     \/ pc \in Exits /\ f.sepc = x.pc
  /\ pc \in {"exit_sie", "exit_status", "exit_regs"} => sepc = x.pc
  /\ pc \in {"exit_status", "exit_regs"} => sie = x.sie
  /\ pc = "exit_regs" => prev = <<x.on, "S">>

\* ... at the sret of a trap, ...
Leaving(th) ==
  /\ Interrupted(th) /\ TopPlace(th) /\ sscratch = NoAddr
  /\ pc = "sret" /\ regs = Top(th).regs /\ sepc = Top(th).pc
  /\ prev = <<Top(th).on, "S">> /\ sie = Top(th).sie

\* run_user of th is under way.
Called(th) ==
  /\ th # RT /\ expect[th] = <<>> /\ Listed(th, {})
  /\ mem[<<th, 0>>].zero = <<th, 1>> /\ called[th].sp = <<th, 0>>
  /\ mem[<<th, 1>>].regs.s = called[th].s /\ mem[<<th, 1>>].regs.ra = "code"
  /\ mem[<<th, 1>>].regs.gt = called[th].gt

\* ... in run_user, before the registers of the program are loaded, ...
Entering(th) ==
  /\ Called(th) /\ priv = "S" /\ regs.sp = <<th, 0>> /\ mem[<<th, 0>>].regs = user[th]
  /\ \/ pc = "run_scratch" /\ sscratch = NoAddr
     \/ pc \in Exits /\ sscratch = <<th, 0>>
  /\ pc \in {"exit_sie", "exit_status", "exit_regs"} => sepc = "user"
  /\ pc = "exit_regs" => prev[2] = "U" /\ on = FALSE

\* ... at the sret to the program, ...
Starting(th) ==
  /\ Called(th) /\ priv = "S" /\ on = FALSE /\ pc = "sret"
  /\ regs = user[th] /\ regs.sp = <<"user", 0>> /\ prev[2] = "U" /\ sepc = "user" /\ sscratch = <<th, 0>>

\* ... in the program, ...
InProgram(th) ==
  /\ Called(th) /\ priv = "U" /\ pc = "user" /\ regs.sp = <<"user", 0>> /\ sscratch = <<th, 0>>

\* ... in trap_entry, come from the program, ...
ProgramTrapped(th) ==
  /\ Called(th) /\ priv = "S" /\ on = FALSE /\ pc = "trap_entry"
  /\ regs = user[th] /\ regs.sp = <<"user", 0>> /\ prev[2] = "U" /\ sepc = "user" /\ sscratch = <<th, 0>>

\* ... and at trap_from_user_ed.
Returning(th) ==
  /\ Called(th) /\ priv = "S" /\ on = FALSE /\ pc = "from_user"
  /\ regs.sp = <<th, 0>> /\ sscratch = NoAddr /\ mem[<<th, 0>>].regs = user[th] /\ mem[<<th, 0>>].sie = sie

\* A program is entered in user mode on its own stack.
Programs ==
  \A e \in Executors : LET c == mem[<<e, 0>>]
                       IN  c.prev[2] = "U" /\ c.sepc = "user" /\ c.regs.sp = <<"user", 0>>

\* The Context of an executor's program holds what the program had, but while
\* a trap of it is on its way there.
Recorded ==
  \A e \in Executors : \/ mem[<<e, 0>>].regs = user[e]
                       \/ pc = "trap_entry" /\ prev[2] = "U" /\ sscratch = <<e, 0>>

Runs(th) ==
  \/ InCode(th) \/ Trapped(th) \/ Handling(th) \/ Leaving(th)
  \/ Entering(th) \/ Starting(th) \/ InProgram(th) \/ ProgramTrapped(th) \/ Returning(th)

Others(th) == \A u \in Threads \ {th} : Suspended(u)

\* th runs, and all others have switched away.
Seat(th) == Runs(th) /\ (th # RT => current = th) /\ Others(th)

Good == Typed /\ Programs /\ \E th \in Threads : Seat(th)

\* The inductive invariant: up to the step that loses a context.
IInv == fault = "none" => Good /\ Recorded
-----------------------------------------------------------------------------

\* Addresses of blocks are neither sscratch = 0 nor without a depth.
LEMMA PointerFacts ==
  /\ \A a \in Pointers : a[2] \in Nat
  /\ \A th \in Threads, d \in 0 .. MaxDepth : <<th, d>> \in Addr /\ <<th, d>> # NoAddr
  /\ Addr \subseteq Pointers /\ NoAddr \in Pointers /\ <<"user", 0>> \in Pointers
<1>1. \A th \in Threads, d \in 0 .. MaxDepth : <<th, d>> \in Addr /\ <<th, d>> # NoAddr
  BY DepthAssumption DEF Addr, NoAddr
<1>2. \A a \in Addr : a[2] \in Nat
  BY DepthAssumption DEF Addr
<1>3. NoAddr[2] \in Nat /\ <<"user", 0>>[2] \in Nat
  BY DepthAssumption DEF NoAddr
<1> QED BY <1>1, <1>2, <1>3, Zenon DEF Pointers

\* The values a register can hold.
LEMMA WordFacts ==
  /\ \A th \in Threads : th \in Words
  /\ "junk" \in Words /\ "exit" \in Words /\ "saved_on" \in Words
  /\ "kernel" \in Words /\ "v0" \in Words /\ "v1" \in Words
BY Zenon DEF Words

\* The places of the code can be in ra and sepc.
LEMMA PlaceWords ==
  /\ "code" \in Words /\ "ebreak" \in Words /\ "off" \in Words /\ "launch" \in Words
  /\ "loop" \in Words /\ "irun" \in Words /\ "iback" \in Words
  /\ "yield" \in Words /\ "yielded" \in Words /\ "switch_st" \in Words /\ "switch_mid" \in Words
  /\ "switch_ld" \in Words /\ "switch_ra" \in Words
  /\ "run_push" \in Words /\ "run_scratch" \in Words /\ "user" \in Words /\ "from_user" \in Words
  /\ "trap_entry" \in Words /\ "handler" \in Words /\ "sret" \in Words
  /\ "exit_sepc" \in Words /\ "exit_sie" \in Words /\ "exit_status" \in Words /\ "exit_regs" \in Words
BY Zenon DEF Words

\* The causes of traps.
LEMMA CauseWords == "timer" \in Words /\ "other" \in Words /\ "break" \in Words /\ "ecall" \in Words
BY Zenon DEF Words

\* What is put before a sequence.
LEMMA FrontFacts ==
  ASSUME NEW S, NEW s \in Seq(S), NEW x \in S
  PROVE  LET t == <<x>> \o s
         IN  /\ t \in Seq(S) /\ DOMAIN t = 1 .. Len(s) + 1 /\ DOMAIN s = 1 .. Len(s) /\ Len(s) \in Nat
             /\ Len(t) = Len(s) + 1 /\ t # <<>> /\ t[1] = x /\ \A i \in 2 .. Len(s) + 1 : t[i] = s[i - 1]
<1> DEFINE t == <<x>> \o s
<1>1. <<x>> \in Seq(S) /\ Len(<<x>>) = 1 /\ <<x>>[1] = x
  OBVIOUS
<1>2. t \in Seq(S) /\ Len(t) = Len(s) + 1 /\ Len(s) \in Nat
  BY <1>1
<1>3. t[1] = x /\ \A i \in 2 .. Len(s) + 1 : t[i] = s[i - 1]
  BY <1>1
<1> QED BY <1>2, <1>3

\* A call of switch_context from the deepest block so far.
LEMMA DescendPush ==
  ASSUME NEW s \in Seq(Saves), NEW R, Descends(s, R), NEW x \in Saves, \A r \in R : r.sp[2] < x.sp[2]
  PROVE  Descends(<<x>> \o s, R \cup {x}) /\ <<x>> \o s \in Seq(Saves)
<1> DEFINE t == <<x>> \o s
<1>1. /\ t \in Seq(Saves) /\ DOMAIN t = 1 .. Len(s) + 1 /\ DOMAIN s = 1 .. Len(s) /\ Len(s) \in Nat
      /\ t[1] = x /\ \A i \in 2 .. Len(s) + 1 : t[i] = s[i - 1]
  BY FrontFacts
<1> HIDE DEF t
<1>2. ASSUME NEW i \in DOMAIN t, NEW j \in DOMAIN t, i < j PROVE t[j].sp[2] < t[i].sp[2]
  <2>1. j - 1 \in DOMAIN s /\ t[j] = s[j - 1]
    BY <1>1, <1>2
  <2>2. CASE i = 1
    BY <1>1, <2>1, <2>2, Zenon DEF Descends
  <2>3. CASE i # 1
    <3>1. i - 1 \in DOMAIN s /\ t[i] = s[i - 1] /\ i - 1 < j - 1
      BY <1>1, <1>2, <2>3
    <3> QED BY <2>1, <3>1, Zenon DEF Descends
  <2> QED BY <2>2, <2>3, Zenon
<1>3. ASSUME NEW i \in DOMAIN t PROVE t[i] \in R \cup {x}
  <2>1. i = 1 \/ (i - 1 \in DOMAIN s /\ t[i] = s[i - 1])
    BY <1>1
  <2> QED BY <1>1, <2>1, Zenon DEF Descends
<1>4. ASSUME NEW r \in R \cup {x} PROVE \E i \in DOMAIN t : t[i] = r
  <2>1. CASE r = x
    BY <1>1, <2>1
  <2>2. CASE r \in R
    <3>1. PICK i \in DOMAIN s : s[i] = r
      BY <2>2, Zenon DEF Descends
    <3>2. i + 1 \in 2 .. Len(s) + 1 /\ (i + 1) - 1 = i /\ i + 1 \in DOMAIN t
      BY <1>1
    <3> QED BY <1>1, <3>1, <3>2, Zenon
  <2> QED BY <2>1, <2>2, Zenon
<1> QED BY <1>1, <1>2, <1>3, <1>4, Zenon DEF Descends, t

\* The deepest call is the first, and returns first.
LEMMA DescendPop ==
  ASSUME NEW s \in Seq(Saves), NEW R, NEW x \in Saves, Descends(s, R \cup {x}), \A r \in R : r.sp[2] < x.sp[2]
  PROVE  /\ s # <<>> /\ Head(s) = x /\ Tail(s) \in Seq(Saves) /\ Descends(Tail(s), R)
<1>1. PICK i \in DOMAIN s : s[i] = x
  BY Zenon DEF Descends
<1>2. x.sp[2] \in Nat /\ \A y \in Saves : y.sp[2] \in Nat
  BY PointerFacts, Zenon DEF Saves
<1>3. s # <<>> /\ DOMAIN s = 1 .. Len(s) /\ Len(s) \in Nat
  BY <1>1
<1>4. /\ Tail(s) \in Seq(Saves) /\ Head(s) = s[1] /\ 1 \in DOMAIN s
      /\ DOMAIN Tail(s) = 1 .. Len(s) - 1 /\ \A k \in 1 .. Len(s) - 1 : Tail(s)[k] = s[k + 1]
  BY <1>3
<1>5. s[1] = x
  <2> SUFFICES ASSUME s[1] # x PROVE FALSE
    BY Zenon
  <2>1. 1 < i
    BY <1>1, <1>3
  <2>2. x.sp[2] < s[1].sp[2] /\ s[1] \in R
    BY <1>1, <1>4, <2>1, Zenon DEF Descends
  <2>3. s[1] \in Saves
    BY <1>4
  <2> QED BY <1>2, <2>2, <2>3
<1>6. \A k \in DOMAIN s : k # 1 => s[k].sp[2] < x.sp[2]
  BY <1>3, <1>4, <1>5 DEF Descends
<1> DEFINE t == Tail(s)
<1> HIDE DEF t
<1>7. t \in Seq(Saves) /\ DOMAIN t = 1 .. Len(s) - 1 /\ \A k \in DOMAIN t : t[k] = s[k + 1] /\ k + 1 \in DOMAIN s /\ k + 1 # 1
  BY <1>3, <1>4 DEF t
<1>8. \A k, l \in DOMAIN t : k < l => t[l].sp[2] < t[k].sp[2]
  <2> SUFFICES ASSUME NEW k \in DOMAIN t, NEW l \in DOMAIN t, k < l PROVE t[l].sp[2] < t[k].sp[2]
    BY Zenon
  <2>1. k + 1 < l + 1
    BY <1>3, <1>7
  <2> QED BY <1>7, <2>1 DEF Descends
<1>9. \A k \in DOMAIN t : t[k] \in R
  <2> SUFFICES ASSUME NEW k \in DOMAIN t PROVE t[k] \in R
    BY Zenon
  <2>1. t[k] # x
    BY <1>2, <1>6, <1>7
  <2> QED BY <1>7, <2>1, Zenon DEF Descends
<1>10. \A r \in R : \E k \in DOMAIN t : t[k] = r
  <2> SUFFICES ASSUME NEW r \in R PROVE \E k \in DOMAIN t : t[k] = r
    BY Zenon
  <2>1. PICK k \in DOMAIN s : s[k] = r
    BY Zenon DEF Descends
  <2>2. k # 1
    BY <1>2, <1>5, <2>1
  <2>3. k - 1 \in DOMAIN t /\ (k - 1) + 1 = k
    BY <1>3, <1>7, <2>2
  <2> QED BY <1>7, <2>1, <2>3, Zenon
<1> QED BY <1>3, <1>4, <1>5, <1>7, <1>8, <1>9, <1>10, Zenon DEF Descends, t

-----------------------------------------------------------------------------

\* What was interrupted at each depth, when one more is, and one less.
LEMMA InnerPush ==
  ASSUME NEW e \in Seq(Snaps), NEW x \in Snaps
  PROVE  /\ <<x>> \o e \in Seq(Snaps) /\ Len(<<x>> \o e) = Len(e) + 1 /\ Len(e) \in Nat
         /\ Inner(<<x>> \o e, Len(e)) = x
         /\ \A k \in 0 .. Len(e) - 1 : Inner(<<x>> \o e, k) = Inner(e, k) /\ Inner(e, k) \in Snaps
BY DEF Inner

\* ... and one that is popped.
LEMMA InnerPop ==
  ASSUME NEW e \in Seq(Snaps), Len(e) > 0
  PROVE  /\ Tail(e) \in Seq(Snaps) /\ Len(Tail(e)) = Len(e) - 1 /\ Len(e) \in Nat /\ e # <<>>
         /\ Inner(e, Len(e) - 1) = Head(e)
         /\ \A k \in 0 .. Len(e) - 2 : Inner(Tail(e), k) = Inner(e, k) /\ Inner(e, k) \in Snaps
BY DEF Inner

\* What was interrupted at any depth is a snapshot.
LEMMA InnerTyped ==
  ASSUME NEW e \in Seq(Snaps)
  PROVE  Len(e) \in Nat /\ \A k \in 0 .. Len(e) - 1 : Inner(e, k) \in Snaps
BY DEF Inner

-----------------------------------------------------------------------------

\* A step that leaves a thread's stack and what is kept of it as they are.
Untouched(u) ==
  /\ \A d \in 1 .. MaxDepth : mem'[<<u, d>>] = mem[<<u, d>>]
  /\ expect'[u] = expect[u] /\ out'[u] = out[u] /\ ctx'[u] = ctx[u]
  /\ u # RT => called'[u] = called[u]

\* A thread has a number of traps under way.
LEMMA DepthNat == ASSUME Typed, NEW th \in Threads PROVE Depth(th) \in Nat
BY DEF Typed, Depth

\* Frames that nobody writes keep agreeing with what was interrupted.
LEMMA StackedKept ==
  ASSUME NEW th \in Threads, NEW d \in Nat, Stacked(th, d),
         \A k \in 0 .. d - 1 : Snap(th, k)' = Snap(th, k),
         \A k \in 1 .. d : mem'[<<th, k>>] = mem[<<th, k>>],
         th # RT => called'[th] = called[th],
         th = RT /\ d > 0 => current' = current
  PROVE  Stacked(th, d)'
<1> SUFFICES ASSUME NEW k \in 0 .. d - 1 PROVE Framed(th, k)' /\ Level(th, k)'
  BY Zenon DEF Stacked
<1>1. Framed(th, k) /\ Level(th, k) /\ d > 0 /\ k + 1 \in 1 .. d
  BY DEF Stacked
<1>2. PICK x : x = Snap(th, k)
  BY Zenon
<1>3. Snap(th, k)' = x /\ mem'[<<th, k + 1>>] = mem[<<th, k + 1>>]
  BY <1>1, <1>2, Zenon
<1>4. Framed(th, k)'
  BY <1>1, <1>2, <1>3, Zenon DEF Framed
<1>5. Place(th, k, x.regs, x.pc)'
  BY <1>1, <1>2, Zenon DEF Level, Place
<1>6. Open(th, k)'
  BY <1>1 DEF Level, Open
<1> QED BY <1>1, <1>2, <1>3, <1>4, <1>5, <1>6, Zenon DEF Level

\* A thread that has switched away stays as it is while others run.
LEMMA SuspendedKept ==
  ASSUME Typed, NEW u \in Threads, Suspended(u), Untouched(u)
  PROVE  Suspended(u)'
<1>1. /\ Depth(u) \in Nat /\ Depth(u) <= MaxDepth /\ expect'[u] = expect[u] /\ out'[u] = out[u] /\ ctx'[u] = ctx[u]
      /\ Depth(u)' = Depth(u) /\ \A k \in 0 .. Depth(u) - 1 : Snap(u, k)' = Snap(u, k)
  BY DEF Untouched, Suspended, Depth, Snap, Typed
<1>2. u = RT => Depth(u) = 0
  BY Zenon DEF Suspended, Returns
<1>3. PICK d \in Nat : d = Depth(u)
  BY <1>1, Zenon
<1>4. Stacked(u, d)'
  <2>1. Stacked(u, d) /\ \A k \in 1 .. d : mem'[<<u, k>>] = mem[<<u, k>>]
    BY <1>1, <1>3, DepthAssumption DEF Suspended, Untouched
  <2> QED BY <1>1, <1>2, <1>3, <2>1, StackedKept DEF Untouched
<1>5. Open(u, d)'
  BY <1>1, <1>3 DEF Suspended, Open
<1>6. Calls(u)' = Calls(u)
  BY <1>1, Zenon DEF Calls, Snap, Depth
<1>7. Listed(u, {ctx[u]})'
  BY <1>1, <1>6, Zenon DEF Listed, Suspended
<1> QED BY <1>1, <1>3, <1>4, <1>5, <1>7, Zenon DEF Suspended, Returns

\* ... and so do all of them.
LEMMA OthersKept ==
  ASSUME Typed, NEW th, Others(th), \A u \in Threads \ {th} : Untouched(u)
  PROVE  Others(th)'
BY SuspendedKept, Zenon DEF Others

\* A step of code that stays on its block and calls nobody.
LEMMA CodeKept ==
  ASSUME Typed, NEW th \in Threads, InCode(th), pc \notin InSwitch, pc' \notin InSwitch,
         UNCHANGED <<priv, sscratch, ctx, expect, out>>, regs'.sp = regs.sp,
         \A k \in 1 .. Depth(th) : mem'[<<th, k>>] = mem[<<th, k>>],
         Depth(th) > 0 => called' = called /\ current' = current,
         Place(th, Depth(th), regs, pc)'
  PROVE  InCode(th)'
<1>1. /\ Depth(th) \in Nat /\ Depth(th)' = Depth(th) /\ \A k \in Nat : Snap(th, k)' = Snap(th, k)
  BY DEF Depth, Snap, Typed
<1>2. PICK d \in Nat : d = Depth(th)
  BY <1>1, Zenon
<1>3. Stacked(th, d)'
  <2>1. CASE d = 0
    BY <2>1 DEF Stacked
  <2>2. CASE d # 0
    <3>1. Stacked(th, d)
      BY <1>2, Zenon DEF InCode
    <3> QED BY <1>1, <1>2, <2>2, <3>1, StackedKept
  <2> QED BY <2>1, <2>2, Zenon
<1>4. Open(th, d)'
  BY <1>1, <1>2 DEF InCode, Open
<1>5. Calls(th)' = Calls(th)
  BY Zenon DEF Calls, Snap, Depth
<1>6. Listed(th, {})'
  <2>1. Innermost(th, regs, pc) = {}
    BY Zenon DEF Innermost, InSwitch, Calling
  <2> QED BY <1>5, <2>1, Zenon DEF InCode, Listed
<1>7. Place(th, d, regs, pc)'
  BY <1>1, <1>2, Zenon
<1>8. Stage(th, d, regs, pc)' /\ Innermost(th, regs, pc)' = {}
  BY Zenon DEF Stage, Innermost, InSwitch, Calling
<1> QED BY <1>1, <1>2, <1>3, <1>4, <1>6, <1>7, <1>8, Zenon DEF InCode

\* Where the running thread is tells which phase it is in.
CodePlaces == {"code", "ebreak", "off", "launch", "run_push", "yield", "yielded", "loop", "irun", "iback",
               "switch_st", "switch_mid", "switch_ld", "switch_ra"}

\* Code that is not part of a trap or of run_user.
LEMMA CodeOnly == ASSUME NEW th, InCode(th) PROVE pc \in CodePlaces
BY Zenon DEF InCode, Place, InSwitch, Calling, CodePlaces

\* The place alone tells whether a trap, an exit or run_user is under way.
LEMMA Phases ==
  ASSUME NEW th, Runs(th)
  PROVE  /\ pc \in CodePlaces => InCode(th)
         /\ pc = "trap_entry" => Trapped(th) \/ ProgramTrapped(th)
         /\ pc = "handler" => Handling(th)
         /\ pc \in Exits => Handling(th) \/ Entering(th)
         /\ pc = "sret" => Leaving(th) \/ Starting(th)
         /\ pc = "run_scratch" => Entering(th)
         /\ pc = "user" => InProgram(th)
         /\ pc = "from_user" => Returning(th)
<1>1. InCode(th) => pc \in CodePlaces
  BY CodeOnly, Zenon
<1>2. Trapped(th) \/ ProgramTrapped(th) => pc = "trap_entry"
  BY Zenon DEF Trapped, ProgramTrapped
<1>3. Handling(th) => pc = "handler" \/ pc \in Exits
  BY Zenon DEF Handling
<1>4. Entering(th) => pc = "run_scratch" \/ pc \in Exits
  BY Zenon DEF Entering
<1>5. /\ Leaving(th) \/ Starting(th) => pc = "sret"
      /\ InProgram(th) => pc = "user"
      /\ Returning(th) => pc = "from_user"
  BY Zenon DEF Leaving, Starting, InProgram, Returning
<1> QED BY <1>1, <1>2, <1>3, <1>4, <1>5, Zenon DEF Runs, CodePlaces, Exits

-----------------------------------------------------------------------------
(* The code of executors, of the program and of the runtime. *)

\* A step of code that leaves memory, contexts and ghosts alone.
LEMMA QuietStep ==
  ASSUME Typed, Programs, NEW th \in Threads, Seat(th), InCode(th), pc \notin InSwitch, pc' \notin InSwitch,
         UNCHANGED <<priv, prev, sie, sepc, scause, sscratch, mem, ctx, ghosts>>,
         regs' \in Regs, regs'.sp = regs.sp, pc' \in Words, on' \in BOOLEAN, current' \in Threads,
         th # RT \/ Depth(th) > 0 => current' = current,
         Place(th, Depth(th), regs, pc)'
  PROVE  Good'
<1>1. Typed'
  BY Zenon DEF Typed, ghosts
<1>2. Programs'
  BY Zenon DEF Programs
<1>3. InCode(th)'
  BY CodeKept, Zenon DEF ghosts
<1>4. Others(th)'
  <2>1. \A u \in Threads \ {th} : Untouched(u)
    BY Zenon DEF Untouched, ghosts
  <2> QED BY <2>1, OthersKept, Zenon DEF Seat
<1> QED BY <1>1, <1>2, <1>3, <1>4, Zenon DEF Good, Seat, Runs

\* What At says of the phase.
LEMMA InCodeAt ==
  ASSUME NEW th, Seat(th), pc \in CodePlaces
  PROVE  InCode(th) /\ Place(th, Depth(th), regs, pc)
BY Phases, Zenon DEF Seat, InCode

\* executor_launch.
LEMMA LaunchGood == ASSUME Good, Launch PROVE Good'
<1>1. PICK th \in Threads : Seat(th)
  BY Zenon DEF Good
<1>2. Typed /\ Programs /\ pc = "launch" /\ pc \notin InSwitch
  BY Zenon DEF Good, Launch, At, InSwitch, Calling
<1>3. InCode(th) /\ Place(th, Depth(th), regs, pc)
  BY <1>1, <1>2, InCodeAt, Zenon DEF CodePlaces
<1>4. /\ regs' = [regs EXCEPT !.t = <<regs.s, "junk">>, !.s = "v0", !.ra = "code"]
      /\ pc' = "code" /\ current' = current /\ on' = on
      /\ UNCHANGED <<priv, prev, sie, sepc, scause, sscratch, mem, ctx, ghosts>>
  BY Zenon DEF Launch, Goto, csrs, Junk
<1>5. regs' \in Regs /\ regs'.sp = regs.sp
  BY <1>2, <1>4, WordFacts, PlaceWords, Zenon DEF Typed, Regs
<1>6. th # RT /\ Depth(th) = 0
  BY <1>2, <1>3, Zenon DEF Place, InSwitch, Calling
<1>7. Place(th, Depth(th), regs, pc)'
  BY <1>4, <1>6, Zenon DEF Place, Depth, ghosts
<1>8. pc' \notin InSwitch /\ pc' \in Words /\ on' \in BOOLEAN /\ current' \in Threads
  BY <1>2, <1>4, PlaceWords, Zenon DEF Typed, InSwitch, Calling
<1> QED BY <1>1, <1>2, <1>3, <1>4, <1>5, <1>7, <1>8, QuietStep, Zenon

\* Code of an executor or of the program that computes.
LEMMA ComputeGood == ASSUME Good, NEW v \in Values, Compute(v) PROVE Good'
<1>1. PICK th \in Threads : Seat(th)
  BY Zenon DEF Good
<1>2. Typed /\ Programs /\ pc \in {"code", "user"} /\ pc \notin InSwitch
  BY Zenon DEF Good, Compute, At, InSwitch, Calling
<1>3. /\ regs' = [regs EXCEPT !.s = v, !.t = <<v, v>>]
      /\ pc' = pc /\ current' = current /\ on' = on
      /\ UNCHANGED <<priv, prev, sie, sepc, scause, sscratch, mem, ctx, ghosts>>
  BY Zenon DEF Compute, csrs
<1>4. regs' \in Regs /\ regs'.sp = regs.sp
  BY <1>2, <1>3, WordFacts, Zenon DEF Typed, Regs, Values
<1>5. pc' \notin InSwitch /\ pc' \in Words /\ on' \in BOOLEAN /\ current' \in Threads
  BY <1>2, <1>3, Zenon DEF Typed
<1>6. CASE pc = "code"
  <2>1. InCode(th) /\ Place(th, Depth(th), regs, pc)
    BY <1>1, <1>6, InCodeAt, Zenon DEF CodePlaces
  <2>2. th # RT /\ Depth(th) = 0
    BY <1>6, <2>1, Zenon DEF Place, InSwitch, Calling
  <2>3. Place(th, Depth(th), regs, pc)'
    BY <1>3, <1>6, <2>2, Zenon DEF Place, Depth, ghosts
  <2> QED BY <1>1, <1>2, <1>3, <1>4, <1>5, <2>1, <2>3, QuietStep, Zenon
<1>7. CASE pc = "user"
  <2>1. InProgram(th)
    BY <1>1, <1>7, Phases, Zenon DEF Seat
  <2>2. Called(th)'
    <3>1. Calls(th)' = Calls(th)
      BY <1>3, Zenon DEF Calls, Snap, Depth, ghosts
    <3> QED BY <1>3, <2>1, <3>1, Zenon DEF InProgram, Called, Listed, ghosts
  <2>3. InProgram(th)'
    BY <1>3, <1>4, <2>1, <2>2, Zenon DEF InProgram
  <2>4. Others(th)'
    <3>1. \A u \in Threads \ {th} : Untouched(u)
      BY <1>3, Zenon DEF Untouched, ghosts
    <3> QED BY <1>1, <1>2, <3>1, OthersKept, Zenon DEF Seat
  <2>5. Typed' /\ Programs'
    BY <1>2, <1>3, <1>4, <1>5, Zenon DEF Typed, Programs, ghosts
  <2> QED BY <1>1, <1>3, <2>3, <2>4, <2>5, Zenon DEF Good, Seat, Runs
<1> QED BY <1>2, <1>6, <1>7, Zenon

\* Steps that only move on, with interrupts on or off.
LEMMA MoveGood == ASSUME Good, Breakpoint \/ SavedOff \/ RuntimeOn PROVE Good'
<1>1. PICK th \in Threads : Seat(th)
  BY Zenon DEF Good
<1>2. Typed /\ Programs /\ pc \in {"code", "off", "loop"} /\ pc \notin InSwitch
  BY Zenon DEF Good, Breakpoint, SavedOff, RuntimeOn, At, InSwitch, Calling
<1>3. InCode(th) /\ Place(th, Depth(th), regs, pc)
  BY <1>1, <1>2, InCodeAt, Zenon DEF CodePlaces
<1>4. /\ regs' = regs /\ current' = current /\ on' \in BOOLEAN
      /\ IF pc = "loop" THEN pc' = "irun" ELSE pc' \in {"ebreak", "off", "code"}
      /\ UNCHANGED <<priv, prev, sie, sepc, scause, sscratch, mem, ctx, ghosts>>
  BY <1>2, Zenon DEF Breakpoint, SavedOff, RuntimeOn, At, Goto, csrs, Typed
<1>5. regs' \in Regs /\ regs'.sp = regs.sp /\ pc' \in Words /\ pc' \notin InSwitch /\ current' \in Threads
  BY <1>2, <1>4, PlaceWords, Zenon DEF Typed, InSwitch, Calling
<1>6. (IF pc = "loop" THEN th = RT ELSE th # RT) /\ Depth(th) = 0
  BY <1>2, <1>3, Zenon DEF Place, InSwitch, Calling
<1>7. Place(th, Depth(th), regs, pc)'
  BY <1>4, <1>6, Zenon DEF Place, Depth, ghosts
<1> QED BY <1>1, <1>2, <1>3, <1>4, <1>5, <1>7, QuietStep, Zenon

\* The loop of the runtime after a switch, and its end.
LEMMA RuntimeGood == ASSUME Good, RuntimeBack \/ RuntimeOff PROVE Good'
<1>1. PICK th \in Threads : Seat(th)
  BY Zenon DEF Good
<1>2. Typed /\ Programs /\ pc \in {"irun", "iback"} /\ pc \notin InSwitch
  BY Zenon DEF Good, RuntimeBack, RuntimeOff, At, InSwitch, Calling
<1>3. InCode(th) /\ Place(th, Depth(th), regs, pc)
  BY <1>1, <1>2, InCodeAt, Zenon DEF CodePlaces
<1>4. /\ regs' = regs \/ regs' = [regs EXCEPT !.s = "junk"]
      /\ pc' \in {"irun", "loop"} /\ on' \in BOOLEAN /\ current' \in {current, RT}
      /\ UNCHANGED <<priv, prev, sie, sepc, scause, sscratch, mem, ctx, ghosts>>
  BY <1>2, Zenon DEF RuntimeBack, RuntimeOff, At, Goto, csrs, Typed, Junk
<1>5. regs' \in Regs /\ regs'.sp = regs.sp
  BY <1>2, <1>4, WordFacts, Zenon DEF Typed, Regs
<1>6. pc' \in Words /\ pc' \notin InSwitch /\ current' \in Threads
  BY <1>2, <1>4, PlaceWords, Zenon DEF Typed, InSwitch, Calling, Threads
<1>7. th = RT /\ Depth(th) = 0
  BY <1>2, <1>3, Zenon DEF Place, InSwitch, Calling
<1>8. Place(th, Depth(th), regs, pc)'
  BY <1>4, <1>7, Zenon DEF Place, Depth, ghosts
<1> QED BY <1>1, <1>2, <1>3, <1>4, <1>5, <1>6, <1>7, <1>8, QuietStep

-----------------------------------------------------------------------------
(* switch_context *)

\* What switch_context keeps of registers.
LEMMA SavedTyped == ASSUME NEW r \in Regs PROVE Saved(r) \in Saves /\ Saved(r).sp = r.sp
BY Zenon DEF Regs, Saves, Saved

\* Calls under way are at their own depths.
LEMMA CallsBelow ==
  ASSUME Typed, NEW th \in Threads, \A k \in 0 .. Depth(th) - 1 : Snap(th, k).regs.sp = <<th, k>>
  PROVE  \A r \in Calls(th) : r \in Saves /\ r.sp[2] \in 0 .. Depth(th) - 1
<1> SUFFICES ASSUME NEW k \in 0 .. Depth(th) - 1, NEW r, r = Saved(Snap(th, k).regs)
             PROVE  r \in Saves /\ r.sp[2] \in 0 .. Depth(th) - 1
  BY Zenon DEF Calls
<1>1. Snap(th, k) \in Snaps
  BY InnerTyped, Zenon DEF Typed, Snap, Depth
<1> QED BY <1>1, SavedTyped DEF Snaps

\* The stack pointer of what was interrupted at depth k.
LEMMA StackedSp ==
  ASSUME NEW th, NEW d, Stacked(th, d) PROVE \A k \in 0 .. d - 1 : Snap(th, k).regs.sp = <<th, k>>
BY Zenon DEF Stacked, Level

\* A call of switch_context from the block the thread is on.
LEMMA CallSwitchGood ==
  ASSUME Typed, Programs, NEW th \in Threads, Seat(th), InCode(th), pc \notin InSwitch,
         NEW r \in Regs, r.sp = regs.sp, NEW ret \in Words, NEW old, NEW new, CallSwitch(old, new, ret, r),
         Returns(th, Depth(th), ret, r.s), old = th,
         IF th = RT THEN new = current' /\ current' # RT ELSE new = RT /\ current' = current,
         th = RT => Depth(th) = 0, current' \in Threads,
         UNCHANGED <<priv, csrs, mem, ctx, expect, called, user, fault>>
  PROVE  Good'
<1>1. PICK d \in Nat : d = Depth(th)
  BY DepthNat, Zenon
<1>2. regs.sp = <<th, d>> /\ d <= MaxDepth /\ Stacked(th, d) /\ Open(th, d) /\ Listed(th, {}) /\ priv = "S" /\ sscratch = NoAddr
  <2>1. Innermost(th, regs, pc) = {}
    BY Zenon DEF Innermost, InSwitch, Calling
  <2> QED BY <1>1, <2>1, Zenon DEF InCode
<1>3. /\ regs' = [r EXCEPT !.ra = ret, !.t = <<old, new>>] /\ pc' = "switch_st"
      /\ out' = [out EXCEPT ![th] = <<[ra |-> ret, sp |-> r.sp, s |-> r.s]>> \o @]
  BY <1>2 DEF CallSwitch, Self
<1>4. new \in Threads
  BY Zenon DEF Threads
<1>5. /\ regs' \in Regs /\ regs'.sp = <<th, d>> /\ regs'.s = r.s /\ regs'.ra = ret /\ regs'.t = <<th, new>>
  BY <1>2, <1>3, <1>4, WordFacts, Zenon DEF Regs
<1>6. PICK x \in Saves : x = Saved(regs') /\ x.sp = <<th, d>>
  BY <1>5, SavedTyped, Zenon
<1>7. x = [ra |-> ret, sp |-> r.sp, s |-> r.s]
  BY <1>2, <1>5, <1>6, Zenon DEF Saved
<1>8. out[th] \in Seq(Saves) /\ Descends(out[th], Calls(th))
  BY <1>2, Zenon DEF Typed, Listed
<1>9. \A y \in Calls(th) : y.sp[2] < x.sp[2]
  BY <1>1, <1>2, <1>6, CallsBelow, StackedSp
<1>10. out'[th] = <<x>> \o out[th] /\ out' \in [Threads -> Seq(Saves)] /\ \A u \in Threads \ {th} : out'[u] = out[u]
  BY <1>3, <1>7, <1>8, <1>9, DescendPush, Zenon DEF Typed
<1>11. Descends(out'[th], Calls(th) \cup {x})
  BY <1>8, <1>9, <1>10, DescendPush, Zenon
<1>12. /\ Depth(th)' = d /\ Calls(th)' = Calls(th) /\ \A k \in Nat : Snap(th, k)' = Snap(th, k)
  BY <1>1, Zenon DEF Depth, Calls, Snap
<1>13. Listed(th, {x})'
  BY <1>11, <1>12, Zenon DEF Listed
<1>14. Stacked(th, d)'
  <2>1. d = 0 => Stacked(th, d)'
    BY DEF Stacked
  <2> QED BY <1>1, <1>2, <1>12, <2>1, StackedKept
<1>15. Place(th, d, regs, pc)'
  BY <1>1, <1>3, <1>5, Zenon DEF Place, InSwitch, Calling, Returns
<1>16. Open(th, d)'
  BY <1>2, <1>12 DEF Open
<1>17. InCode(th)'
  <2>1. Stage(th, d, regs, pc)' /\ Innermost(th, regs, pc)' = {x}
    BY <1>3, <1>6, Zenon DEF Stage, Innermost, Calling
  <2> QED BY <1>2, <1>3, <1>5, <1>12, <1>13, <1>14, <1>15, <1>16, <2>1, Zenon DEF InCode, csrs
<1>18. Typed' /\ Programs'
  BY <1>3, <1>5, <1>10, PlaceWords, Zenon DEF Typed, Programs, csrs
<1>19. Others(th)'
  <2>1. \A u \in Threads \ {th} : Untouched(u)
    BY <1>10, Zenon DEF Untouched
  <2> QED BY <2>1, OthersKept, Zenon DEF Seat
<1> QED BY <1>17, <1>18, <1>19, Zenon DEF Good, Seat, Runs

\* switch_yield of a task.
LEMMA TaskYieldGood == ASSUME Good, TaskYield PROVE Good'
<1>1. PICK th \in Threads : Seat(th)
  BY Zenon DEF Good
<1>2. Typed /\ Programs /\ pc = "code" /\ pc \notin InSwitch /\ regs \in Regs /\ "code" \in Words
  BY PlaceWords, Zenon DEF Good, TaskYield, At, InSwitch, Calling, Typed
<1>3. InCode(th) /\ Place(th, Depth(th), regs, pc)
  BY <1>1, <1>2, InCodeAt, Zenon DEF CodePlaces
<1>4. th # RT /\ Depth(th) = 0 /\ current = th
  BY <1>1, <1>2, <1>3, Zenon DEF Place, InSwitch, Calling, Seat
<1>5. Returns(th, Depth(th), "code", regs.s)
  BY <1>4, Zenon DEF Returns
<1>6. CallSwitch(th, RT, "code", regs) /\ current' = current /\ UNCHANGED <<priv, csrs, mem, ctx, expect, called, user, fault>>
  BY <1>4, Zenon DEF TaskYield
<1> QED BY <1>1, <1>2, <1>3, <1>4, <1>5, <1>6, CallSwitchGood, Zenon

\* switch_yield of a handler.
LEMMA YieldSwitchGood == ASSUME Good, YieldSwitch PROVE Good'
<1>1. PICK th \in Threads : Seat(th)
  BY Zenon DEF Good
<1>2. Typed /\ Programs /\ pc = "yield" /\ pc \notin InSwitch /\ regs \in Regs /\ "yielded" \in Words
  BY PlaceWords, Zenon DEF Good, YieldSwitch, At, InSwitch, Calling, Typed
<1>3. InCode(th) /\ Place(th, Depth(th), regs, pc)
  BY <1>1, <1>2, InCodeAt, Zenon DEF CodePlaces
<1>4. th # RT /\ Depth(th) > 0 /\ current = th /\ regs.s = "saved_on"
  BY <1>1, <1>2, <1>3, Zenon DEF Place, InSwitch, Calling, Seat
<1>5. Returns(th, Depth(th), "yielded", regs.s)
  BY <1>4, Zenon DEF Returns
<1>6. CallSwitch(th, RT, "yielded", regs) /\ current' = current /\ UNCHANGED <<priv, csrs, mem, ctx, expect, called, user, fault>>
  BY <1>4, Zenon DEF YieldSwitch
<1> QED BY <1>1, <1>2, <1>3, <1>4, <1>5, <1>6, CallSwitchGood, Zenon

\* The switch of the runtime to an executor.
LEMMA RuntimeSwitchGood == ASSUME Good, NEW e \in Executors, RuntimeSwitch(e) PROVE Good'
<1>1. PICK th \in Threads : Seat(th)
  BY Zenon DEF Good
<1>2. Typed /\ Programs /\ pc = "irun" /\ pc \notin InSwitch /\ "iback" \in Words
  BY PlaceWords, Zenon DEF Good, RuntimeSwitch, At, InSwitch, Calling
<1>3. InCode(th) /\ Place(th, Depth(th), regs, pc)
  BY <1>1, <1>2, InCodeAt, Zenon DEF CodePlaces
<1>4. th = RT /\ Depth(th) = 0 /\ e # RT /\ e \in Threads
  BY <1>2, <1>3, ThreadsAssumption, Zenon DEF Place, InSwitch, Calling, Threads
<1>5. PICK r : r = [regs EXCEPT !.s = e]
  BY Zenon
<1>6. r \in Regs /\ r.sp = regs.sp
  BY <1>2, <1>4, <1>5, WordFacts, Zenon DEF Typed, Regs
<1>7. Returns(th, Depth(th), "iback", r.s)
  BY <1>4, Zenon DEF Returns
<1>8. CallSwitch(th, e, "iback", r) /\ current' = e /\ UNCHANGED <<priv, csrs, mem, ctx, expect, called, user, fault>>
  BY <1>4, <1>5, Zenon DEF RuntimeSwitch
<1> QED BY <1>1, <1>2, <1>3, <1>4, <1>6, <1>7, <1>8, CallSwitchGood, Zenon

\* switch_context stores registers of the caller, whose calls from other
\* depths stay as they are.
LEMMA StoreGood ==
  ASSUME Typed, Programs, NEW th \in Threads, Seat(th), pc \in {"switch_st", "switch_mid"}, pc' \in {"switch_mid", "switch_ld"},
         NEW x \in Saves, ctx' = [ctx EXCEPT ![th] = x],
         UNCHANGED <<regs, priv, csrs, mem, current, ghosts, fault>>,
         pc' = "switch_mid" => x.ra = regs.ra /\ x.sp = regs.sp,
         pc' = "switch_ld" => x = Saved(regs)
  PROVE  Good'
<1>1. InCode(th) /\ Place(th, Depth(th), regs, pc)
  BY InCodeAt, Zenon DEF CodePlaces
<1>2. PICK d \in Nat : d = Depth(th)
  BY DepthNat, Zenon
<1>3. ctx'[th] = x /\ ctx' \in [Threads -> Saves] /\ \A u \in Threads \ {th} : ctx'[u] = ctx[u]
  BY Zenon DEF Typed
<1>4. /\ Depth(th)' = d /\ Calls(th)' = Calls(th) /\ \A k \in Nat : Snap(th, k)' = Snap(th, k)
  BY <1>2, Zenon DEF Depth, Calls, Snap, ghosts
<1>5. Stacked(th, d)'
  BY <1>1, <1>2, <1>4, StackedKept DEF InCode, ghosts
<1>6. Place(th, d, regs, pc)'
  BY <1>1, <1>2, Zenon DEF Place, Calling
<1>7. Open(th, d)'
  BY <1>1, <1>2, <1>4 DEF Open, InCode
<1>8. Innermost(th, regs, pc) = {Saved(regs)} /\ Innermost(th, regs, pc)' = {Saved(regs)}
  BY Zenon DEF Innermost, Calling
<1>9. Listed(th, {Saved(regs)})'
  BY <1>1, <1>4, <1>8, Zenon DEF Listed, InCode, ghosts
<1>10. Stage(th, d, regs, pc)'
  BY <1>3, Zenon DEF Stage
<1>11. InCode(th)'
  BY <1>1, <1>2, <1>4, <1>5, <1>6, <1>7, <1>8, <1>9, <1>10, Zenon DEF InCode, csrs
<1>12. Typed' /\ Programs'
  BY <1>3, PlaceWords, Zenon DEF Typed, Programs, csrs, ghosts
<1>13. Others(th)'
  <2>1. \A u \in Threads \ {th} : Untouched(u)
    BY <1>3, Zenon DEF Untouched, ghosts
  <2> QED BY <2>1, OthersKept, Zenon DEF Seat
<1> QED BY <1>11, <1>12, <1>13, Zenon DEF Good, Seat, Runs

\* ra and sp, and then the callee-saved registers.
LEMMA SwitchStGood == ASSUME Good, SwitchSt \/ SwitchStS PROVE Good'
<1>1. PICK th \in Threads : Seat(th)
  BY Zenon DEF Good
<1>2. Typed /\ Programs /\ pc \in {"switch_st", "switch_mid"}
  BY Zenon DEF Good, SwitchSt, SwitchStS, At
<1>3. InCode(th) /\ Place(th, Depth(th), regs, pc)
  BY <1>1, <1>2, InCodeAt, Zenon DEF CodePlaces
<1>4. regs.t[1] = th
  BY <1>2, <1>3 DEF Place
<1>5. regs \in Regs /\ ctx[th] \in Saves
  BY <1>2, Zenon DEF Typed
<1>6. CASE SwitchSt
  <2>1. PICK x : x = [ctx[th] EXCEPT !.ra = regs.ra, !.sp = regs.sp]
    BY Zenon
  <2>2. x \in Saves /\ x.ra = regs.ra /\ x.sp = regs.sp
    BY <1>5, <2>1, Zenon DEF Regs, Saves
  <2>3. /\ ctx' = [ctx EXCEPT ![th] = x] /\ pc' = "switch_mid"
        /\ UNCHANGED <<regs, priv, csrs, mem, current, ghosts, fault>>
    BY <1>4, <1>6, <2>1, Zenon DEF SwitchSt, Goto
  <2> QED BY <1>1, <1>2, <2>2, <2>3, StoreGood, Zenon
<1>7. CASE SwitchStS
  <2>1. PICK x : x = [ctx[th] EXCEPT !.s = regs.s]
    BY Zenon
  <2>2. ctx[th].ra = regs.ra /\ ctx[th].sp = regs.sp
    BY <1>3, <1>7, Zenon DEF InCode, Stage, SwitchStS, At
  <2>3. x \in Saves /\ x = Saved(regs)
    BY <1>5, <2>1, <2>2 DEF Regs, Saves, Saved
  <2>4. /\ ctx' = [ctx EXCEPT ![th] = x] /\ pc' = "switch_ld"
        /\ UNCHANGED <<regs, priv, csrs, mem, current, ghosts, fault>>
    BY <1>4, <1>7, <2>1, Zenon DEF SwitchStS, Goto
  <2> QED BY <1>1, <1>2, <2>3, <2>4, StoreGood, Zenon
<1> QED BY <1>6, <1>7, Zenon

\* Whom switch_context switches to: a thread that has switched away.
LEMMA SwitchesTo ==
  ASSUME Typed, NEW th \in Threads, Seat(th), pc = "switch_ld"
  PROVE  /\ InCode(th) /\ regs.t[2] \in Threads \ {th} /\ Suspended(regs.t[2])
         /\ regs.t[2] # RT => regs.t[2] = current
<1>1. InCode(th) /\ Place(th, Depth(th), regs, pc)
  BY InCodeAt, Zenon DEF CodePlaces
<1>2. regs.t = <<th, IF th = RT THEN current ELSE RT>> /\ (th = RT => current # RT)
  BY <1>1, Zenon DEF Place
<1>3. regs.t[2] \in Threads \ {th} /\ (regs.t[2] # RT => regs.t[2] = current)
  BY <1>2 DEF Typed, Threads
<1> QED BY <1>1, <1>3, Zenon DEF Seat, Others

\* The last of the calls of a thread is the one from its innermost block.
LEMMA LastCall ==
  ASSUME Typed, NEW th \in Threads, NEW d, d = Depth(th), Stacked(th, d), NEW x \in Saves, x.sp = <<th, d>>, Listed(th, {x})
  PROVE  /\ out[th] # <<>> /\ Head(out[th]) = x
         /\ Tail(out[th]) \in Seq(Saves) /\ Descends(Tail(out[th]), Calls(th))
<1>1. \A r \in Calls(th) : r.sp[2] < x.sp[2]
  <2>1. \A k \in 0 .. Depth(th) - 1 : Snap(th, k).regs.sp = <<th, k>>
    BY StackedSp, Zenon
  <2>2. \A r \in Calls(th) : r.sp[2] \in 0 .. d - 1
    BY <2>1, CallsBelow, Zenon
  <2>3. d \in Nat
    BY DepthNat, Zenon
  <2> QED BY <2>2, <2>3
<1>2. out[th] \in Seq(Saves) /\ Descends(out[th], Calls(th) \cup {x})
  BY Zenon DEF Typed, Listed
<1> QED BY <1>1, <1>2, DescendPop, Zenon

\* The thread that switches away.
LEMMA SwitchedAway ==
  ASSUME Typed, NEW th \in Threads, InCode(th), pc = "switch_ld",
         UNCHANGED <<mem, ctx, current, expect, called>>, out'[th] = out[th]
  PROVE  Suspended(th)'
<1>1. PICK d \in Nat : d = Depth(th)
  BY DepthNat, Zenon
<1>2. /\ regs.sp = <<th, d>> /\ d <= MaxDepth /\ Stacked(th, d) /\ Open(th, d)
      /\ ctx[th] = Saved(regs) /\ Listed(th, {ctx[th]}) /\ Place(th, d, regs, "switch_ld")
  BY <1>1, Zenon DEF InCode, Stage, Innermost, Calling
<1>3. Returns(th, d, regs.ra, regs.s)
  BY <1>2, Zenon DEF Place
<1>4. PICK x \in Saves : x = ctx[th] /\ x.sp = <<th, d>> /\ x.ra = regs.ra /\ x.s = regs.s
  <2>1. ctx[th] \in Saves
    BY Zenon DEF Typed
  <2>2. ctx[th].sp = <<th, d>> /\ ctx[th].ra = regs.ra /\ ctx[th].s = regs.s
    BY <1>2 DEF Saved
  <2> QED BY <2>1, <2>2, Zenon
<1>5. out[th] # <<>> /\ Head(out[th]) = x
  BY <1>1, <1>2, <1>4, LastCall, Zenon
<1>6. /\ Depth(th)' = d /\ Calls(th)' = Calls(th) /\ \A k \in Nat : Snap(th, k)' = Snap(th, k)
  BY <1>1, Zenon DEF Depth, Calls, Snap
<1>7. Stacked(th, d)'
  <2>1. \A k \in 0 .. d - 1 : Snap(th, k)' = Snap(th, k)
    BY <1>6
  <2> QED BY <1>2, <2>1, StackedKept, Zenon
<1>8. Open(th, d)' /\ Listed(th, {ctx[th]})'
  BY <1>2, <1>6 DEF Open, Listed
<1>9. Returns(th, d, ctx[th].ra, ctx[th].s)'
  BY <1>3, <1>4, Zenon DEF Returns
<1> QED BY <1>2, <1>4, <1>5, <1>6, <1>7, <1>8, <1>9, Zenon DEF Suspended

\* The thread that is switched to, on its stack but for its return address.
LEMMA SwitchedIn ==
  ASSUME Typed, NEW v \in Threads, Suspended(v), priv = "S", sscratch = NoAddr,
         UNCHANGED <<priv, sscratch, mem, ctx, current, expect, called, out>>,
         regs'.sp = ctx[v].sp, regs'.s = ctx[v].s, regs'.t[2] = v, pc' = "switch_ra"
  PROVE  InCode(v)'
<1>1. PICK d \in Nat : d = Depth(v)
  BY DepthNat, Zenon
<1>2. /\ d <= MaxDepth /\ Stacked(v, d) /\ Open(v, d) /\ Listed(v, {ctx[v]})
      /\ ctx[v].sp = <<v, d>> /\ Returns(v, d, ctx[v].ra, ctx[v].s)
  BY <1>1, Zenon DEF Suspended
<1>3. /\ Depth(v)' = d /\ Calls(v)' = Calls(v) /\ \A k \in Nat : Snap(v, k)' = Snap(v, k)
  BY <1>1, Zenon DEF Depth, Calls, Snap
<1>4. Stacked(v, d)'
  <2>1. \A k \in 0 .. d - 1 : Snap(v, k)' = Snap(v, k)
    BY <1>3
  <2> QED BY <1>2, <2>1, StackedKept, Zenon
<1>5. Open(v, d)' /\ Listed(v, {ctx[v]})'
  BY <1>2, <1>3 DEF Open, Listed
<1>6. Place(v, d, regs, pc)'
  BY Zenon DEF Place
<1>7. Stage(v, d, regs, pc)'
  BY <1>2, Zenon DEF Stage, Returns
<1>8. Innermost(v, regs, pc)' = {ctx[v]}
  BY Zenon DEF Innermost, Calling
<1>9. {ctx[v]}' = {ctx[v]}
  BY Zenon
<1> QED BY <1>2, <1>3, <1>4, <1>5, <1>6, <1>7, <1>8, <1>9, Zenon DEF InCode

\* switch_context loads the stack pointer of the thread it switches to.
LEMMA SwitchLdGood == ASSUME Good, SwitchLd PROVE Good'
<1>1. PICK th \in Threads : Seat(th)
  BY Zenon DEF Good
<1>2. Typed /\ Programs /\ pc = "switch_ld"
  BY Zenon DEF Good, SwitchLd, At
<1>3. PICK v \in Threads \ {th} : v = regs.t[2] /\ Suspended(v) /\ (v # RT => v = current)
  BY <1>1, <1>2, SwitchesTo, Zenon
<1>4. InCode(th) /\ priv = "S" /\ sscratch = NoAddr
  BY <1>1, <1>2, SwitchesTo, Zenon DEF InCode
<1>5. /\ regs' = [regs EXCEPT !.s = ctx[v].s, !.sp = ctx[v].sp] /\ pc' = "switch_ra"
      /\ UNCHANGED <<priv, fault, on, prev, sie, sepc, scause, sscratch, mem, ctx, current, expect, out, called, user>>
  BY <1>3, Zenon DEF SwitchLd, Goto, csrs, ghosts
<1>6. /\ regs' \in Regs /\ regs'.sp = ctx[v].sp /\ regs'.s = ctx[v].s /\ regs'.t = regs.t
  BY <1>2, <1>5, Zenon DEF Typed, Regs, Saves
<1>7. InCode(v)'
  BY <1>2, <1>3, <1>4, <1>5, <1>6, SwitchedIn, Zenon
<1>8. Suspended(th)'
  BY <1>2, <1>4, <1>5, SwitchedAway, Zenon
<1>9. Typed' /\ Programs'
  BY <1>2, <1>5, <1>6, PlaceWords, Zenon DEF Typed, Programs
<1>10. Others(v)'
  <2>1. \A u \in Threads \ {th} : Suspended(u)
    BY <1>1, Zenon DEF Seat, Others
  <2>2. \A u \in Threads \ {v, th} : Suspended(u)'
    <3>1. \A u \in Threads \ {v} : Untouched(u)
      BY <1>5, Zenon DEF Untouched
    <3> QED BY <1>2, <2>1, <3>1, SuspendedKept, Zenon
  <2> QED BY <1>8, <2>2, Zenon DEF Others
<1> QED BY <1>3, <1>5, <1>7, <1>9, <1>10, Zenon DEF Good, Seat, Runs

\* What the load of ra finds: the thread is the one switched to, and all but
\* ra is as it was at the last of its calls.
LEMMA Landing ==
  ASSUME Typed, NEW th \in Threads, InCode(th), pc = "switch_ra", NEW d, d = Depth(th)
  PROVE  /\ regs.t[2] = th /\ regs.sp = <<th, d>> /\ ctx[th] \in Saves
         /\ ctx[th].sp = regs.sp /\ ctx[th].s = regs.s /\ Returns(th, d, ctx[th].ra, ctx[th].s)
         /\ out[th] # <<>> /\ Head(out[th]) = ctx[th]
         /\ Tail(out[th]) \in Seq(Saves) /\ Descends(Tail(out[th]), Calls(th))
<1>1. /\ regs.sp = <<th, d>> /\ Place(th, d, regs, "switch_ra") /\ Stage(th, d, regs, "switch_ra") /\ Stacked(th, d)
      /\ Listed(th, {ctx[th]})
  BY Zenon DEF InCode, Innermost, Calling
<1>2. regs.t[2] = th
  BY <1>1, Zenon DEF Place, Calling
<1>3. ctx[th].sp = regs.sp /\ ctx[th].s = regs.s /\ Returns(th, d, ctx[th].ra, ctx[th].s)
  BY <1>1, Zenon DEF Stage
<1>4. PICK x \in Saves : x = ctx[th] /\ x.sp = <<th, d>>
  BY <1>1, <1>3, Zenon DEF Typed
<1> QED BY <1>1, <1>2, <1>3, <1>4, LastCall, Zenon

\* ... and its return address.
LEMMA SwitchRaGood == ASSUME Good, SwitchRa PROVE Good'
<1>1. PICK th \in Threads : Seat(th)
  BY Zenon DEF Good
<1>2. Typed /\ Programs /\ pc = "switch_ra"
  BY Zenon DEF Good, SwitchRa, At
<1>3. InCode(th)
  BY <1>1, <1>2, InCodeAt, Zenon DEF CodePlaces
<1>4. PICK d \in Nat : d = Depth(th)
  BY <1>2, DepthNat, Zenon
<1>5. /\ regs.t[2] = th /\ regs.sp = <<th, d>> /\ ctx[th].s = regs.s /\ Returns(th, d, ctx[th].ra, ctx[th].s)
      /\ Tail(out[th]) \in Seq(Saves) /\ Descends(Tail(out[th]), Calls(th)) /\ ctx[th] \in Saves
  BY <1>2, <1>3, <1>4, Landing, Zenon
<1>6. /\ regs' = [regs EXCEPT !.ra = ctx[th].ra, !.t = <<"junk", "junk">>]
      /\ pc' = ctx[th].ra /\ out' = [out EXCEPT ![th] = Tail(@)]
      /\ UNCHANGED <<priv, fault, csrs, mem, ctx, current, expect, called, user>>
  BY <1>5, Zenon DEF SwitchRa, Goto, JunkT, Junk
<1>7. regs' \in Regs /\ regs'.sp = <<th, d>> /\ regs'.s = ctx[th].s /\ pc' \in Words
  BY <1>2, <1>5, <1>6, WordFacts, Zenon DEF Typed, Regs, Saves
<1>8. out'[th] = Tail(out[th]) /\ out' \in [Threads -> Seq(Saves)] /\ \A u \in Threads \ {th} : out'[u] = out[u]
  BY <1>2, <1>5, <1>6, Zenon DEF Typed
<1>9. /\ Depth(th)' = d /\ Calls(th)' = Calls(th) /\ \A k \in Nat : Snap(th, k)' = Snap(th, k)
  BY <1>4, <1>6, Zenon DEF Depth, Calls, Snap
<1>10. Stacked(th, d)' /\ Open(th, d)'
  <2>1. \A k \in 0 .. d - 1 : Snap(th, k)' = Snap(th, k)
    BY <1>9
  <2>2. Stacked(th, d) /\ Open(th, d)
    BY <1>3, <1>4, Zenon DEF InCode
  <2>3. Stacked(th, d)'
    BY <1>6, <2>1, <2>2, StackedKept, Zenon
  <2>4. Open(th, d)'
    BY <1>9, <2>2 DEF Open
  <2> QED BY <2>3, <2>4, Zenon
<1>11. Listed(th, {})'
  BY <1>5, <1>8, <1>9, Zenon DEF Listed
<1>12. Place(th, d, regs, pc)' /\ pc' \notin InSwitch
  BY <1>5, <1>6, <1>7, Zenon DEF Returns, Place, InSwitch
<1>13. Stage(th, d, regs, pc)' /\ Innermost(th, regs, pc)' = {}
  BY <1>12, Zenon DEF Stage, Innermost, InSwitch, Calling
<1>14. InCode(th)'
  <2>1. priv = "S" /\ sscratch = NoAddr /\ d <= MaxDepth
    BY <1>3, <1>4, Zenon DEF InCode
  <2> QED BY <1>6, <1>7, <1>9, <1>10, <1>11, <1>12, <1>13, <2>1, Zenon DEF InCode, csrs
<1>15. Typed' /\ Programs'
  BY <1>2, <1>6, <1>7, <1>8, Zenon DEF Typed, Programs, csrs
<1>16. Others(th)'
  <2>1. \A u \in Threads \ {th} : Untouched(u)
    BY <1>6, <1>8, Zenon DEF Untouched
  <2> QED BY <1>1, <1>2, <2>1, OthersKept, Zenon DEF Seat
<1> QED BY <1>1, <1>6, <1>14, <1>15, <1>16, Zenon DEF Good, Seat, Runs

-----------------------------------------------------------------------------
(* Traps of the kernel. *)

\* Calls under way when the innermost code is interrupted, and resumed.
LEMMA CallsPush ==
  ASSUME Typed, NEW th \in Threads, NEW x \in Snaps, expect'[th] = <<x>> \o expect[th],
         NEW d, d = Depth(th)
  PROVE  /\ Depth(th)' = d + 1 /\ expect'[th] \in Seq(Snaps)
         /\ Snap(th, d)' = x
         /\ \A k \in 0 .. d - 1 : Snap(th, k)' = Snap(th, k)
         /\ Calls(th)' = Calls(th) \cup (IF x.pc \in Calling THEN {Saved(x.regs)} ELSE {})
<1>1. expect[th] \in Seq(Snaps)
  BY Zenon DEF Typed
<1>2. d \in Nat
  BY DepthNat, Zenon
<1>3. /\ Depth(th)' = d + 1 /\ Inner(expect'[th], d) = x /\ expect'[th] \in Seq(Snaps)
      /\ \A k \in 0 .. d - 1 : Inner(expect'[th], k) = Inner(expect[th], k)
  BY <1>1, <1>2, InnerPush DEF Depth
<1>4. \A k : k \in 0 .. d <=> k \in 0 .. d - 1 \/ k = d
  BY <1>2
<1>5. \A y : y \in Calls(th)' <=> y \in Calls(th) \/ (x.pc \in Calling /\ y = Saved(x.regs))
  <2>1. \A y : y \in Calls(th)' <=> \E k \in 0 .. d : Inner(expect'[th], k).pc \in Calling /\ y = Saved(Inner(expect'[th], k).regs)
    <3>1. Depth(th)' - 1 = d
      BY <1>2, <1>3
    <3> QED BY <3>1, Zenon DEF Calls, Snap
  <2>2. \A y : y \in Calls(th) <=> \E k \in 0 .. d - 1 : Inner(expect[th], k).pc \in Calling /\ y = Saved(Inner(expect[th], k).regs)
    BY <1>2, Zenon DEF Calls, Snap
  <2> QED BY <1>3, <1>4, <2>1, <2>2, SMTT(30)
<1>6. Calls(th)' = Calls(th) \cup (IF x.pc \in Calling THEN {Saved(x.regs)} ELSE {})
  BY <1>5, Zenon
<1> QED BY <1>2, <1>3, <1>6, Zenon DEF Snap

\* ... and when the code goes on that was interrupted.
LEMMA CallsPop ==
  ASSUME Typed, NEW th \in Threads, Depth(th) > 0, expect'[th] = Tail(expect[th])
  PROVE  /\ Depth(th)' = Depth(th) - 1 /\ expect'[th] \in Seq(Snaps)
         /\ expect[th] # <<>> /\ Top(th) = Head(expect[th]) /\ Top(th) \in Snaps
         /\ \A k \in 0 .. Depth(th) - 2 : Snap(th, k)' = Snap(th, k)
         /\ Calls(th) = Calls(th)' \cup (IF Top(th).pc \in Calling THEN {Saved(Top(th).regs)} ELSE {})
<1>1. expect[th] \in Seq(Snaps)
  BY Zenon DEF Typed
<1>2. PICK d \in Nat : d = Depth(th) - 1
  BY DepthNat
<1>3. PICK x : x = Top(th)
  BY Zenon
<1>4. /\ Depth(th)' = d /\ Depth(th) = d + 1 /\ expect'[th] \in Seq(Snaps) /\ expect[th] # <<>>
      /\ \A k \in 0 .. d - 1 : Inner(expect'[th], k) = Inner(expect[th], k)
      /\ Inner(expect[th], d) = Head(expect[th])
  BY <1>1, <1>2, InnerPop DEF Depth
<1>5. x = Inner(expect[th], d) /\ x \in Snaps
  BY <1>1, <1>2, <1>3, <1>4, InnerTyped DEF Top, Snap, Depth
<1>6. \A k : k \in 0 .. d <=> k \in 0 .. d - 1 \/ k = d
  OBVIOUS
<1>7. \A y : y \in Calls(th) <=> y \in Calls(th)' \/ (x.pc \in Calling /\ y = Saved(x.regs))
  <2>1. \A y : y \in Calls(th)' <=> \E k \in 0 .. d - 1 : Inner(expect'[th], k).pc \in Calling /\ y = Saved(Inner(expect'[th], k).regs)
    BY <1>4, Zenon DEF Calls, Snap
  <2>2. \A y : y \in Calls(th) <=> \E k \in 0 .. d : Inner(expect[th], k).pc \in Calling /\ y = Saved(Inner(expect[th], k).regs)
    BY <1>4 DEF Calls, Snap
  <2> QED BY <1>4, <1>5, <1>6, <2>1, <2>2
<1>8. Calls(th) = Calls(th)' \cup (IF x.pc \in Calling THEN {Saved(x.regs)} ELSE {})
  BY <1>7, Zenon
<1> QED BY <1>2, <1>3, <1>4, <1>5, <1>8 DEF Snap

\* Code at depth d of th is interrupted.
LEMMA TrappedIn ==
  ASSUME Typed, NEW th \in Threads, NEW x \in Snaps, expect'[th] = <<x>> \o expect[th],
         NEW d, d = Depth(th), d < MaxDepth, x.regs.sp = <<th, d>>, Stage(th, d, x.regs, x.pc),
         Stacked(th, d), Open(th, d), Listed(th, Innermost(th, x.regs, x.pc)),
         UNCHANGED <<mem, ctx, current, out, called>>, priv' = "S", on' = FALSE
  PROVE  Interrupted(th)' /\ Top(th)' = x /\ (Place(th, d, x.regs, x.pc) => TopPlace(th)')
<1>1. d \in Nat
  BY DepthNat, Zenon
<1>2. /\ Depth(th)' = d + 1 /\ Snap(th, d)' = x /\ \A k \in 0 .. d - 1 : Snap(th, k)' = Snap(th, k)
      /\ Calls(th)' = Calls(th) \cup (IF x.pc \in Calling THEN {Saved(x.regs)} ELSE {})
  BY CallsPush, Zenon
<1>3. Top(th)' = x /\ Depth(th)' - 1 = d /\ Depth(th)' \in 1 .. MaxDepth
  BY <1>1, <1>2, DepthAssumption DEF Top
<1>4. Stacked(th, d)'
  BY <1>1, <1>2, StackedKept, Zenon
<1>5. Open(th, d)'
  BY <1>1, <1>2 DEF Open
<1>6. Listed(th, IF x.pc = "switch_ra" THEN {ctx[th]} ELSE {})'
  <2>1. CASE x.pc = "switch_ra"
    <3>1. Innermost(th, x.regs, x.pc) = {ctx[th]} /\ x.pc \notin Calling
      BY <2>1, Zenon DEF Innermost, Calling
    <3>2. Calls(th)' = Calls(th)
      BY <1>2, <3>1, Zenon
    <3> QED BY <2>1, <3>1, <3>2, Zenon DEF Listed
  <2>2. CASE x.pc # "switch_ra"
    <3>1. Calls(th)' = Calls(th) \cup Innermost(th, x.regs, x.pc)
      BY <1>2, <2>2, Zenon DEF Innermost
    <3>2. Descends(out[th], Calls(th)' \cup {})
      BY <3>1, Zenon DEF Listed
    <3> QED BY <2>2, <3>2, Zenon DEF Listed
  <2> QED BY <2>1, <2>2, Zenon
<1>7. Place(th, d, x.regs, x.pc) => Place(th, d, x.regs, x.pc)'
  BY Zenon DEF Place
<1>8. Stage(th, d, x.regs, x.pc)'
  BY Zenon DEF Stage, Returns
<1> QED BY <1>3, <1>4, <1>5, <1>6, <1>7, <1>8, Zenon DEF Interrupted, TopPlace

\* An interrupt or exception of the kernel.
LEMMA KernelTrapGood ==
  ASSUME Good, NEW c \in Words, HardwareTrap(c), priv = "S", regs.sp[2] < MaxDepth,
         c = "break" => pc = "ebreak", on \/ pc = "ebreak"
  PROVE  Good'
<1>1. PICK th \in Threads : Seat(th)
  BY Zenon DEF Good
<1>2. Typed /\ Programs
  BY Zenon DEF Good
<1>3. InCode(th) \/ Entering(th)
  BY <1>1, Phases, Zenon DEF Seat, Runs, Trapped, ProgramTrapped, Handling, Leaving, Starting, InProgram, Returning, Interrupted, Exits
<1>4. PICK d \in Nat : d = Depth(th)
  BY <1>2, DepthNat, Zenon
<1>5. /\ regs.sp = <<th, d>> /\ Stacked(th, d) /\ Open(th, d) /\ Stage(th, d, regs, pc)
      /\ Listed(th, Innermost(th, regs, pc))
      /\ sscratch = NoAddr /\ pc # "run_scratch" => Place(th, d, regs, pc)
  <2>1. CASE InCode(th)
    BY <1>4, <2>1, Zenon DEF InCode
  <2>2. CASE Entering(th)
    <3>1. d = 0 /\ regs.sp = <<th, 0>> /\ Listed(th, {}) /\ (sscratch = NoAddr => pc = "run_scratch")
      BY <1>1, <1>4, <2>2, PointerFacts, DepthAssumption DEF Entering, Called, Depth
    <3>2. pc \notin InSwitch
      BY <2>2, Zenon DEF Entering, InSwitch, Exits
    <3>3. Stage(th, d, regs, pc) /\ Innermost(th, regs, pc) = {}
      BY <3>2, Zenon DEF Stage, Innermost, InSwitch, Calling
    <3>4. Stacked(th, d) /\ Open(th, d)
      BY <3>1 DEF Stacked, Open
    <3> QED BY <3>1, <3>3, <3>4, Zenon
  <2> QED BY <1>3, <2>1, <2>2, Zenon
<1>6. PICK x : x = [regs |-> regs, pc |-> IF c = "break" THEN "code" ELSE pc, on |-> on, sie |-> sie]
  BY Zenon
<1>7. x \in Snaps /\ x.regs = regs /\ x.on = on /\ x.sie = sie /\ (IF c = "break" THEN x.pc = "code" ELSE x.pc = pc)
  BY <1>2, <1>6, PlaceWords, Zenon DEF Typed, Snaps
<1>8. /\ expect' = [expect EXCEPT ![th] = <<x>> \o @] /\ pc' = "trap_entry" /\ priv' = "S"
      /\ prev' = <<on, "S">> /\ on' = FALSE /\ sepc' = pc /\ scause' = c
      /\ UNCHANGED <<user, regs, sie, sscratch, mem, ctx, current, out, called, fault>>
  <2>1. Self = th
    BY <1>5 DEF Self
  <2> QED BY <1>6, <2>1, Zenon DEF HardwareTrap
<1>9. expect'[th] = <<x>> \o expect[th] /\ \A u \in Threads \ {th} : expect'[u] = expect[u]
  BY <1>2, <1>8, Zenon DEF Typed
<1>11. Stage(th, d, x.regs, x.pc) /\ Listed(th, Innermost(th, x.regs, x.pc))
  <2>1. CASE c = "break"
    <3>1. Innermost(th, regs, pc) = {} /\ Innermost(th, x.regs, x.pc) = {} /\ Stage(th, d, x.regs, x.pc)
      BY <1>7, <2>1, Zenon DEF Stage, Innermost, Calling
    <3> QED BY <1>5, <3>1, Zenon
  <2>2. CASE c # "break"
    BY <1>5, <1>7, <2>2, Zenon
  <2> QED BY <2>1, <2>2, Zenon
<1>12. d < MaxDepth /\ x.regs.sp = <<th, d>>
  BY <1>5, <1>7
<1>13. Interrupted(th)' /\ Top(th)' = x /\ (Place(th, d, x.regs, x.pc) => TopPlace(th)')
  BY <1>2, <1>4, <1>5, <1>7, <1>8, <1>9, <1>11, <1>12, TrappedIn, Zenon
<1>14. sscratch = NoAddr /\ pc # "run_scratch" => Place(th, d, x.regs, x.pc)
  <2>1. CASE c = "break"
    <3>1. sscratch = NoAddr => th # RT /\ d = 0
      BY <1>5, <2>1, Zenon DEF Place, InSwitch, Calling
    <3> QED BY <1>7, <2>1, <3>1, Zenon DEF Place
  <2>2. CASE c # "break"
    BY <1>5, <1>7, <2>2, Zenon
  <2> QED BY <2>1, <2>2, Zenon
<1>15. Trapped(th)'
  BY <1>7, <1>8, <1>13, <1>14, Zenon DEF Trapped
<1>16. Typed' /\ Programs'
  <2>1. expect' \in [Threads -> Seq(Snaps)]
    BY <1>2, <1>4, <1>7, <1>8, <1>9, CallsPush, Zenon DEF Typed
  <2>2. prev' \in Status
    BY <1>2, <1>8, Zenon DEF Status, Typed
  <2> QED BY <1>2, <1>8, <2>1, <2>2, PlaceWords, Zenon DEF Typed, Programs
<1>17. Others(th)'
  <2>1. \A u \in Threads \ {th} : Untouched(u)
    BY <1>8, <1>9, Zenon DEF Untouched
  <2> QED BY <1>1, <1>2, <2>1, OthersKept, Zenon DEF Seat
<1> QED BY <1>1, <1>8, <1>15, <1>16, <1>17, Zenon DEF Good, Seat, Runs

\* trap_entry: a trap of the kernel, or of the program.
LEMMA TrapEntryGood == ASSUME Good, TrapEntry, fault' = "none" PROVE Good'
<1>1. PICK th \in Threads : Seat(th)
  BY Zenon DEF Good
<1>2. Typed /\ Programs /\ pc = "trap_entry"
  BY Zenon DEF Good, TrapEntry, At
<1>3. PICK frame : frame = IF sscratch # NoAddr THEN sscratch ELSE Below(regs.sp)
  BY Zenon
<1>4. PICK b : b = Context(regs, mem[frame].zero, prev, scause, sie, sepc)
  BY Zenon
<1>5. /\ mem' = [mem EXCEPT ![frame] = b]
      /\ regs' = [regs EXCEPT !.sp = frame, !.t = <<"junk", "junk">>, !.ra = "exit"]
      /\ sscratch' = NoAddr /\ pc' = (IF prev[2] = "S" THEN "handler" ELSE "from_user")
      /\ UNCHANGED <<priv, on, prev, sie, sepc, scause, ctx, current, ghosts>>
  BY <1>3, <1>4, Zenon DEF TrapEntry, JunkT, Junk
<1>6. prev[2] = "S" => sscratch = NoAddr /\ sepc # "run_scratch"
  BY Zenon DEF TrapEntry
<1>7. ASSUME frame \in Addr
      PROVE  /\ regs' \in Regs /\ regs'.sp = frame /\ b \in Blocks /\ mem' \in [Addr -> Blocks]
             /\ mem'[frame] = b /\ (\A a \in Addr : a # frame => mem'[a] = mem[a]) /\ Typed'
  <2>1. regs' \in Regs /\ regs'.sp = frame
    BY <1>2, <1>5, <1>7, WordFacts, PointerFacts, Zenon DEF Typed, Regs
  <2>2. b \in Blocks
    BY <1>2, <1>4, <1>7, Zenon DEF Typed, Blocks, Context
  <2>3. mem' \in [Addr -> Blocks] /\ mem'[frame] = b /\ (\A a \in Addr : a # frame => mem'[a] = mem[a])
    BY <1>2, <1>5, <1>7, <2>2, Zenon DEF Typed
  <2>4. Typed'
    BY <1>2, <1>5, <2>1, <2>3, PlaceWords, Zenon DEF Typed, ghosts
  <2> QED BY <2>1, <2>2, <2>3, <2>4, Zenon
<1>8. b.regs = regs /\ b.prev = prev /\ b.scause = scause /\ b.sie = sie /\ b.sepc = sepc /\ b.zero = mem[frame].zero
  BY <1>4, Zenon DEF Context
<1>9. ASSUME frame \in Addr, frame[1] = th PROVE Others(th)'
  <2>1. \A u \in Threads \ {th}, d \in 1 .. MaxDepth : <<u, d>> \in Addr /\ <<u, d>> # frame
    <3> SUFFICES ASSUME NEW u \in Threads \ {th}, NEW d \in 1 .. MaxDepth PROVE <<u, d>> \in Addr /\ <<u, d>> # frame
      BY Zenon
    <3>1. <<u, d>>[1] # frame[1]
      BY <1>9, Zenon
    <3>2. d \in 0 .. MaxDepth
      BY DepthAssumption
    <3> QED BY <3>1, <3>2, PointerFacts, Zenon
  <2>2. \A u \in Threads \ {th} : Untouched(u)
    BY <1>5, <1>7, <1>9, <2>1, Zenon DEF Untouched, ghosts
  <2> QED BY <1>1, <1>2, <2>2, OthersKept, Zenon DEF Seat
<1>10. CASE Trapped(th)
  <2>1. PICK d \in Nat : Depth(th) = d + 1
    BY <1>10, DepthAssumption DEF Trapped, Interrupted
  <2>2. PICK x : x = Top(th)
    BY Zenon
  <2>3. /\ Interrupted(th) /\ regs = x.regs /\ prev = <<x.on, "S">> /\ sie = x.sie
        /\ IF scause = "break" THEN x.pc = "code" ELSE sepc = x.pc
        /\ TopPlace(th) /\ sscratch = NoAddr /\ x.regs.sp = <<th, d>> /\ d + 1 \in 1 .. MaxDepth
    <3>1. /\ Interrupted(th) /\ regs = x.regs /\ prev = <<x.on, "S">> /\ sie = x.sie
          /\ IF scause = "break" THEN x.pc = "code" ELSE sepc = x.pc
          /\ sscratch = NoAddr /\ sepc # "run_scratch" => TopPlace(th)
      BY <1>10, <2>2, Zenon DEF Trapped
    <3>2. sscratch = NoAddr /\ sepc # "run_scratch"
      <4>1. prev[2] = "S"
        BY <3>1, Zenon
      <4> QED BY <1>6, <4>1, Zenon
    <3>3. x.regs.sp = <<th, Depth(th) - 1>> /\ Depth(th) \in 1 .. MaxDepth
      BY <2>2, <3>1, Zenon DEF Interrupted
    <3>4. Depth(th) - 1 = d /\ d + 1 \in 1 .. MaxDepth
      BY <2>1, <3>3
    <3> QED BY <3>1, <3>2, <3>3, <3>4, Zenon
  <2>4. frame = <<th, d + 1>> /\ frame \in Addr
    BY <1>3, <2>3, PointerFacts, DepthAssumption DEF Below
  <2>5. /\ Depth(th)' = d + 1 /\ Top(th)' = x /\ Calls(th)' = Calls(th)
        /\ \A k \in Nat : Snap(th, k)' = Snap(th, k)
    BY <1>5, <2>1, <2>2, Zenon DEF Depth, Top, Calls, Snap, ghosts
  <2>6. Stacked(th, d)'
    <3>1. Stacked(th, d)
      BY <2>1, <2>3 DEF Interrupted
    <3>2. \A k \in 1 .. d : mem'[<<th, k>>] = mem[<<th, k>>]
      <4> SUFFICES ASSUME NEW k \in 1 .. d PROVE mem'[<<th, k>>] = mem[<<th, k>>]
        BY Zenon
      <4>1. k \in 0 .. MaxDepth /\ <<th, k>> # frame
        BY <2>3, <2>4, DepthAssumption
      <4> QED BY <1>7, <2>4, <4>1, PointerFacts, Zenon
    <3> QED BY <1>5, <2>5, <3>1, <3>2, StackedKept DEF ghosts
  <2>7. Open(th, d)' /\ Stage(th, d, x.regs, x.pc)' /\ TopPlace(th)'
    <3>1. Open(th, d) /\ Stage(th, d, x.regs, x.pc) /\ Place(th, d, x.regs, x.pc)
      BY <2>1, <2>2, <2>3 DEF Interrupted, TopPlace
    <3>2. Open(th, d)'
      BY <2>5, <3>1 DEF Open
    <3>3. Place(th, d, x.regs, x.pc)' /\ Stage(th, d, x.regs, x.pc)'
      BY <1>5, <3>1, Zenon DEF Place, Stage, Returns, ghosts
    <3> QED BY <2>1, <2>5, <3>2, <3>3 DEF TopPlace
  <2>11. Listed(th, IF x.pc = "switch_ra" THEN {ctx[th]} ELSE {})'
    BY <1>5, <2>2, <2>3, <2>5, Zenon DEF Interrupted, Listed, ghosts
  <2>8. Interrupted(th)'
    BY <1>5, <2>1, <2>2, <2>3, <2>5, <2>6, <2>7, <2>11 DEF Interrupted
  <2>9. Handling(th)'
    BY <1>5, <1>7, <1>8, <2>1, <2>3, <2>4, <2>5, <2>7, <2>8 DEF Handling, Exits
  <2>10. Programs'
    <3>1. \A e \in Executors : <<e, 0>> \in Addr /\ <<e, 0>> # frame
      BY <2>4, PointerFacts, DepthAssumption DEF Threads
    <3> QED BY <1>2, <1>7, <2>4, <3>1, Zenon DEF Programs
  <2> QED BY <1>1, <1>5, <1>7, <1>9, <2>4, <2>9, <2>10, Zenon DEF Good, Seat, Runs
<1>11. CASE ProgramTrapped(th)
  <2>1. /\ Called(th) /\ priv = "S" /\ on = FALSE /\ regs = user[th] /\ regs.sp = <<"user", 0>>
        /\ prev[2] = "U" /\ sepc = "user" /\ sscratch = <<th, 0>>
    BY <1>11, Zenon DEF ProgramTrapped
  <2>2. /\ <<th, 0>> \in Addr /\ <<th, 1>> \in Addr /\ <<th, 0>> # NoAddr /\ <<th, 1>> # <<th, 0>>
    BY PointerFacts, DepthAssumption
  <2>3. frame = <<th, 0>>
    BY <1>3, <2>1, <2>2, Zenon
  <2>4. mem'[<<th, 0>>] = b /\ mem'[<<th, 1>>] = mem[<<th, 1>>]
    BY <1>7, <2>2, <2>3, Zenon
  <2>5. Called(th)'
    <3>1. Calls(th)' = Calls(th)
      BY <1>5, Zenon DEF Calls, Snap, Depth, ghosts
    <3>2. b.zero = <<th, 1>>
      BY <1>8, <2>1, <2>3, Zenon DEF Called
    <3> QED BY <1>5, <2>1, <2>4, <3>1, <3>2, Zenon DEF Called, Listed, ghosts
  <2>6. Returning(th)'
    BY <1>5, <1>7, <1>8, <2>1, <2>2, <2>3, <2>4, <2>5, Zenon DEF Returning, ghosts
  <2>7. Programs'
    <3>1. \A e \in Executors : <<e, 0>> \in Addr
      BY PointerFacts, DepthAssumption DEF Threads
    <3> QED BY <1>2, <1>7, <1>8, <2>1, <2>2, <2>3, <3>1, Zenon DEF Programs
  <2> QED BY <1>1, <1>5, <1>7, <1>9, <2>2, <2>3, <2>6, <2>7, Zenon DEF Good, Seat, Runs
<1> QED BY <1>1, <1>2, <1>10, <1>11, Phases, Zenon DEF Seat

\* A trap of the program.
LEMMA ProgramTrapGood ==
  ASSUME Good, NEW c \in Words, HardwareTrap(c), priv = "U"
  PROVE  Good'
<1>1. PICK th \in Threads : Seat(th)
  BY Zenon DEF Good
<1>2. Typed /\ Programs
  BY Zenon DEF Good
<1>3. InProgram(th)
  BY <1>1, Zenon DEF Seat, Runs, InCode, Trapped, ProgramTrapped, Handling, Leaving, Starting, Entering, Returning, Interrupted
<1>4. th \in Executors /\ sscratch[1] = th /\ pc = "user" /\ regs.sp = <<"user", 0>>
  BY <1>3, Zenon DEF InProgram, Called, Threads
<1>5. /\ pc' = "trap_entry" /\ priv' = "S" /\ prev' = <<on, "U">> /\ on' = FALSE /\ sepc' = "user" /\ scause' = c
      /\ user' = [user EXCEPT ![th] = regs]
      /\ UNCHANGED <<expect, regs, sie, sscratch, mem, ctx, current, out, called, fault>>
  BY <1>4, Zenon DEF HardwareTrap
<1>6. user'[th] = regs /\ user' \in [Executors -> Regs] /\ prev' \in Status
  BY <1>2, <1>4, <1>5, Zenon DEF Typed, Status
<1>7. Called(th)'
  <2>1. Calls(th)' = Calls(th)
    BY <1>5, Zenon DEF Calls, Snap, Depth
  <2> QED BY <1>3, <1>5, <2>1, Zenon DEF InProgram, Called, Listed
<1>8. ProgramTrapped(th)'
  BY <1>3, <1>4, <1>5, <1>6, <1>7, Zenon DEF InProgram, ProgramTrapped
<1>9. Typed' /\ Programs'
  BY <1>2, <1>5, <1>6, PlaceWords, Zenon DEF Typed, Programs
<1>10. Others(th)'
  <2>1. \A u \in Threads \ {th} : Untouched(u)
    BY <1>5, Zenon DEF Untouched
  <2> QED BY <1>1, <1>2, <2>1, OthersKept, Zenon DEF Seat
<1> QED BY <1>1, <1>5, <1>8, <1>9, <1>10, Zenon DEF Good, Seat, Runs

\* An interrupt, in the kernel or in the program.
LEMMA InterruptGood == ASSUME Good, NEW c \in {"timer", "other"}, Interrupt(c) PROVE Good'
<1>1. c \in Words /\ c # "break" /\ priv \in {"S", "U"}
  BY CauseWords, Zenon DEF Good, Seat, Runs, InCode, Trapped, ProgramTrapped, Handling, Leaving, Starting, Entering, Returning, InProgram, Interrupted
<1> QED BY <1>1, KernelTrapGood, ProgramTrapGood, Zenon DEF Interrupt

\* A breakpoint of the kernel, a system call or fault of the program.
LEMMA ExceptionGood == ASSUME Good, Exception PROVE Good'
<1>1. PICK th \in Threads : Seat(th)
  BY Zenon DEF Good
<1>2. CASE pc = "ebreak"
  <2>1. priv = "S"
    BY <1>1, <1>2, InCodeAt, Zenon DEF CodePlaces, InCode
  <2> QED BY <1>2, <2>1, CauseWords, KernelTrapGood, Zenon DEF Exception, At
<1>3. CASE pc = "user"
  <2>1. priv = "U"
    BY <1>1, <1>3, Phases, Zenon DEF Seat, InProgram
  <2> QED BY <1>3, <2>1, CauseWords, ProgramTrapGood, Zenon DEF Exception, At
<1> QED BY <1>2, <1>3, Zenon DEF Exception, At

==============================================================================
