----------------------------- MODULE TrapProofs -----------------------------
(***************************************************************************)
(* Traps, context switches and run_user are transparent, for any number of *)
(* executors and any depth of nested traps: the rest of the proof that     *)
(* Trap keeps the invariant of SwitchProofs, and what follows from it.     *)
(***************************************************************************)
EXTENDS SwitchProofs

-----------------------------------------------------------------------------
(* The handler and trap_exit. *)

\* A step of the handler or of trap_exit that stays on the frame, which may
\* rewrite sepc there.
LEMMA InterruptedKept ==
  ASSUME Typed, NEW th \in Threads, Interrupted(th), UNCHANGED <<priv, ctx, current, expect, out, called>>, on' = FALSE,
         \A k \in 1 .. Depth(th) - 1 : mem'[<<th, k>>] = mem[<<th, k>>]
  PROVE  Interrupted(th)' /\ Top(th)' = Top(th) /\ Depth(th)' = Depth(th) /\ (TopPlace(th) => TopPlace(th)')
<1>1. PICK d \in Nat : Depth(th) = d + 1
  BY DepthAssumption, SMTT(30) DEF Interrupted
<1>2. PICK x : x = Top(th)
  BY Zenon
<1>3. /\ Depth(th)' = d + 1 /\ Top(th)' = x /\ Calls(th)' = Calls(th)
      /\ \A k \in Nat : Snap(th, k)' = Snap(th, k)
  BY <1>1, <1>2, Zenon DEF Depth, Top, Calls, Snap
<1>4. Stacked(th, d)'
  BY <1>1, <1>3, StackedKept DEF Interrupted
<1>5. Open(th, d)' /\ Stage(th, d, x.regs, x.pc)' /\ Listed(th, IF x.pc = "switch_ra" THEN {ctx[th]} ELSE {})'
  <2>1. Open(th, d) /\ Stage(th, d, x.regs, x.pc) /\ Listed(th, IF x.pc = "switch_ra" THEN {ctx[th]} ELSE {})
    BY <1>1, <1>2 DEF Interrupted
  <2>2. Open(th, d)'
    BY <1>3, <2>1 DEF Open
  <2>3. Stage(th, d, x.regs, x.pc)'
    BY <2>1, Zenon DEF Stage, Returns
  <2>4. Listed(th, IF x.pc = "switch_ra" THEN {ctx[th]} ELSE {})'
    BY <1>3, <2>1, Zenon DEF Listed
  <2> QED BY <2>2, <2>3, <2>4, Zenon
<1>6. Place(th, d, x.regs, x.pc) => Place(th, d, x.regs, x.pc)'
  BY Zenon DEF Place
<1>7. TopPlace(th) => TopPlace(th)'
  BY <1>1, <1>2, <1>3, <1>6, SMTT(30) DEF TopPlace
<1> QED BY <1>1, <1>2, <1>3, <1>4, <1>5, <1>7, SMTT(30) DEF Interrupted

\* The others, the programs and the types when the running thread only writes
\* one of its own blocks.
LEMMA OwnBlock ==
  ASSUME Typed, Programs, NEW th \in Threads, Others(th), NEW d \in 0 .. MaxDepth, NEW b \in Blocks,
         mem' = [mem EXCEPT ![<<th, d>>] = b],
         d = 0 /\ th # RT => b.prev[2] = "U" /\ b.sepc = "user" /\ b.regs.sp = <<"user", 0>>,
         UNCHANGED <<ctx, expect, out>>, \A e \in Executors : e # th => called'[e] = called[e]
  PROVE  /\ Others(th)' /\ Programs' /\ mem' \in [Addr -> Blocks] /\ mem'[<<th, d>>] = b
         /\ \A k \in 0 .. MaxDepth : k # d => mem'[<<th, k>>] = mem[<<th, k>>]
<1>1. /\ mem' \in [Addr -> Blocks] /\ mem'[<<th, d>>] = b
      /\ \A a \in Addr : a # <<th, d>> => mem'[a] = mem[a]
  BY PointerFacts, Zenon DEF Typed
<1>2. \A u \in Threads, k \in 0 .. MaxDepth : <<u, k>> \in Addr
  BY PointerFacts, Zenon
<1>3. \A u \in Threads \ {th} : Untouched(u)
  <2> SUFFICES ASSUME NEW u \in Threads \ {th} PROVE Untouched(u)
    BY Zenon
  <2>1. \A k \in 1 .. MaxDepth : mem'[<<u, k>>] = mem[<<u, k>>]
    BY <1>1, <1>2, DepthAssumption
  <2> QED BY <2>1, Zenon DEF Untouched, Threads
<1>4. Programs'
  <2> SUFFICES ASSUME NEW e \in Executors
               PROVE  mem'[<<e, 0>>].prev[2] = "U" /\ mem'[<<e, 0>>].sepc = "user" /\ mem'[<<e, 0>>].regs.sp = <<"user", 0>>
    BY Zenon DEF Programs
  <2>1. e \in Threads /\ e # RT /\ <<e, 0>> \in Addr
    BY <1>2, ThreadsAssumption, DepthAssumption DEF Threads
  <2>2. CASE e = th /\ d = 0
    BY <1>1, <2>1, <2>2, Zenon
  <2>3. CASE ~ (e = th /\ d = 0)
    BY <1>1, <2>1, <2>3, Zenon DEF Programs
  <2> QED BY <2>2, <2>3, Zenon
<1> QED BY <1>1, <1>2, <1>3, <1>4, OthersKept, Zenon

\* The handler comes to its end.
LEMMA HandlerReturnGood == ASSUME Good, HandlerReturn PROVE Good'
<1>1. PICK th \in Threads : Seat(th)
  BY Zenon DEF Good
<1>2. Typed /\ Programs /\ pc = "handler"
  BY Zenon DEF Good, HandlerReturn, At
<1>3. Handling(th)
  BY <1>1, <1>2, Phases, Zenon DEF Seat
<1>4. PICK d \in 1 .. MaxDepth : d = Depth(th) /\ regs.sp = <<th, d>>
  BY <1>3, Zenon DEF Handling, Interrupted
<1>5. PICK x : x = Top(th)
  BY Zenon
<1>6. PICK f \in Blocks : f = mem[<<th, d>>]
  BY <1>2, PointerFacts, DepthAssumption DEF Typed
<1>7. /\ Interrupted(th) /\ TopPlace(th) /\ sscratch = NoAddr
      /\ f.regs = x.regs /\ f.prev = <<x.on, "S">> /\ f.sie = x.sie
      /\ f.scause = "break" => x.pc = "code"
      /\ f.scause # "break" => f.sepc = x.pc
  BY <1>2, <1>3, <1>4, <1>5, <1>6, Zenon DEF Handling, Exits
<1>8. PICK b : b = [f EXCEPT !.sepc = IF f.scause = "break" THEN "code" ELSE f.sepc]
  BY Zenon
<1>9. /\ b \in Blocks /\ b.regs = x.regs /\ b.prev = <<x.on, "S">> /\ b.sie = x.sie /\ b.sepc = x.pc
      /\ b.scause = "break" => x.pc = "code"
  BY <1>7, <1>8, PlaceWords, Zenon DEF Blocks
<1>10. /\ mem' = [mem EXCEPT ![<<th, d>>] = b]
       /\ regs' = [regs EXCEPT !.t = <<"junk", "junk">>] /\ pc' = "exit_sepc"
       /\ UNCHANGED <<priv, fault, csrs, ctx, current, ghosts>>
  BY <1>4, <1>6, <1>8, Zenon DEF HandlerReturn, Goto, Frame, JunkT, Junk
<1>11. regs' \in Regs /\ regs'.sp = <<th, d>>
  BY <1>2, <1>4, <1>10, WordFacts, Zenon DEF Typed, Regs
<1>12. d \in 0 .. MaxDepth /\ d # 0 /\ d \in Nat
  BY DepthAssumption
<1>13. /\ Others(th)' /\ Programs' /\ mem' \in [Addr -> Blocks] /\ mem'[<<th, d>>] = b
       /\ \A k \in 0 .. MaxDepth : k # d => mem'[<<th, k>>] = mem[<<th, k>>]
  BY <1>1, <1>2, <1>9, <1>10, <1>12, OwnBlock, Zenon DEF Seat, ghosts
<1>14. Interrupted(th)' /\ Top(th)' = x /\ Depth(th)' = d /\ TopPlace(th)'
  <2>1. \A k \in 1 .. Depth(th) - 1 : mem'[<<th, k>>] = mem[<<th, k>>]
    <3>1. \A k \in 1 .. Depth(th) - 1 : k \in 0 .. MaxDepth /\ k # d
      BY <1>4, <1>12, DepthAssumption
    <3> QED BY <1>13, <3>1, Zenon
  <2>2. on' = FALSE /\ UNCHANGED <<priv, ctx, current, expect, out, called>>
    BY <1>7, <1>10, Zenon DEF Interrupted, csrs, ghosts
  <2> QED BY <1>2, <1>4, <1>5, <1>7, <2>1, <2>2, InterruptedKept, Zenon
<1>15. Handling(th)'
  BY <1>7, <1>9, <1>10, <1>11, <1>13, <1>14, Zenon DEF Handling, Exits, csrs
<1>16. Typed'
  BY <1>2, <1>10, <1>11, <1>13, PlaceWords, Zenon DEF Typed, csrs, ghosts
<1> QED BY <1>1, <1>10, <1>13, <1>15, <1>16, Zenon DEF Good, Seat, Runs

\* The frame on top of a stack, once the handler is in code that others may
\* interrupt, and before.
LEMMA StackedTop ==
  ASSUME NEW th, NEW d \in Nat, d > 0
  PROVE  Stacked(th, d) <=> Stacked(th, d - 1) /\ Framed(th, d - 1) /\ Level(th, d - 1)
<1>1. \A k : k \in 0 .. d - 1 <=> k \in 0 .. (d - 1) - 1 \/ k = d - 1
  OBVIOUS
<1> QED BY <1>1, Zenon DEF Stacked

\* The slot-end callback yields, not above a switch that has stored.
LEMMA HandlerYieldGood == ASSUME Good, HandlerYield, fault' = "none" PROVE Good'
<1>1. PICK th \in Threads : Seat(th)
  BY Zenon DEF Good
<1>2. Typed /\ Programs /\ pc = "handler"
  BY Zenon DEF Good, HandlerYield, At
<1>3. Handling(th)
  BY <1>1, <1>2, Phases, Zenon DEF Seat
<1>4. PICK d \in 1 .. MaxDepth : d = Depth(th) /\ regs.sp = <<th, d>>
  BY <1>3, Zenon DEF Handling, Interrupted
<1>5. d \in Nat /\ d > 0 /\ d <= MaxDepth
  BY DepthAssumption
<1>6. PICK x : x = Snap(th, d - 1)
  BY Zenon
<1>7. PICK f : f = mem[<<th, d>>]
  BY Zenon
<1>8. /\ th # RT /\ f.scause = "timer" /\ f.sepc \notin UnderWay /\ pc' = "yield" /\ on' = TRUE
      /\ regs' = [regs EXCEPT !.s = "saved_on"]
      /\ UNCHANGED <<priv, fault, prev, sie, sepc, scause, sscratch, mem, ctx, current, ghosts>>
  BY <1>4, <1>7 DEF HandlerYield, SwitchUnderWay, UnderWay, Frame, Self, Goto
<1>9. /\ Interrupted(th) /\ TopPlace(th) /\ sscratch = NoAddr /\ Top(th) = x
      /\ f.regs = x.regs /\ f.prev = <<x.on, "S">> /\ f.sie = x.sie /\ f.sepc = x.pc
  BY <1>2, <1>3, <1>4, <1>6, <1>7, <1>8, Zenon DEF Handling, Top, Exits
<1>10. regs' \in Regs /\ regs'.sp = <<th, d>> /\ regs'.s = "saved_on"
  BY <1>2, <1>4, <1>8, WordFacts, Zenon DEF Typed, Regs
<1>11. Stacked(th, d) /\ Open(th, d) /\ Listed(th, {}) /\ priv = "S"
  <2>1. Framed(th, d - 1)
    BY <1>5, <1>6, <1>7, <1>8, <1>9 DEF Framed
  <2>2. Level(th, d - 1) /\ Stacked(th, d - 1)
    BY <1>4, <1>6, <1>9, Zenon DEF Level, Interrupted, TopPlace
  <2>3. Open(th, d)
    BY <1>6, <1>8, <1>9, Zenon DEF Open
  <2>4. Listed(th, {}) /\ priv = "S"
    BY <1>8, <1>9, Zenon DEF Interrupted, UnderWay
  <2> QED BY <1>5, <2>1, <2>2, <2>3, <2>4, StackedTop, Zenon
<1>12. /\ Depth(th)' = d /\ Calls(th)' = Calls(th) /\ \A k \in Nat : Snap(th, k)' = Snap(th, k)
  BY <1>4, <1>8, Zenon DEF Depth, Calls, Snap, ghosts
<1>13. Stacked(th, d)'
  BY <1>5, <1>8, <1>11, <1>12, StackedKept DEF ghosts
<1>14. Open(th, d)' /\ Listed(th, {})'
  BY <1>5, <1>8, <1>11, <1>12 DEF Open, Listed, ghosts
<1>15. Place(th, d, regs, pc)'
  BY <1>5, <1>8, <1>10, Zenon DEF Place
<1>16. InCode(th)'
  <2>1. Stage(th, d, regs, pc)' /\ Innermost(th, regs, pc)' = {}
    BY <1>8, Zenon DEF Stage, Innermost, Calling
  <2> QED BY <1>5, <1>8, <1>9, <1>10, <1>11, <1>12, <1>13, <1>14, <1>15, <2>1, Zenon DEF InCode
<1>17. Typed' /\ Programs'
  BY <1>2, <1>8, <1>10, PlaceWords, Zenon DEF Typed, Programs, ghosts
<1>18. Others(th)'
  <2>1. \A u \in Threads \ {th} : Untouched(u)
    BY <1>8, Zenon DEF Untouched, ghosts
  <2> QED BY <1>1, <1>2, <2>1, OthersKept, Zenon DEF Seat
<1> QED BY <1>1, <1>8, <1>16, <1>17, <1>18, Zenon DEF Good, Seat, Runs

\* ... and goes on when the executor is switched to again.
LEMMA HandlerResumeGood == ASSUME Good, HandlerResume PROVE Good'
<1>1. PICK th \in Threads : Seat(th)
  BY Zenon DEF Good
<1>2. Typed /\ Programs /\ pc = "yielded"
  BY Zenon DEF Good, HandlerResume, At
<1>3. InCode(th) /\ Place(th, Depth(th), regs, pc)
  BY <1>1, <1>2, InCodeAt, Zenon DEF CodePlaces
<1>4. PICK d \in Nat : d = Depth(th)
  BY <1>2, DepthNat, Zenon
<1>5. d > 0 /\ regs.s = "saved_on" /\ th # RT
  BY <1>2, <1>3, <1>4, Zenon DEF Place, InSwitch, Calling
<1>6. PICK x : x = Snap(th, d - 1)
  BY Zenon
<1>7. PICK f : f = mem[<<th, d>>]
  BY Zenon
<1>8. /\ pc' = "handler" /\ on' = FALSE /\ regs' = [regs EXCEPT !.s = "junk"]
      /\ UNCHANGED <<priv, fault, prev, sie, sepc, scause, sscratch, mem, ctx, current, ghosts>>
  BY <1>5, Zenon DEF HandlerResume, Goto, Junk
<1>9. /\ priv = "S" /\ sscratch = NoAddr /\ d <= MaxDepth /\ regs.sp = <<th, d>> /\ Stacked(th, d) /\ Open(th, d)
      /\ Listed(th, {})
  <2>1. Innermost(th, regs, pc) = {}
    BY <1>2, Zenon DEF Innermost, Calling
  <2> QED BY <1>3, <1>4, <2>1, Zenon DEF InCode
<1>10. Stacked(th, d - 1) /\ Framed(th, d - 1) /\ Level(th, d - 1) /\ x.pc \notin UnderWay
  BY <1>5, <1>6, <1>9, StackedTop, Zenon DEF Open
<1>11. /\ f.regs = x.regs /\ f.prev = <<x.on, "S">> /\ f.sie = x.sie /\ f.sepc = x.pc
       /\ f.scause = "break" => x.pc = "code"
  BY <1>5, <1>6, <1>7, <1>10 DEF Framed
<1>12. regs' \in Regs /\ regs'.sp = <<th, d>>
  BY <1>2, <1>8, <1>9, WordFacts, Zenon DEF Typed, Regs
<1>13. /\ Depth(th)' = d /\ Calls(th)' = Calls(th) /\ (\A k \in Nat : Snap(th, k)' = Snap(th, k)) /\ Top(th)' = x
  BY <1>4, <1>6, <1>8, Zenon DEF Depth, Calls, Snap, Top, ghosts
<1>14. Stacked(th, d - 1)'
  BY <1>5, <1>8, <1>10, <1>13, StackedKept DEF ghosts
<1>15. Open(th, d - 1)' /\ Listed(th, {})'
  BY <1>5, <1>8, <1>9, <1>10, <1>13 DEF Open, Listed, Level, ghosts
<1>16. Place(th, d - 1, x.regs, x.pc)' /\ x.regs.sp = <<th, d - 1>>
  BY <1>6, <1>8, <1>10, Zenon DEF Place, Level, ghosts
<1>17. Interrupted(th)' /\ TopPlace(th)'
  <2>1. x.pc # "switch_ra" /\ Stage(th, d - 1, x.regs, x.pc)'
    BY <1>10, Zenon DEF Stage, UnderWay
  <2> QED BY <1>5, <1>8, <1>9, <1>10, <1>13, <1>14, <1>15, <1>16, <2>1, DepthAssumption DEF Interrupted, TopPlace
<1>18. Handling(th)'
  BY <1>7, <1>8, <1>9, <1>11, <1>12, <1>13, <1>17, Zenon DEF Handling, Exits
<1>19. Typed' /\ Programs'
  BY <1>2, <1>8, <1>12, PlaceWords, Zenon DEF Typed, Programs, ghosts
<1>20. Others(th)'
  <2>1. \A u \in Threads \ {th} : Untouched(u)
    BY <1>8, Zenon DEF Untouched, ghosts
  <2> QED BY <1>1, <1>2, <2>1, OthersKept, Zenon DEF Seat
<1> QED BY <1>1, <1>8, <1>18, <1>19, <1>20, Zenon DEF Good, Seat, Runs

\* trap_exit before the registers: of a trap of the kernel, or of run_user.
LEMMA ExitStepGood == ASSUME Good, ExitSepc \/ ExitSie \/ ExitStatus PROVE Good'
<1>1. PICK th \in Threads : Seat(th)
  BY Zenon DEF Good
<1>2. Typed /\ Programs /\ pc \in {"exit_sepc", "exit_sie", "exit_status"}
  BY Zenon DEF Good, ExitSepc, ExitSie, ExitStatus, At
<1>3. Handling(th) \/ Entering(th)
  BY <1>1, <1>2, Phases, Zenon DEF Seat, Exits
<1>4. PICK f : f = mem[regs.sp]
  BY Zenon
<1>5. /\ \/ /\ pc = "exit_sepc" /\ pc' = "exit_sie" /\ sepc' = f.sepc
            /\ regs' = [regs EXCEPT !.t = <<"junk", "junk">>] /\ UNCHANGED <<on, prev, sie, scause>>
         \/ /\ pc = "exit_sie" /\ pc' = "exit_status" /\ sie' = f.sie /\ scause' = f.scause
            /\ UNCHANGED <<regs, on, prev, sepc>>
         \/ /\ pc = "exit_status" /\ pc' = "exit_regs" /\ prev' = f.prev /\ on' = FALSE
            /\ UNCHANGED <<regs, sie, sepc, scause>>
      /\ UNCHANGED <<priv, fault, sscratch, mem, ctx, current, ghosts>>
  BY <1>4, Zenon DEF ExitSepc, ExitSie, ExitStatus, At, Goto, Frame, JunkT, Junk
<1>6. regs' \in Regs /\ regs'.sp = regs.sp
  <2>1. regs \in Regs /\ "junk" \in Words
    BY <1>2, WordFacts, Zenon DEF Typed
  <2>2. regs' = regs \/ regs' = [regs EXCEPT !.t = <<"junk", "junk">>]
    BY <1>5, Zenon
  <2> QED BY <2>1, <2>2 DEF Regs
<1>7. f \in Blocks /\ (\E d \in 0 .. MaxDepth : regs.sp = <<th, d>>)
  <2>1. \E d \in 0 .. MaxDepth : regs.sp = <<th, d>>
    BY <1>3, DepthAssumption, SMTT(30) DEF Handling, Entering, Interrupted
  <2> QED BY <1>2, <1>4, <2>1, PointerFacts, Zenon DEF Typed
<1>8. Typed' /\ Programs'
  <2>1. f.sepc \in Words /\ f.sie \in BOOLEAN /\ f.scause \in Words /\ f.prev \in Status
    BY <1>7, Zenon DEF Blocks
  <2>2. sepc' \in Words /\ sie' \in BOOLEAN /\ scause' \in Words /\ prev' \in Status /\ on' \in BOOLEAN /\ pc' \in Words
    BY <1>2, <1>5, <2>1, PlaceWords, Zenon DEF Typed
  <2> QED BY <1>2, <1>5, <1>6, <2>2, Zenon DEF Typed, Programs, ghosts
<1>9. Others(th)'
  <2>1. \A u \in Threads \ {th} : Untouched(u)
    BY <1>5, Zenon DEF Untouched, ghosts
  <2> QED BY <1>1, <1>2, <2>1, OthersKept, Zenon DEF Seat
<1>10. CASE Handling(th)
  <2>1. PICK d : d = Depth(th) /\ regs.sp = <<th, d>> /\ f = mem[<<th, d>>]
    BY <1>4, <1>10, Zenon DEF Handling
  <2>2. PICK x : x = Top(th)
    BY Zenon
  <2>3. /\ Interrupted(th) /\ TopPlace(th) /\ sscratch = NoAddr
        /\ f.regs = x.regs /\ f.prev = <<x.on, "S">> /\ f.sie = x.sie /\ f.sepc = x.pc
        /\ f.scause = "break" => x.pc = "code"
        /\ pc \in {"exit_sie", "exit_status", "exit_regs"} => sepc = x.pc
        /\ pc \in {"exit_status", "exit_regs"} => sie = x.sie
    BY <1>2, <1>10, <2>1, <2>2, Zenon DEF Handling, Exits
  <2>4. on' = FALSE
    BY <1>5, <2>3, Zenon DEF Interrupted
  <2>5. Interrupted(th)' /\ Top(th)' = x /\ Depth(th)' = d /\ TopPlace(th)'
    BY <1>2, <1>5, <2>1, <2>2, <2>3, <2>4, InterruptedKept, Zenon DEF ghosts
  <2>6. /\ pc' \in Exits /\ pc' # "handler"
        /\ pc' \in {"exit_sie", "exit_status", "exit_regs"} => sepc' = x.pc
        /\ pc' \in {"exit_status", "exit_regs"} => sie' = x.sie
        /\ pc' = "exit_regs" => prev' = <<x.on, "S">>
    BY <1>5, <2>3, Zenon DEF Exits
  <2>7. regs'.sp = <<th, d>> /\ mem'[<<th, d>>] = f /\ sscratch' = NoAddr
    BY <1>5, <1>6, <2>1, <2>3, Zenon
  <2>8. Handling(th)'
    BY <2>3, <2>5, <2>6, <2>7, Zenon DEF Handling
  <2> QED BY <1>1, <1>5, <1>8, <1>9, <2>8, Zenon DEF Good, Seat, Runs
<1>11. CASE Entering(th)
  <2>1. /\ Called(th) /\ priv = "S" /\ regs.sp = <<th, 0>> /\ f = mem[<<th, 0>>] /\ f.regs = user[th]
        /\ sscratch = <<th, 0>> /\ (pc \in {"exit_sie", "exit_status", "exit_regs"} => sepc = "user")
    BY <1>2, <1>4, <1>11, Zenon DEF Entering, Exits
  <2>2. f.sepc = "user" /\ f.prev[2] = "U"
    BY <1>2, <2>1, Zenon DEF Programs, Called, Threads
  <2>3. Called(th)'
    <3>1. Calls(th)' = Calls(th)
      BY <1>5, Zenon DEF Calls, Snap, Depth, ghosts
    <3> QED BY <1>5, <2>1, <3>1, Zenon DEF Called, Listed, ghosts
  <2>4. /\ pc' \in Exits
        /\ pc' \in {"exit_sie", "exit_status", "exit_regs"} => sepc' = "user"
        /\ pc' = "exit_regs" => prev'[2] = "U" /\ on' = FALSE
    BY <1>5, <2>1, <2>2, Zenon DEF Exits
  <2>5. Entering(th)'
    BY <1>5, <1>6, <2>1, <2>3, <2>4, Zenon DEF Entering, ghosts
  <2> QED BY <1>1, <1>5, <1>8, <1>9, <2>5, Zenon DEF Good, Seat, Runs
<1> QED BY <1>3, <1>10, <1>11, Zenon

\* What is below the stack pointer.
LEMMA DeadBlock == Dead \in Blocks /\ JunkRegs \in Regs
<1>1. JunkRegs \in Regs
  BY WordFacts, PointerFacts, Zenon DEF JunkRegs, JunkT, Junk, Regs
<1> QED BY <1>1, WordFacts, PointerFacts, Zenon DEF Dead, Context, Blocks, Status, Junk

\* trap_exit restores the general registers and pops the frame.
LEMMA ExitRegsGood == ASSUME Good, ExitRegs PROVE Good'
<1>1. PICK th \in Threads : Seat(th)
  BY Zenon DEF Good
<1>2. Typed /\ Programs /\ pc = "exit_regs"
  BY Zenon DEF Good, ExitRegs, At
<1>3. Handling(th) \/ Entering(th)
  BY <1>1, <1>2, Phases, Zenon DEF Seat, Exits
<1>4. PICK f : f = mem[regs.sp]
  BY Zenon
<1>5. /\ regs' = f.regs /\ mem' = [mem EXCEPT ![regs.sp] = IF sscratch = NoAddr THEN Dead ELSE f]
      /\ pc' = "sret" /\ UNCHANGED <<priv, fault, csrs, ctx, current, ghosts>>
  BY <1>4, Zenon DEF ExitRegs, Goto, Frame
<1>6. CASE Handling(th)
  <2>1. PICK d \in 1 .. MaxDepth : d = Depth(th) /\ regs.sp = <<th, d>> /\ f = mem[<<th, d>>]
    BY <1>4, <1>6, Zenon DEF Handling, Interrupted
  <2>2. PICK x : x = Top(th)
    BY Zenon
  <2>3. /\ Interrupted(th) /\ TopPlace(th) /\ sscratch = NoAddr
        /\ f.regs = x.regs /\ sepc = x.pc /\ sie = x.sie /\ prev = <<x.on, "S">>
    BY <1>2, <1>6, <2>1, <2>2, Zenon DEF Handling
  <2>4. d \in 0 .. MaxDepth /\ d # 0 /\ d \in Nat
    BY DepthAssumption
  <2>5. /\ Others(th)' /\ Programs' /\ mem' \in [Addr -> Blocks]
        /\ \A k \in 0 .. MaxDepth : k # d => mem'[<<th, k>>] = mem[<<th, k>>]
    <3>1. PICK b \in Blocks : b = Dead
      BY DeadBlock, Zenon
    <3>2. mem' = [mem EXCEPT ![<<th, d>>] = b]
      BY <1>5, <2>1, <2>3, <3>1, Zenon
    <3>3. UNCHANGED <<ctx, expect, out>> /\ \A e \in Executors : e # th => called'[e] = called[e]
      BY <1>5, Zenon DEF ghosts
    <3> QED BY <1>1, <1>2, <2>4, <3>2, <3>3, OwnBlock, Zenon DEF Seat
  <2>6. Interrupted(th)' /\ Top(th)' = x /\ TopPlace(th)'
    <3>1. \A k \in 1 .. Depth(th) - 1 : mem'[<<th, k>>] = mem[<<th, k>>]
      <4>1. \A k \in 1 .. Depth(th) - 1 : k \in 0 .. MaxDepth /\ k # d
        BY <2>1, <2>4, DepthAssumption
      <4> QED BY <2>5, <4>1, Zenon
    <3>2. on' = FALSE /\ UNCHANGED <<priv, ctx, current, expect, out, called>>
      BY <1>5, <2>3, Zenon DEF Interrupted, csrs, ghosts
    <3> QED BY <1>2, <2>2, <2>3, <3>1, <3>2, InterruptedKept, Zenon
  <2>7. Leaving(th)'
    BY <1>5, <2>3, <2>6, Zenon DEF Leaving, csrs
  <2>8. Typed'
    <3>1. regs' \in Regs
      BY <1>2, <1>5, <2>1, <2>4, PointerFacts, Zenon DEF Typed, Blocks
    <3> QED BY <1>2, <1>5, <2>5, <3>1, PlaceWords, Zenon DEF Typed, csrs, ghosts
  <2> QED BY <1>1, <1>5, <2>5, <2>7, <2>8, Zenon DEF Good, Seat, Runs
<1>7. CASE Entering(th)
  <2>1. /\ Called(th) /\ priv = "S" /\ regs.sp = <<th, 0>> /\ f = mem[<<th, 0>>] /\ f.regs = user[th]
        /\ sscratch = <<th, 0>> /\ sepc = "user" /\ prev[2] = "U" /\ on = FALSE
    BY <1>2, <1>4, <1>7, Zenon DEF Entering, Exits
  <2>2. <<th, 0>> \in Addr /\ <<th, 0>> # NoAddr /\ f \in Blocks
    BY <1>2, <2>1, PointerFacts, DepthAssumption DEF Typed
  <2>3. mem' = mem
    BY <1>2, <1>5, <2>1, <2>2, Zenon DEF Typed
  <2>4. regs' \in Regs /\ regs' = user[th] /\ regs'.sp = <<"user", 0>>
    BY <1>2, <1>5, <2>1, <2>2, Zenon DEF Blocks, Programs, Called, Threads
  <2>5. Called(th)'
    <3>1. Calls(th)' = Calls(th)
      BY <1>5, Zenon DEF Calls, Snap, Depth, ghosts
    <3> QED BY <1>5, <2>1, <2>3, <3>1, Zenon DEF Called, Listed, ghosts
  <2>6. Starting(th)'
    BY <1>5, <2>1, <2>4, <2>5, Zenon DEF Starting, csrs, ghosts
  <2>7. Typed' /\ Programs'
    BY <1>2, <1>5, <2>3, <2>4, PlaceWords, Zenon DEF Typed, Programs, csrs, ghosts
  <2>8. Others(th)'
    <3>1. \A u \in Threads \ {th} : Untouched(u)
      BY <1>5, <2>3, Zenon DEF Untouched, ghosts
    <3> QED BY <1>1, <1>2, <3>1, OthersKept, Zenon DEF Seat
  <2> QED BY <1>1, <1>5, <2>6, <2>7, <2>8, Zenon DEF Good, Seat, Runs
<1> QED BY <1>3, <1>6, <1>7, Zenon

\* sret.
LEMMA SretGood == ASSUME Good, Sret PROVE Good'
<1>1. PICK th \in Threads : Seat(th)
  BY Zenon DEF Good
<1>2. Typed /\ Programs /\ pc = "sret"
  BY Zenon DEF Good, Sret, At
<1>3. Leaving(th) \/ Starting(th)
  BY <1>1, <1>2, Phases, Zenon DEF Seat
<1>4. /\ pc' = sepc /\ priv' = prev[2] /\ on' = prev[1] /\ prev' = <<TRUE, "U">>
      /\ sepc' = "junk" /\ scause' = "junk"
      /\ expect' = IF prev[2] = "S" THEN [expect EXCEPT ![regs.sp[1]] = Tail(@)] ELSE expect
      /\ UNCHANGED <<regs, sie, sscratch, mem, ctx, current, out, called, user, fault>>
  BY Zenon DEF Sret, Self, Junk
<1>5. on' \in BOOLEAN /\ prev' \in Status /\ pc' \in Words /\ sepc' \in Words /\ scause' \in Words
  BY <1>2, <1>4, WordFacts, Zenon DEF Typed, Status
<1>6. CASE Leaving(th)
  <2>1. PICK d \in Nat : Depth(th) = d + 1
    BY <1>6, DepthAssumption DEF Leaving, Interrupted
  <2>2. PICK x : x = Top(th)
    BY Zenon
  <2>3. /\ Interrupted(th) /\ TopPlace(th) /\ sscratch = NoAddr /\ regs = x.regs /\ sepc = x.pc
        /\ prev = <<x.on, "S">> /\ sie = x.sie /\ regs.sp = <<th, d>> /\ d + 1 \in 1 .. MaxDepth
    BY <1>6, <2>1, <2>2, SMTT(30) DEF Leaving, Interrupted
  <2>4. expect' = [expect EXCEPT ![th] = Tail(@)] /\ pc' = x.pc /\ priv' = "S"
    BY <1>4, <2>3
  <2>5. expect'[th] = Tail(expect[th]) /\ \A u \in Threads \ {th} : expect'[u] = expect[u]
    BY <1>2, <2>4, Zenon DEF Typed
  <2>6. /\ Depth(th)' = d /\ expect'[th] \in Seq(Snaps) /\ \A k \in 0 .. d - 1 : Snap(th, k)' = Snap(th, k)
        /\ Calls(th) = Calls(th)' \cup (IF x.pc \in Calling THEN {Saved(x.regs)} ELSE {})
    <3>1. Depth(th) > 0 /\ Depth(th) - 1 = d /\ Depth(th) - 2 = d - 1
      BY <2>1
    <3>2. /\ Depth(th)' = Depth(th) - 1 /\ expect'[th] \in Seq(Snaps)
          /\ \A k \in 0 .. Depth(th) - 2 : Snap(th, k)' = Snap(th, k)
          /\ Calls(th) = Calls(th)' \cup (IF Top(th).pc \in Calling THEN {Saved(Top(th).regs)} ELSE {})
      BY <1>2, <2>5, <3>1, CallsPop, Zenon
    <3> QED BY <2>2, <3>1, <3>2, Zenon
  <2>7. /\ Stacked(th, d) /\ Open(th, d) /\ Place(th, d, x.regs, x.pc) /\ Stage(th, d, x.regs, x.pc)
        /\ Listed(th, IF x.pc = "switch_ra" THEN {ctx[th]} ELSE {})
    BY <2>1, <2>2, <2>3 DEF Interrupted, TopPlace
  <2>8. Stacked(th, d)'
    BY <1>4, <2>6, <2>7, StackedKept, Zenon
  <2>9. Open(th, d)'
    BY <2>6, <2>7, SMTT(30) DEF Open
  <2>10. Listed(th, Innermost(th, regs, pc))' /\ Stage(th, d, regs, pc)'
    <3>1. Calls(th) \cup (IF x.pc = "switch_ra" THEN {ctx[th]} ELSE {}) = Calls(th)' \cup Innermost(th, x.regs, x.pc)
      <4>1. CASE x.pc = "switch_ra"
        BY <2>6, <4>1, Zenon DEF Innermost, Calling
      <4>2. CASE x.pc # "switch_ra"
        BY <2>6, <4>2, Zenon DEF Innermost
      <4> QED BY <4>1, <4>2, Zenon
    <3>2. Innermost(th, regs, pc)' = Innermost(th, x.regs, x.pc)
      BY <1>4, <2>3, <2>4, Zenon DEF Innermost
    <3>3. Stage(th, d, regs, pc)'
      BY <1>4, <2>3, <2>4, <2>7, Zenon DEF Stage, Returns
    <3> QED BY <1>4, <2>7, <3>1, <3>2, <3>3, Zenon DEF Listed
  <2>11. Place(th, d, regs, pc)'
    BY <1>4, <2>3, <2>4, <2>7, Zenon DEF Place
  <2>12. InCode(th)'
    BY <1>4, <2>3, <2>4, <2>6, <2>7, <2>8, <2>9, <2>10, <2>11, DepthAssumption, SMTT(30) DEF InCode
  <2>13. Others(th)'
    <3>1. \A u \in Threads \ {th} : Untouched(u)
      BY <1>4, <2>5, Zenon DEF Untouched
    <3> QED BY <1>1, <1>2, <3>1, OthersKept, Zenon DEF Seat
  <2>14. Typed' /\ Programs'
    <3>1. expect' \in [Threads -> Seq(Snaps)]
      BY <1>2, <2>4, <2>5, <2>6, Zenon DEF Typed
    <3> QED BY <1>2, <1>4, <1>5, <3>1, Zenon DEF Typed, Programs
  <2> QED BY <1>1, <1>4, <2>12, <2>13, <2>14, Zenon DEF Good, Seat, Runs
<1>7. CASE Starting(th)
  <2>1. /\ Called(th) /\ regs = user[th] /\ regs.sp = <<"user", 0>> /\ prev[2] = "U" /\ sepc = "user" /\ sscratch = <<th, 0>>
    BY <1>7, Zenon DEF Starting
  <2>2. expect' = expect /\ pc' = "user" /\ priv' = "U"
    BY <1>4, <2>1, Zenon
  <2>3. Called(th)'
    <3>1. Calls(th)' = Calls(th)
      BY <2>2, Zenon DEF Calls, Snap, Depth
    <3> QED BY <1>4, <2>1, <2>2, <3>1, Zenon DEF Called, Listed
  <2>4. InProgram(th)'
    BY <1>4, <2>1, <2>2, <2>3, Zenon DEF InProgram
  <2>5. Others(th)'
    <3>1. \A u \in Threads \ {th} : Untouched(u)
      BY <1>4, <2>2, Zenon DEF Untouched
    <3> QED BY <1>1, <1>2, <3>1, OthersKept, Zenon DEF Seat
  <2>6. Typed' /\ Programs'
    BY <1>2, <1>4, <1>5, <2>2, Zenon DEF Typed, Programs
  <2> QED BY <1>1, <1>4, <2>4, <2>5, <2>6, Zenon DEF Good, Seat, Runs
<1> QED BY <1>3, <1>6, <1>7, Zenon

-----------------------------------------------------------------------------
(* run_user *)

\* A call of run_user.
LEMMA CallRunGood ==
  ASSUME Good, NEW e \in Callers, NEW setup \in BOOLEAN, NEW ints \in BOOLEAN, CallRun(e, setup, ints)
  PROVE  Good'
<1>1. PICK th \in Threads : Seat(th)
  BY Zenon DEF Good
<1>2. Typed /\ Programs /\ pc = "code" /\ pc \notin InSwitch
  BY Zenon DEF Good, CallRun, At, InSwitch, Calling
<1>3. InCode(th) /\ Place(th, Depth(th), regs, pc)
  BY <1>1, <1>2, InCodeAt, Zenon DEF CodePlaces
<1>4. th # RT /\ Depth(th) = 0 /\ regs.sp = <<th, 0>> /\ e = th /\ th \in Executors /\ regs.sp[1] = e
  BY <1>2, <1>3 DEF Place, InSwitch, Calling, InCode, CallRun, Self, Threads
<1>5. PICK f \in Blocks : f = mem[<<th, 0>>] /\ f.prev[2] = "U" /\ f.sepc = "user" /\ f.regs.sp = <<"user", 0>>
  BY <1>2, <1>4, PointerFacts, DepthAssumption DEF Typed, Programs
<1>6. PICK b : b = IF setup THEN UserSetup(f, ints) ELSE f
  BY Zenon
<1>7. b \in Blocks /\ b.prev[2] = "U" /\ b.sepc = "user" /\ b.regs.sp = <<"user", 0>>
  <2>1. CASE setup = FALSE
    BY <1>5, <1>6, <2>1, Zenon
  <2>2. CASE setup = TRUE
    <3>1. b = [f EXCEPT !.regs = [f.regs EXCEPT !.sp = <<"user", 0>>], !.prev = <<TRUE, "U">>, !.sepc = "user", !.sie = ints]
      BY <1>5, <1>6, <2>2, Zenon DEF UserSetup, Blocks
    <3>2. PICK r \in Regs : r = [f.regs EXCEPT !.sp = <<"user", 0>>] /\ r.sp = <<"user", 0>>
      BY <1>5, PointerFacts, Zenon DEF Blocks, Regs
    <3>3. <<TRUE, "U">> \in Status
      BY Zenon DEF Status
    <3> QED BY <1>5, <3>1, <3>2, <3>3, PlaceWords, Zenon DEF Blocks
  <2> QED BY <2>1, <2>2, Zenon
<1>8. /\ mem' = [mem EXCEPT ![<<th, 0>>] = b] /\ user' = [user EXCEPT ![th] = b.regs]
      /\ called' = [called EXCEPT ![th] = regs]
      /\ regs' = [regs EXCEPT !.ra = "code", !.t = <<th, "junk">>] /\ pc' = "run_push"
      /\ UNCHANGED <<priv, fault, csrs, ctx, current, expect, out>>
  BY <1>4, <1>5, <1>6, Zenon DEF CallRun, Goto, Junk
<1>9. /\ regs' \in Regs /\ regs'.sp = regs.sp /\ regs'.ra = "code" /\ regs'.t[1] = th /\ regs'.s = regs.s /\ regs'.gt = regs.gt
  BY <1>2, <1>4, <1>8, WordFacts, PlaceWords, Zenon DEF Typed, Regs
<1>10. called'[th] = regs /\ called' \in [Executors -> Regs] /\ (\A u \in Executors : u # th => called'[u] = called[u])
  BY <1>2, <1>4, <1>8, Zenon DEF Typed
<1>11. 0 \in 0 .. MaxDepth
  BY DepthAssumption
<1>12. Others(th)' /\ Programs' /\ mem' \in [Addr -> Blocks]
  BY <1>1, <1>2, <1>7, <1>8, <1>10, <1>11, OwnBlock, Zenon DEF Seat
<1>13. Place(th, Depth(th), regs, pc)'
  <2>1. Depth(th)' = 0
    BY <1>4, <1>8, Zenon DEF Depth
  <2> QED BY <1>4, <1>8, <1>9, <1>10, <2>1, Zenon DEF Place
<1>14. InCode(th)'
  <2>1. pc' \notin InSwitch /\ UNCHANGED <<priv, sscratch, ctx, expect, out>>
    BY <1>8, Zenon DEF InSwitch, Calling, csrs
  <2> QED BY <1>2, <1>3, <1>4, <1>9, <1>13, <2>1, CodeKept, SMTT(30)
<1>15. Typed'
  <2>1. b.regs \in Regs
    BY <1>7, Zenon DEF Blocks
  <2>2. user' \in [Executors -> Regs]
    BY <1>2, <1>8, <2>1, Zenon DEF Typed
  <2> QED BY <1>2, <1>8, <1>9, <1>10, <1>12, <2>2, PlaceWords, Zenon DEF Typed, csrs
<1> QED BY <1>1, <1>8, <1>12, <1>14, <1>15, Zenon DEF Good, Seat, Runs

\* run_user saves the caller's registers below the Context.
LEMMA RunPushGood == ASSUME Good, Recorded, RunPush PROVE Good'
<1>1. PICK th \in Threads : Seat(th)
  BY Zenon DEF Good
<1>2. Typed /\ Programs /\ pc = "run_push" /\ pc \notin InSwitch
  BY Zenon DEF Good, RunPush, At, InSwitch, Calling
<1>3. InCode(th) /\ Place(th, Depth(th), regs, pc)
  BY <1>1, <1>2, InCodeAt, Zenon DEF CodePlaces
<1>4. /\ th # RT /\ Depth(th) = 0 /\ regs.sp = <<th, 0>> /\ regs.ra = "code" /\ regs.t[1] = th /\ th \in Executors
      /\ called[th].sp = regs.sp /\ called[th].s = regs.s /\ called[th].gt = regs.gt
      /\ priv = "S" /\ sscratch = NoAddr /\ Listed(th, {})
  <2>1. Innermost(th, regs, pc) = {}
    BY <1>2, Zenon DEF Innermost, Calling
  <2> QED BY <1>2, <1>3, <2>1, Zenon DEF Place, Calling, InCode, Threads
<1>5. /\ <<th, 0>> \in Addr /\ <<th, 1>> \in Addr /\ <<th, 0>> # <<th, 1>> /\ 0 \in 0 .. MaxDepth /\ 1 \in 0 .. MaxDepth
      /\ <<th, 0>>[1] = th /\ <<th, 0>>[2] = 0
  BY PointerFacts, DepthAssumption
<1>6. PICK f \in Blocks : f = mem[<<th, 0>>] /\ f.prev[2] = "U" /\ f.sepc = "user" /\ f.regs.sp = <<"user", 0>> /\ f.regs = user[th]
  BY <1>2, <1>4, <1>5, Zenon DEF Typed, Programs, Recorded
<1>7. PICK own : own = [f EXCEPT !.zero = <<th, 1>>]
  BY Zenon
<1>8. /\ own \in Blocks /\ own.zero = <<th, 1>> /\ own.regs = user[th]
      /\ own.prev[2] = "U" /\ own.sepc = "user" /\ own.regs.sp = <<"user", 0>>
  BY <1>5, <1>6, <1>7, PointerFacts, Zenon DEF Blocks
<1>9. PICK r : r = [JunkRegs EXCEPT !.s = regs.s, !.ra = regs.ra, !.gt = regs.gt]
  BY Zenon
<1>10. r \in Regs /\ r.s = regs.s /\ r.ra = "code" /\ r.gt = regs.gt
  <2>1. regs \in Regs
    BY <1>2, Zenon DEF Typed
  <2> QED BY <1>4, <1>9, <2>1, DeadBlock, Zenon DEF Regs
<1>11. PICK area : area = [Dead EXCEPT !.regs = r]
  BY Zenon
<1>12. area \in Blocks /\ area.regs = r
  BY <1>10, <1>11, DeadBlock, Zenon DEF Blocks
<1>13. [Dead EXCEPT !.regs.s = regs.s, !.regs.ra = regs.ra, !.regs.gt = regs.gt] = area
  BY <1>9, <1>11, Zenon DEF Dead, Context, JunkRegs
<1>14. Below(regs.sp) = <<th, 1>>
  BY <1>4, <1>5 DEF Below
<1>15. /\ mem' = [mem EXCEPT ![<<th, 1>>] = area, ![<<th, 0>>].zero = <<th, 1>>]
       /\ regs' = [regs EXCEPT !.sp = <<th, 0>>, !.t = <<"junk", "junk">>] /\ pc' = "run_scratch"
       /\ UNCHANGED <<priv, fault, csrs, ctx, current, ghosts>>
  BY <1>4, <1>13, <1>14, Zenon DEF RunPush, Goto, JunkT, Junk
<1>16. /\ mem' \in [Addr -> Blocks] /\ mem'[<<th, 1>>] = area /\ mem'[<<th, 0>>] = own
       /\ \A a \in Addr \ {<<th, 0>>, <<th, 1>>} : mem'[a] = mem[a]
  <2>1. mem \in [Addr -> Blocks]
    BY <1>2, Zenon DEF Typed
  <2>2. mem' = [a \in Addr |-> IF a = <<th, 0>> THEN own ELSE IF a = <<th, 1>> THEN area ELSE mem[a]]
    BY <1>5, <1>6, <1>7, <1>15, <2>1, Zenon
  <2> QED BY <1>5, <1>8, <1>12, <2>1, <2>2, Zenon
<1>17. regs' \in Regs /\ regs'.sp = <<th, 0>>
  BY <1>2, <1>5, <1>15, WordFacts, PointerFacts, Zenon DEF Typed, Regs
<1>18. Called(th)'
  <2>1. Calls(th)' = Calls(th) /\ expect'[th] = <<>>
    BY <1>2, <1>4, <1>15 DEF Calls, Snap, Depth, ghosts, Typed
  <2> QED BY <1>4, <1>8, <1>10, <1>12, <1>15, <1>16, <2>1, Zenon DEF Called, Listed, ghosts
<1>19. Entering(th)'
  BY <1>4, <1>8, <1>15, <1>16, <1>17, <1>18, Zenon DEF Entering, Exits, csrs, ghosts
<1>20. \A u \in Threads \ {th}, k \in 0 .. MaxDepth : mem'[<<u, k>>] = mem[<<u, k>>]
  BY <1>16, PointerFacts, Zenon
<1>21. Others(th)'
  <2>1. \A u \in Threads \ {th} : Untouched(u)
    <3>1. \A k \in 1 .. MaxDepth : k \in 0 .. MaxDepth
      BY DepthAssumption
    <3> QED BY <1>15, <1>20, <3>1, Zenon DEF Untouched, ghosts
  <2> QED BY <1>1, <1>2, <2>1, OthersKept, Zenon DEF Seat
<1>22. Programs'
  <2> SUFFICES ASSUME NEW e \in Executors
               PROVE  mem'[<<e, 0>>].prev[2] = "U" /\ mem'[<<e, 0>>].sepc = "user" /\ mem'[<<e, 0>>].regs.sp = <<"user", 0>>
    BY Zenon DEF Programs
  <2>1. CASE e = th
    BY <1>8, <1>16, <2>1, Zenon
  <2>2. CASE e # th
    <3>1. mem'[<<e, 0>>] = mem[<<e, 0>>]
      BY <1>5, <1>20, <2>2, Zenon DEF Threads
    <3> QED BY <1>2, <3>1, Zenon DEF Programs
  <2> QED BY <2>1, <2>2, Zenon
<1>23. Typed'
  BY <1>2, <1>15, <1>16, <1>17, PlaceWords, Zenon DEF Typed, csrs, ghosts
<1> QED BY <1>1, <1>15, <1>19, <1>21, <1>22, <1>23, Zenon DEF Good, Seat, Runs

\* run_user writes sscratch.
LEMMA RunScratchGood == ASSUME Good, RunScratch PROVE Good'
<1>1. PICK th \in Threads : Seat(th)
  BY Zenon DEF Good
<1>2. Typed /\ Programs /\ pc = "run_scratch"
  BY Zenon DEF Good, RunScratch, At
<1>3. Called(th) /\ priv = "S" /\ regs.sp = <<th, 0>> /\ mem[<<th, 0>>].regs = user[th]
  BY <1>1, <1>2, Phases, Zenon DEF Seat, Entering
<1>4. /\ sscratch' = <<th, 0>> /\ pc' = "exit_sepc"
      /\ UNCHANGED <<priv, fault, regs, on, prev, sie, sepc, scause, mem, ctx, current, ghosts>>
  BY <1>3, Zenon DEF RunScratch, Goto
<1>5. Called(th)'
  <2>1. Calls(th)' = Calls(th)
    BY <1>4, Zenon DEF Calls, Snap, Depth, ghosts
  <2> QED BY <1>3, <1>4, <2>1, Zenon DEF Called, Listed, ghosts
<1>6. Entering(th)'
  BY <1>3, <1>4, <1>5, Zenon DEF Entering, Exits, ghosts
<1>7. Others(th)'
  <2>1. \A u \in Threads \ {th} : Untouched(u)
    BY <1>4, Zenon DEF Untouched, ghosts
  <2> QED BY <1>1, <1>2, <2>1, OthersKept, Zenon DEF Seat
<1>8. Typed' /\ Programs'
  <2>1. sscratch' \in Addr
    BY <1>4, PointerFacts, DepthAssumption
  <2> QED BY <1>2, <1>4, <2>1, PlaceWords, Zenon DEF Typed, Programs, ghosts
<1> QED BY <1>1, <1>4, <1>6, <1>7, <1>8, Zenon DEF Good, Seat, Runs

\* What trap_from_user_ed finds.
LEMMA ReturnsTo ==
  ASSUME Typed, NEW th \in Threads, Returning(th)
  PROVE  /\ th \in Executors /\ regs.sp = <<th, 0>> /\ mem[regs.sp].zero = <<th, 1>> /\ Above(<<th, 1>>) = <<th, 0>>
         /\ <<th, 0>> \in Addr /\ <<th, 1>> \in Addr /\ <<th, 1>> # <<th, 0>>
         /\ mem[<<th, 1>>].regs.s = called[th].s /\ mem[<<th, 1>>].regs.gt = called[th].gt
         /\ mem[<<th, 1>>].regs.ra = "code" /\ called[th].sp = <<th, 0>>
<1>1. <<th, 0>> \in Addr /\ <<th, 1>> \in Addr /\ <<th, 1>> # <<th, 0>> /\ Above(<<th, 1>>) = <<th, 0>>
  BY PointerFacts, DepthAssumption DEF Above
<1> QED BY <1>1, Zenon DEF Returning, Called, Threads

\* trap_from_user_ed returns to the caller of run_user.
LEMMA FromUserGood == ASSUME Good, FromUser PROVE Good'
<1>1. PICK th \in Threads : Seat(th)
  BY Zenon DEF Good
<1>2. Typed /\ Programs /\ pc = "from_user"
  BY Zenon DEF Good, FromUser, At
<1>3. Returning(th)
  BY <1>1, <1>2, Phases, Zenon DEF Seat
<1>4. PICK kept \in Regs : kept = mem[<<th, 1>>].regs /\ kept.ra = "code"
  BY <1>2, <1>3, ReturnsTo, Zenon DEF Typed, Blocks
<1>5. /\ regs' = [regs EXCEPT !.sp = <<th, 0>>, !.s = kept.s, !.ra = kept.ra, !.gt = kept.gt]
      /\ mem' = [mem EXCEPT ![<<th, 1>>] = Dead] /\ pc' = "code"
      /\ sepc' = "junk" /\ scause' = "junk" /\ prev' = <<TRUE, "U">>
      /\ called' = [called EXCEPT ![th] = JunkRegs]
      /\ UNCHANGED <<priv, fault, on, sie, sscratch, ctx, current, expect, out, user>>
  <2>1. mem[regs.sp].zero = <<th, 1>> /\ Above(<<th, 1>>) = <<th, 0>> /\ regs.sp = <<th, 0>>
    BY <1>2, <1>3, ReturnsTo, Zenon
  <2>2. Self = th
    BY <2>1 DEF Self
  <2>3. called' = [called EXCEPT ![th] = JunkRegs]
    BY <2>2, Zenon DEF FromUser
  <2>4. /\ regs' = [regs EXCEPT !.sp = <<th, 0>>, !.s = kept.s, !.ra = kept.ra, !.gt = kept.gt]
        /\ mem' = [mem EXCEPT ![<<th, 1>>] = Dead] /\ pc' = kept.ra /\ UNCHANGED <<priv, fault>>
    BY <1>4, <2>1, Zenon DEF FromUser, Goto
  <2> QED BY <1>4, <2>3, <2>4, Zenon DEF FromUser, Junk
<1>6. regs' \in Regs /\ regs'.sp = <<th, 0>> /\ prev' \in Status
  BY <1>2, <1>3, <1>4, <1>5, ReturnsTo, PointerFacts, Zenon DEF Typed, Regs, Status
<1>7. called' \in [Executors -> Regs] /\ \A e \in Executors : e # th => called'[e] = called[e]
  BY <1>2, <1>5, DeadBlock, Zenon DEF Typed
<1>8. /\ Others(th)' /\ Programs' /\ mem' \in [Addr -> Blocks]
  <2>1. PICK b \in Blocks : b = Dead
    BY DeadBlock, Zenon
  <2>2. 1 \in 0 .. MaxDepth /\ mem' = [mem EXCEPT ![<<th, 1>>] = b]
    BY <1>5, <2>1, DepthAssumption
  <2>3. UNCHANGED <<ctx, expect, out>> /\ Others(th) /\ 1 # 0
    BY <1>1, <1>5 DEF Seat
  <2> QED BY <1>2, <1>7, <2>2, <2>3, OwnBlock, Zenon
<1>9. InCode(th)'
  <2>1. expect'[th] = <<>> /\ Listed(th, {}) /\ th # RT /\ priv' = "S" /\ sscratch' = NoAddr
    BY <1>3, <1>5, Zenon DEF Returning, Called
  <2>2. Calls(th)' = Calls(th) /\ Depth(th)' = 0
    BY <1>5, <2>1, Zenon DEF Calls, Snap, Depth
  <2>3. Listed(th, {})'
    BY <1>5, <2>1, <2>2, Zenon DEF Listed
  <2> QED BY <1>5, <1>6, <2>1, <2>2, <2>3, DepthAssumption DEF InCode, Place, Stacked, Open, Stage, Innermost, Calling
<1>10. Typed'
  BY <1>2, <1>5, <1>6, <1>7, <1>8, WordFacts, PlaceWords, Zenon DEF Typed
<1> QED BY <1>1, <1>5, <1>8, <1>9, <1>10, Zenon DEF Good, Seat, Runs

-----------------------------------------------------------------------------
(* The registers of a program. *)

\* Steps that write no Context of a program.
LEMMA RecordedKept ==
  ASSUME Recorded, user' = user, pc # "trap_entry", \A e \in Executors : mem'[<<e, 0>>].regs = mem[<<e, 0>>].regs
  PROVE  Recorded'
BY Zenon DEF Recorded

\* A write below block 0 is none to a Context.
LEMMA OtherBlock ==
  ASSUME Typed, NEW a \in Addr, a[2] # 0, NEW b, mem' = [mem EXCEPT ![a] = b]
  PROVE  \A e \in Executors : mem'[<<e, 0>>] = mem[<<e, 0>>]
<1> SUFFICES ASSUME NEW e \in Executors PROVE mem'[<<e, 0>>] = mem[<<e, 0>>]
  BY Zenon
<1>1. <<e, 0>> \in Addr /\ <<e, 0>>[2] = 0
  BY PointerFacts, DepthAssumption DEF Threads
<1> QED BY <1>1, Zenon DEF Typed

\* A trap of the program, and trap_entry, which records it in the Context.
LEMMA ProgramStepRecorded ==
  ASSUME Good, Recorded, TrapEntry \/ (\E c : HardwareTrap(c) /\ priv = "U"), fault' = "none"
  PROVE  Recorded'
<1>1. PICK th \in Threads : Seat(th)
  BY Zenon DEF Good
<1>2. Typed
  BY Zenon DEF Good
<1>3. CASE \E c : HardwareTrap(c) /\ priv = "U"
  <2>1. InProgram(th)
    BY <1>1, <1>3, Zenon DEF Seat, Runs, InCode, Trapped, ProgramTrapped, Handling, Leaving, Starting, Entering, Returning, Interrupted
  <2>2. /\ pc = "user" /\ sscratch = <<th, 0>> /\ th \in Executors
    BY <2>1, Zenon DEF InProgram, Called, Threads
  <2>3. /\ user' = [user EXCEPT ![th] = regs] /\ mem' = mem /\ pc' = "trap_entry" /\ prev' = <<on, "U">> /\ sscratch' = sscratch
    BY <1>3, <2>2, Zenon DEF HardwareTrap
  <2>4. \A e \in Executors : e # th => user'[e] = user[e]
    BY <1>2, <2>3, Zenon DEF Typed
  <2> QED BY <2>2, <2>3, <2>4, Zenon DEF Recorded
<1>4. CASE TrapEntry
  <2>1. pc = "trap_entry" /\ user' = user /\ pc' # "trap_entry"
    BY <1>4, Zenon DEF TrapEntry, At, ghosts
  <2>5. PICK frame : frame = IF sscratch # NoAddr THEN sscratch ELSE Below(regs.sp)
    BY Zenon
  <2>6. PICK b : b = Context(regs, mem[frame].zero, prev, scause, sie, sepc)
    BY Zenon
  <2>2. b.regs = regs /\ mem' = [mem EXCEPT ![frame] = b]
    BY <1>4, <2>5, <2>6, Zenon DEF TrapEntry, Context
  <2>3. CASE Trapped(th)
    <3>1. sscratch = NoAddr /\ prev[2] = "S"
      BY <1>4, <2>3, Zenon DEF TrapEntry, Trapped
    <3>2. PICK d \in Nat : Depth(th) = d + 1 /\ d + 1 \in 1 .. MaxDepth /\ regs.sp = <<th, d>>
      BY <2>3, DepthAssumption DEF Trapped, Interrupted
    <3>3. frame = <<th, d + 1>> /\ frame \in Addr /\ frame[2] # 0
      BY <2>5, <3>1, <3>2, PointerFacts, DepthAssumption DEF Below
    <3>4. \A e \in Executors : mem'[<<e, 0>>] = mem[<<e, 0>>]
      BY <1>2, <2>2, <3>3, OtherBlock, Zenon
    <3> QED BY <2>1, <3>1, <3>4, Zenon DEF Recorded
  <2>4. CASE ProgramTrapped(th)
    <3>1. sscratch = <<th, 0>> /\ regs = user[th] /\ th \in Executors
      BY <2>4, Zenon DEF ProgramTrapped, Called, Threads
    <3>2. frame = <<th, 0>> /\ frame \in Addr
      BY <2>5, <3>1, PointerFacts, DepthAssumption
    <3>3. mem'[<<th, 0>>] = b /\ \A e \in Executors : e # th => mem'[<<e, 0>>] = mem[<<e, 0>>]
      <4>1. \A e \in Executors : <<e, 0>> \in Addr /\ (e # th => <<e, 0>> # frame)
        BY <3>2, PointerFacts, DepthAssumption DEF Threads
      <4>2. mem \in [Addr -> Blocks]
        BY <1>2, Zenon DEF Typed
      <4> QED BY <2>2, <3>2, <4>1, <4>2, Zenon
    <3>4. \A e \in Executors : e # th => sscratch # <<e, 0>>
      BY <3>1, Zenon
    <3> QED BY <2>1, <2>2, <3>1, <3>3, <3>4, Zenon DEF Recorded
  <2> QED BY <1>1, <2>1, <2>3, <2>4, Phases, Zenon DEF Seat
<1> QED BY <1>3, <1>4, Zenon

\* Steps that write a frame of the kernel.
LEMMA FrameStepRecorded ==
  ASSUME Good, Recorded, FromUser \/ HandlerReturn \/ ExitRegs
  PROVE  Recorded'
<1>1. PICK th \in Threads : Seat(th)
  BY Zenon DEF Good
<1>2. Typed
  BY Zenon DEF Good
<1>3. user' = user /\ pc # "trap_entry"
  BY Zenon DEF FromUser, HandlerReturn, ExitRegs, At, csrs, ghosts
<1>4. CASE FromUser
  <2>1. Returning(th)
    BY <1>1, <1>4, Phases, Zenon DEF Seat, FromUser, At
  <2>2. mem' = [mem EXCEPT ![<<th, 1>>] = Dead]
    <3>1. mem[regs.sp].zero = <<th, 1>>
      BY <1>2, <2>1, ReturnsTo, Zenon
    <3> QED BY <1>4, <3>1, Zenon DEF FromUser
  <2>3. <<th, 1>> \in Addr /\ <<th, 1>>[2] # 0
    BY <1>2, <2>1, ReturnsTo, Zenon
  <2>4. \A e \in Executors : mem'[<<e, 0>>] = mem[<<e, 0>>]
    BY <1>2, <2>2, <2>3, OtherBlock, Zenon
  <2> QED BY <1>3, <2>4, RecordedKept, Zenon
<1>5. CASE HandlerReturn \/ ExitRegs
  <2>1. Handling(th) \/ (Entering(th) /\ pc = "exit_regs")
    BY <1>1, <1>5, Phases, Zenon DEF Seat, HandlerReturn, ExitRegs, At, Exits
  <2>2. CASE Handling(th)
    <3>1. regs.sp \in Addr /\ regs.sp[2] # 0
      BY <2>2, PointerFacts, DepthAssumption, SMTT(30) DEF Handling, Interrupted
    <3>2. PICK b : mem' = [mem EXCEPT ![regs.sp] = b]
      BY <1>5, Zenon DEF HandlerReturn, ExitRegs
    <3>3. \A e \in Executors : mem'[<<e, 0>>] = mem[<<e, 0>>]
      BY <1>2, <3>1, <3>2, OtherBlock, Zenon
    <3> QED BY <1>3, <3>3, RecordedKept, Zenon
  <2>3. CASE Entering(th) /\ pc = "exit_regs"
    <3>1. sscratch = <<th, 0>> /\ sscratch # NoAddr
      BY <2>3, PointerFacts, DepthAssumption DEF Entering, Exits
    <3>2. mem' = [mem EXCEPT ![regs.sp] = mem[regs.sp]]
      BY <1>5, <2>3, <3>1, Zenon DEF ExitRegs, HandlerReturn, At
    <3>3. mem' = mem
      BY <1>2, <3>2, Zenon DEF Typed
    <3> QED BY <1>3, <3>3, RecordedKept, Zenon
  <2> QED BY <2>1, <2>2, <2>3, Zenon
<1> QED BY <1>4, <1>5, Zenon

\* run_user sets up the Context, and its slot for the stack pointer.
LEMMA RunStepRecorded ==
  ASSUME Good, Recorded, RunPush \/ \E e \in Callers, setup, ints \in BOOLEAN : CallRun(e, setup, ints)
  PROVE  Recorded'
<1>1. PICK th \in Threads : Seat(th)
  BY Zenon DEF Good
<1>2. Typed
  BY Zenon DEF Good
<1>3. CASE RunPush
  <2>1. pc = "run_push" /\ user' = user
    BY <1>3, Zenon DEF RunPush, At, ghosts
  <2>2. InCode(th) /\ Place(th, Depth(th), regs, pc)
    BY <1>1, <2>1, InCodeAt, Zenon DEF CodePlaces
  <2>3. th \in Executors /\ regs.sp = <<th, 0>> /\ regs.t[1] = th
    BY <2>1, <2>2, Zenon DEF Place, InSwitch, Calling, InCode, Threads
  <2>4. /\ <<th, 0>> \in Addr /\ <<th, 1>> \in Addr /\ <<th, 0>> # <<th, 1>> /\ Below(<<th, 0>>) = <<th, 1>>
    BY PointerFacts, DepthAssumption DEF Below
  <2>5. PICK b : mem' = [mem EXCEPT ![<<th, 1>>] = b, ![<<th, 0>>].zero = <<th, 1>>]
    BY <1>3, <2>3, <2>4, Zenon DEF RunPush
  <2>6. \A e \in Executors : mem'[<<e, 0>>].regs = mem[<<e, 0>>].regs
    <3> SUFFICES ASSUME NEW e \in Executors PROVE mem'[<<e, 0>>].regs = mem[<<e, 0>>].regs
      BY Zenon
    <3>1. <<e, 0>> \in Addr /\ <<e, 0>> # <<th, 1>>
      BY PointerFacts, DepthAssumption DEF Threads
    <3>2. mem \in [Addr -> Blocks] /\ mem[<<e, 0>>] \in Blocks
      BY <1>2, <3>1, Zenon DEF Typed
    <3>3. mem'[<<e, 0>>] = IF e = th THEN [mem[<<e, 0>>] EXCEPT !.zero = <<th, 1>>] ELSE mem[<<e, 0>>]
      BY <2>4, <2>5, <3>1, <3>2, Zenon
    <3> QED BY <3>2, <3>3, Zenon DEF Blocks
  <2> QED BY <2>1, <2>6, RecordedKept, Zenon
<1>4. ASSUME NEW e \in Callers, NEW setup \in BOOLEAN, NEW ints \in BOOLEAN, CallRun(e, setup, ints)
      PROVE  Recorded'
  <2>1. PICK c : c = IF setup THEN UserSetup(mem[<<e, 0>>], ints) ELSE mem[<<e, 0>>]
    BY Zenon
  <2>2. /\ mem' = [mem EXCEPT ![<<e, 0>>] = c] /\ user' = [user EXCEPT ![e] = c.regs] /\ pc = "code"
    BY <1>4, <2>1, Zenon DEF CallRun, At
  <2>3. e \in Executors /\ \A u \in Executors : <<u, 0>> \in Addr /\ (u # e => <<u, 0>> # <<e, 0>>)
    BY PointerFacts, DepthAssumption, ThreadsAssumption DEF Threads
  <2>4. \A u \in Executors : user'[u] = (IF u = e THEN c.regs ELSE user[u]) /\ mem'[<<u, 0>>] = (IF u = e THEN c ELSE mem[<<u, 0>>])
    BY <1>2, <2>2, <2>3, Zenon DEF Typed
  <2> QED BY <2>2, <2>4, Zenon DEF Recorded
<1> QED BY <1>3, <1>4, Zenon

\* All the other steps.
LEMMA OtherStepRecorded ==
  ASSUME Good, Recorded, UNCHANGED <<mem, user>>, pc # "trap_entry" PROVE Recorded'
BY RecordedKept, Zenon

-----------------------------------------------------------------------------

\* Where the code can be interrupted.
LEMMA CanTrap ==
  ASSUME Good, Exception \/ \E c \in {"timer", "other"} : Interrupt(c), priv # "U"
  PROVE  pc # "trap_entry" /\ pc # "sret" /\ pc # "from_user" /\ priv = "S"
<1>1. PICK th \in Threads : Seat(th)
  BY Zenon DEF Good
<1>2. pc \in {"trap_entry", "sret", "from_user"} => on = FALSE
  BY <1>1, Phases, Zenon DEF Seat, Trapped, ProgramTrapped, Leaving, Starting, Returning, Interrupted
<1>3. priv = "S"
  BY <1>1, Zenon DEF Seat, Runs, InCode, Trapped, Handling, Leaving, Entering, Starting, InProgram, ProgramTrapped, Returning, Interrupted
<1> QED BY <1>2, <1>3, Zenon DEF Exception, Interrupt, At

\* The invariant holds when the runtime comes to its loop.
LEMMA InitIInv == Init => IInv
<1> SUFFICES ASSUME Init PROVE Good /\ Recorded
  BY Zenon DEF IInv
<1>1. /\ RT \in Threads /\ RT \notin Executors /\ \A e \in Executors : e \in Threads
      /\ \A th \in Threads, d \in 0 .. MaxDepth : <<th, d>> \in Addr
      /\ 0 \in 0 .. MaxDepth /\ 0 <= MaxDepth
  BY ThreadsAssumption, PointerFacts, DepthAssumption DEF Threads
<1>2. Default \in Blocks /\ Default.regs \in Regs
  <2>1. PICK r \in Regs : r = [JunkRegs EXCEPT !.gt = "user"]
    BY DeadBlock, PlaceWords, Zenon DEF Regs
  <2>2. Default = [Dead EXCEPT !.regs = r]
    BY <2>1, Zenon DEF Default, Dead, Context
  <2> QED BY <2>1, <2>2, DeadBlock, Zenon DEF Blocks
<1>3. Fresh \in Blocks /\ Fresh.prev[2] = "U" /\ Fresh.sepc = "user" /\ Fresh.regs.sp = <<"user", 0>> /\ Fresh.regs \in Regs
  <2>1. PICK f \in Blocks : f = Default
    BY <1>2, Zenon
  <2>5. PICK q \in Regs : q = f.regs
    BY Zenon DEF Blocks
  <2>6. [q EXCEPT !.sp = <<"user", 0>>] \in Regs /\ [q EXCEPT !.sp = <<"user", 0>>].sp = <<"user", 0>>
    BY PointerFacts, Zenon DEF Regs
  <2>2. PICK r \in Regs : r = [f.regs EXCEPT !.sp = <<"user", 0>>] /\ r.sp = <<"user", 0>>
    BY <2>5, <2>6, Zenon
  <2>3. Fresh = [f EXCEPT !.regs = r, !.prev = <<TRUE, "U">>, !.sepc = "user", !.sie = FALSE]
    BY <2>1, <2>2, Zenon DEF Fresh, UserSetup, Blocks
  <2>4. <<TRUE, "U">> \in Status
    BY Zenon DEF Status
  <2> QED BY <2>2, <2>3, <2>4, PlaceWords, Zenon DEF Blocks
<1>4. \A e \in Executors : mem[<<e, 0>>] = Fresh
  BY <1>1, Zenon DEF Init
<1>5. \A th \in Threads : ctx[th] \in Saves /\ (th # RT => ctx[th] = NewExecutor(th) /\ NewExecutor(th) \in Saves)
  <2>1. NewRuntime \in Saves
    BY WordFacts, PointerFacts, Zenon DEF NewRuntime, Junk, Saves
  <2>2. \A th \in Threads : NewExecutor(th) \in Saves
    BY <1>1, WordFacts, PlaceWords, PointerFacts, Zenon DEF NewExecutor, Saves
  <2> QED BY <2>1, <2>2, Zenon DEF Init
<1>6. regs \in Regs /\ regs.sp = <<RT, 0>>
  BY <1>1, WordFacts, PointerFacts, Zenon DEF Init, Regs, JunkT, Junk
<1>7. Typed
  <2>1. mem \in [Addr -> Blocks]
    BY <1>3, DeadBlock, Zenon DEF Init
  <2>2. out \in [Threads -> Seq(Saves)]
    BY <1>5 DEF Init
  <2>3. ctx \in [Threads -> Saves]
    BY <1>5, Zenon DEF Init
  <2>4. expect \in [Threads -> Seq(Snaps)]
    BY DEF Init
  <2>5. called \in [Executors -> Regs] /\ user \in [Executors -> Regs]
    BY <1>3, DeadBlock, Zenon DEF Init
  <2>6. pc \in Words /\ sepc \in Words /\ scause \in Words /\ prev \in Status
    BY WordFacts, PlaceWords, Zenon DEF Init, Junk, Status
  <2> QED BY <1>1, <1>6, <2>1, <2>2, <2>3, <2>4, <2>5, <2>6, Zenon DEF Init, Typed
<1>8. Programs /\ Recorded
  <2>1. \A e \in Executors : user[e] = Fresh.regs
    BY Zenon DEF Init
  <2> QED BY <1>3, <1>4, <2>1, Zenon DEF Programs, Recorded
<1>9. \A th \in Threads : expect[th] = <<>> /\ Depth(th) = 0 /\ Calls(th) = {} /\ Stacked(th, 0) /\ Open(th, 0)
  BY DEF Init, Depth, Calls, Stacked, Open
<1>10. InCode(RT)
  <2>1. Place(RT, 0, regs, pc) /\ pc \notin InSwitch
    BY Zenon DEF Place, Init, InSwitch, Calling
  <2>2. Listed(RT, {})
    <3>1. out[RT] = <<>> /\ Calls(RT) = {}
      BY <1>1, <1>9, Zenon DEF Init
    <3> QED BY <3>1 DEF Listed, Descends
  <2>3. Stage(RT, 0, regs, pc) /\ Innermost(RT, regs, pc) = {}
    BY <2>1, Zenon DEF Stage, Innermost, InSwitch, Calling
  <2> QED BY <1>1, <1>6, <1>9, <2>1, <2>2, <2>3, Zenon DEF InCode, Init
<1>11. ASSUME NEW th \in Threads \ {RT} PROVE Suspended(th)
  <2>1. out[th] = <<ctx[th]>> /\ ctx[th] = [ra |-> "launch", sp |-> <<th, 0>>, s |-> th]
    BY Zenon DEF Init, NewExecutor
  <2>2. PICK x : x = ctx[th]
    BY Zenon
  <2>3. Descends(<<x>>, {x})
    BY DEF Descends
  <2>4. Listed(th, {x})
    BY <1>9, <2>1, <2>2, <2>3, Zenon DEF Listed
  <2>5. out[th] # <<>> /\ Head(out[th]) = ctx[th]
    BY <2>1
  <2>6. Returns(th, 0, x.ra, x.s) /\ x.sp = <<th, 0>>
    BY <2>1, <2>2 DEF Returns
  <2> QED BY <1>1, <1>9, <2>2, <2>4, <2>5, <2>6, Zenon DEF Suspended
<1>12. Seat(RT)
  BY <1>10, <1>11, Zenon DEF Seat, Runs, Others
<1> QED BY <1>1, <1>7, <1>8, <1>12, Zenon DEF Good

\* What a step finds.
LEMMA StepGood ==
  ASSUME IInv, Next PROVE fault = "none" /\ Good /\ Recorded
BY Zenon DEF IInv, Next, Interrupt, Exception, TrapEntry, FromUser, HandlerReturn, HandlerYield, YieldSwitch, HandlerResume,
      Exit, ExitSepc, ExitSie, ExitStatus, ExitRegs, Sret, RunUser, RunPush, RunScratch, Switch, SwitchSt, SwitchStS, SwitchLd, SwitchRa, CallRun,
      Launch, Breakpoint, SavedOff, TaskYield, Compute, RuntimeOn, RuntimeBack, RuntimeOff, RuntimeSwitch, At

\* The registers of the programs are in their Contexts after every step.
LEMMA NextRecorded ==
  ASSUME Good, Recorded, Next, fault' = "none" PROVE Recorded'
<1>1. CASE \/ \E c \in {"timer", "other"} : Interrupt(c)
           \/ Exception
  <2>1. PICK c : HardwareTrap(c)
    BY <1>1, Zenon DEF Interrupt, Exception
  <2>2. CASE priv = "U"
    BY <2>1, <2>2, ProgramStepRecorded, Zenon
  <2>3. CASE priv # "U"
    <3>1. pc # "trap_entry" /\ priv = "S"
      BY <1>1, <2>3, CanTrap, Zenon
    <3> QED BY <2>1, <3>1, OtherStepRecorded, Zenon DEF HardwareTrap
  <2> QED BY <2>2, <2>3, Zenon
<1>2. CASE TrapEntry
  BY <1>2, ProgramStepRecorded, Zenon
<1>3. CASE FromUser \/ HandlerReturn \/ ExitRegs
  BY <1>3, FrameStepRecorded, Zenon
<1>4. CASE RunPush \/ \E e \in Callers, setup, ints \in BOOLEAN : CallRun(e, setup, ints)
  BY <1>4, RunStepRecorded, Zenon
<1>5. CASE \/ HandlerYield \/ YieldSwitch \/ HandlerResume \/ ExitSepc \/ ExitSie \/ ExitStatus \/ Sret
           \/ RunScratch \/ SwitchSt \/ SwitchStS \/ SwitchLd \/ SwitchRa
  <2>1. UNCHANGED <<mem, user>> /\ pc # "trap_entry"
    BY <1>5, Zenon DEF HandlerYield, YieldSwitch, HandlerResume, ExitSepc, ExitSie, ExitStatus, Sret,
      RunScratch, SwitchSt, SwitchStS, SwitchLd, SwitchRa, At, ghosts
  <2> QED BY <2>1, OtherStepRecorded, Zenon
<1>6. CASE \/ Launch \/ Breakpoint \/ SavedOff \/ TaskYield \/ \E v \in Values : Compute(v)
           \/ RuntimeOn \/ RuntimeBack \/ RuntimeOff \/ \E e \in Executors : RuntimeSwitch(e)
  <2>1. UNCHANGED <<mem, user>> /\ pc # "trap_entry"
    BY <1>6, Zenon DEF Launch, Breakpoint, SavedOff, TaskYield, Compute, RuntimeOn, RuntimeBack, RuntimeOff, RuntimeSwitch,
      At, ghosts
  <2> QED BY <2>1, OtherStepRecorded, Zenon
<1> QED BY <1>1, <1>2, <1>3, <1>4, <1>5, <1>6, Zenon DEF Next, Exit, RunUser, Switch

\* Every step keeps the invariant, or is the one that loses a context.
LEMMA NextIInv == IInv /\ [Next]_vars => IInv'
<1> SUFFICES ASSUME IInv, [Next]_vars PROVE IInv'
  BY Zenon
<1>1. CASE UNCHANGED vars
  <2>1. UNCHANGED <<regs, pc, priv, on, prev, sie, sepc, scause, sscratch, mem, ctx, current, expect, out, called, user, fault>>
    BY <1>1, Zenon DEF vars
  <2>2. \A u : Calls(u)' = Calls(u) /\ Depth(u)' = Depth(u) /\ Top(u)' = Top(u) /\ \A k : Snap(u, k)' = Snap(u, k)
    BY <2>1, Zenon DEF Calls, Depth, Snap, Top
  <2>3. \A u, R : Listed(u, R)' <=> Listed(u, R)
    BY <2>1, <2>2, Zenon DEF Listed
  <2>4. \A u, d, r, p : Place(u, d, r, p)' <=> Place(u, d, r, p)
    BY <2>1 DEF Place
  <2>14. \A u, d, r, p : (Stage(u, d, r, p)' <=> Stage(u, d, r, p)) /\ Innermost(u, r, p)' = Innermost(u, r, p)
    <3>1. \A u, r, p : Innermost(u, r, p)' = Innermost(u, r, p)
      BY <2>1, Zenon DEF Innermost
    <3>2. \A u, d, r, p : Stage(u, d, r, p)' <=> Stage(u, d, r, p)
      BY <2>1 DEF Stage, Returns
    <3> QED BY <3>1, <3>2, Zenon
  <2>5. \A u, d : Open(u, d)' <=> Open(u, d)
    BY <2>2, Zenon DEF Open
  <2>6. \A u, k : (Framed(u, k)' <=> Framed(u, k)) /\ (Level(u, k)' <=> Level(u, k))
    BY <2>1, <2>2, <2>4, <2>5 DEF Framed, Level
  <2>7. \A u, d : Stacked(u, d)' <=> Stacked(u, d)
    BY <2>6, Zenon DEF Stacked
  <2>8. \A u : Suspended(u)' <=> Suspended(u)
    BY <2>1, <2>2, <2>3, <2>5, <2>7, Zenon DEF Suspended
  <2>9. \A u : (Interrupted(u)' <=> Interrupted(u)) /\ (TopPlace(u)' <=> TopPlace(u)) /\ (Called(u)' <=> Called(u))
    BY <2>1, <2>2, <2>3, <2>4, <2>5, <2>7, <2>14, Zenon DEF Interrupted, TopPlace, Called
  <2>10. \A u : InCode(u)' <=> InCode(u)
    BY <2>1, <2>2, <2>3, <2>4, <2>5, <2>7, <2>14, Zenon DEF InCode
  <2>11. \A u : (Trapped(u)' <=> Trapped(u)) /\ (Handling(u)' <=> Handling(u)) /\ (Leaving(u)' <=> Leaving(u))
    BY <2>1, <2>2, <2>9, Zenon DEF Trapped, Handling, Leaving
  <2>12. \A u : /\ Entering(u)' <=> Entering(u)
                /\ Starting(u)' <=> Starting(u)
                /\ InProgram(u)' <=> InProgram(u)
                /\ ProgramTrapped(u)' <=> ProgramTrapped(u)
                /\ Returning(u)' <=> Returning(u)
    BY <2>1, <2>9, Zenon DEF Entering, Starting, InProgram, ProgramTrapped, Returning
  <2>13. \A u : Seat(u)' <=> Seat(u)
    BY <2>1, <2>8, <2>10, <2>11, <2>12, Zenon DEF Seat, Runs, Others
  <2> QED BY <2>1, <2>13, Zenon DEF IInv, Good, Recorded, Typed, Programs
<1>2. CASE Next /\ fault' = "none"
  <2>1. Good /\ Recorded
    BY <1>2, StepGood, Zenon
  <2>2. Good'
    BY <1>2, <2>1, InterruptGood, ExceptionGood, TrapEntryGood, FromUserGood, HandlerReturnGood, HandlerYieldGood,
      YieldSwitchGood, HandlerResumeGood, ExitStepGood, ExitRegsGood, SretGood, RunPushGood, RunScratchGood, SwitchStGood,
      SwitchLdGood, SwitchRaGood, CallRunGood, LaunchGood, MoveGood, TaskYieldGood, ComputeGood, RuntimeGood, RuntimeSwitchGood, Zenon
    DEF Next, Exit, RunUser, Switch
  <2>3. Recorded'
    BY <1>2, <2>1, NextRecorded, Zenon
  <2> QED BY <2>2, <2>3, Zenon DEF IInv
<1> QED BY <1>1, <1>2, Zenon DEF IInv

\* As long as no context has been lost, the memory of every thread agrees with
\* what its interrupted code had, and what a switch or run_user is to restore.
THEOREM TrapInvariant == Spec => []IInv
<1>1. Init => IInv
  BY InitIInv, Zenon
<1>2. IInv /\ [Next]_vars => IInv'
  BY NextIInv, Zenon
<1> QED BY <1>1, <1>2, PTL DEF Spec

\* What a step from a place can be.
LEMMA StepFrom ==
  ASSUME Next
  PROVE  LET trap == Exception \/ \E c \in {"timer", "other"} : Interrupt(c)
         IN  /\ pc = "sret" => Sret \/ trap
             /\ pc = "switch_ra" => SwitchRa \/ trap
             /\ pc = "from_user" => FromUser \/ trap
BY Zenon DEF Next, TrapEntry, FromUser, HandlerReturn, HandlerYield, YieldSwitch, HandlerResume,
      Exit, ExitSepc, ExitSie, ExitStatus, ExitRegs, Sret, RunUser, RunPush, RunScratch, Switch, SwitchSt, SwitchStS, SwitchLd, SwitchRa, CallRun,
      Launch, Breakpoint, SavedOff, TaskYield, Compute, RuntimeOn, RuntimeBack, RuntimeOff, RuntimeSwitch, At

\* The program is interrupted nowhere else.
LEMMA UserAt == ASSUME Good, priv = "U" PROVE pc = "user"
BY Zenon DEF Good, Seat, Runs, InCode, Trapped, Handling, Leaving, Entering, Starting, InProgram, ProgramTrapped, Returning, Interrupted

\* sret resumes what was interrupted, with all its registers and interrupt
\* enables, however deep the traps are nested, whatever the handlers switched
\* to; and enters a program with what it had when it trapped.
THEOREM TrapsTransparent == Spec => TrapTransparent
<1> DEFINE P == pc = "sret" =>
       IF prev[2] = "S"
       THEN LET x == Head(expect[Self])
            IN  /\ expect[Self] # <<>> /\ regs' = x.regs
                /\ pc' = x.pc
                /\ on' = x.on /\ sie' = x.sie /\ sscratch' = NoAddr
       ELSE /\ pc' = "user" /\ sscratch # NoAddr /\ regs' = user[sscratch[1]]
<1>1. ASSUME IInv, Next PROVE P
  <2> SUFFICES ASSUME pc = "sret" PROVE P
    BY Zenon
  <2>1. Good
    BY <1>1, StepGood, Zenon
  <2>2. PICK th \in Threads : Seat(th)
    BY <2>1, Zenon DEF Good
  <2>3. Sret
    BY <1>1, <2>1, StepFrom, CanTrap, UserAt, Zenon
  <2>4. /\ pc' = sepc /\ on' = prev[1] /\ UNCHANGED <<regs, sie, sscratch>>
    BY <2>3, Zenon DEF Sret
  <2>5. CASE Leaving(th)
    <3>1. Depth(th) \in Nat \ {0} /\ Interrupted(th) /\ regs = Top(th).regs /\ Top(th).regs.sp = <<th, Depth(th) - 1>>
      <4>1. /\ Depth(th) \in 1 .. MaxDepth /\ Interrupted(th) /\ regs = Top(th).regs
            /\ Top(th).regs.sp = <<th, Depth(th) - 1>>
        BY <2>5, Zenon DEF Leaving, Interrupted
      <4> QED BY <4>1, DepthAssumption
    <3>2. Self = th
      BY <3>1 DEF Self
    <3>3. expect[th] # <<>> /\ Head(expect[th]) = Top(th)
      <4>1. PICK e \in Seq(Snaps) : e = expect[th]
        BY <2>1, Zenon DEF Good, Typed
      <4>2. Len(e) \in Nat \ {0} /\ Top(th) = e[Len(e) - (Len(e) - 1)]
        BY <3>1, <4>1, Zenon DEF Top, Snap, Inner, Depth
      <4>3. e # <<>> /\ Head(e) = Top(th)
        BY <4>2
      <4> QED BY <4>1, <4>3, Zenon
    <3>4. sscratch = NoAddr /\ sepc = Top(th).pc /\ prev = <<Top(th).on, "S">> /\ sie = Top(th).sie
      BY <2>5, Zenon DEF Leaving
    <3> QED BY <2>4, <3>1, <3>2, <3>3, <3>4, Zenon
  <2>6. CASE Starting(th)
    <3>1. /\ prev[2] = "U" /\ sepc = "user" /\ sscratch = <<th, 0>> /\ regs = user[th]
      BY <2>6, Zenon DEF Starting
    <3>2. sscratch # NoAddr /\ sscratch[1] = th
      BY <3>1, PointerFacts, DepthAssumption
    <3> QED BY <2>4, <3>1, <3>2, Zenon
  <2> QED BY <2>2, <2>5, <2>6, Phases, Zenon DEF Seat
<1>2. IInv /\ [Next]_vars => [P]_vars
  BY <1>1, Zenon
<1> QED BY <1>2, TrapInvariant, PTL DEF Spec, TrapTransparent

\* switch_context resumes a thread with the stack, the callee-saved registers
\* and the place it had when it called it, wherever it was interrupted, before
\* sp is loaded and after.
THEOREM SwitchesTransparent == Spec => SwitchTransparent
<1> DEFINE P == pc = "switch_ra" /\ pc' # "trap_entry" =>
       LET x == Head(out[regs.t[2]])
       IN  /\ out[regs.t[2]] # <<>>
           /\ pc' = x.ra /\ regs'.ra = x.ra /\ regs'.sp = x.sp /\ regs'.s = x.s
<1>1. ASSUME IInv, Next PROVE P
  <2> SUFFICES ASSUME pc = "switch_ra", pc' # "trap_entry" PROVE P
    BY Zenon
  <2>1. Good /\ Typed
    BY <1>1, StepGood, Zenon DEF Good
  <2>2. PICK th \in Threads : Seat(th)
    BY <2>1, Zenon DEF Good
  <2>3. SwitchRa
    BY <1>1, StepFrom, Zenon DEF Exception, Interrupt, HardwareTrap
  <2>4. InCode(th)
    BY <2>2, InCodeAt, Zenon DEF CodePlaces
  <2>5. PICK x \in Saves : /\ x = ctx[th] /\ x = Head(out[th]) /\ out[th] # <<>> /\ regs.t[2] = th
                           /\ x.sp = regs.sp /\ x.s = regs.s
    BY <2>1, <2>4, Landing, Zenon
  <2>6. regs' = [regs EXCEPT !.ra = x.ra, !.t = JunkT] /\ pc' = x.ra
    BY <2>3, <2>5, Zenon DEF SwitchRa, Goto
  <2>7. regs'.sp = x.sp /\ regs'.s = x.s /\ regs'.ra = x.ra
    BY <2>1, <2>5, <2>6, Zenon DEF Typed, Regs
  <2> QED BY <2>5, <2>6, <2>7, Zenon
<1>2. IInv /\ [Next]_vars => [P]_vars
  BY <1>1, Zenon
<1> QED BY <1>2, TrapInvariant, PTL DEF Spec, SwitchTransparent

\* run_user returns with the stack, the callee-saved registers, gp and tp of
\* its caller, with the registers of the program in the Context, and with
\* interrupts off and the sie of the program.
THEOREM RunsTransparent == Spec => RunTransparent
<1> DEFINE P == pc = "from_user" =>
       LET e == Self
           x == called[e]
       IN  /\ pc' = "code" /\ regs'.sp = x.sp /\ regs'.s = x.s /\ regs'.gt = x.gt
           /\ mem'[<<e, 0>>].regs = user[e] /\ mem'[<<e, 0>>].sepc = "user"
           /\ ~ on' /\ sie' = mem'[<<e, 0>>].sie
<1>1. ASSUME IInv, Next PROVE P
  <2> SUFFICES ASSUME pc = "from_user" PROVE P
    BY Zenon
  <2>1. Good /\ Typed /\ Programs
    BY <1>1, StepGood, Zenon DEF Good
  <2>2. PICK th \in Threads : Seat(th)
    BY <2>1, Zenon DEF Good
  <2>3. FromUser
    BY <1>1, <2>1, StepFrom, CanTrap, UserAt, Zenon
  <2>4. Returning(th)
    BY <2>2, Phases, Zenon DEF Seat
  <2>5. /\ th \in Executors /\ regs.sp = <<th, 0>> /\ mem[regs.sp].zero = <<th, 1>> /\ Above(<<th, 1>>) = <<th, 0>>
        /\ <<th, 0>> \in Addr /\ <<th, 1>> \in Addr /\ <<th, 1>> # <<th, 0>>
    BY <2>1, <2>4, ReturnsTo, Zenon
  <2>6. Self = th
    BY <2>5 DEF Self
  <2>7. PICK kept \in Regs : /\ kept = mem[<<th, 1>>].regs /\ kept.ra = "code" /\ called[th].sp = <<th, 0>>
                             /\ kept.s = called[th].s /\ kept.gt = called[th].gt
    BY <2>1, <2>4, ReturnsTo, Zenon DEF Typed, Blocks
  <2>8. /\ regs' = [regs EXCEPT !.sp = <<th, 0>>, !.s = kept.s, !.ra = kept.ra, !.gt = kept.gt]
        /\ mem' = [mem EXCEPT ![<<th, 1>>] = Dead] /\ pc' = "code"
    BY <2>3, <2>5, <2>7, Zenon DEF FromUser, Goto
  <2>9. regs'.sp = called[th].sp /\ regs'.s = called[th].s /\ regs'.gt = called[th].gt
    BY <2>1, <2>7, <2>8, Zenon DEF Typed, Regs
  <2>10. mem'[<<th, 0>>] = mem[<<th, 0>>]
    BY <2>1, <2>5, <2>8, Zenon DEF Typed
  <2>11. mem[<<th, 0>>].regs = user[th] /\ mem[<<th, 0>>].sepc = "user"
    BY <2>1, <2>4, <2>5, Zenon DEF Returning, Programs
  <2>12. on' = FALSE /\ sie' = mem[<<th, 0>>].sie
    BY <2>3, <2>4, Zenon DEF FromUser, Returning
  <2> QED BY <2>6, <2>8, <2>9, <2>10, <2>11, <2>12, Zenon
<1>2. IInv /\ [Next]_vars => [P]_vars
  BY <1>1, Zenon
<1> QED BY <1>2, TrapInvariant, PTL DEF Spec, RunTransparent

=============================================================================
