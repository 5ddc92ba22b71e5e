------------------------------- MODULE VMProofs --------------------------------
(***************************************************************************)
(* Proofs about the bytecode verifier and the virtual machine, for every   *)
(* chunk and every set of programs.                                        *)
(*                                                                         *)
(* First the verifier: its worklist settles one instruction per step, so   *)
(* that as many steps as there are instructions settle all that are        *)
(* reached, in whatever order they are taken (VerifierSound).  Then the    *)
(* machine: a running frame has the height that the verifier found for its *)
(* instruction, a waiting one what is left for the result (FramesFit), and *)
(* every value, cell and captured place refers to what exists (Typed);     *)
(* one lemma for each kind of instruction, and the steps common to many of *)
(* them (StateStep, FrameStep, StackStep) before those.                    *)
(***************************************************************************)
EXTENDS VM, FiniteSetTheorems, SequenceTheorems, WellFoundedInduction, TLAPS

(* A set of natural numbers has a smallest one. *)
LEMMA SmallestNat ==
    ASSUME NEW T \in SUBSET Nat, T # {}
    PROVE  \E m \in T : \A n \in T : ~(n < m)
<1> DEFINE Less == {p \in Nat \X Nat : p[1] < p[2]}
<1>1. IsWellFoundedOn(Less, Nat)
  BY NatLessThanWellFounded, Zenon DEF OpToRel
<1>2. PICK m \in T : \A n \in T : ~(<<n, m>> \in Less)
  <2> HIDE DEF Less
  <2> QED BY <1>1, WFMin
<1> QED BY <1>2

-----------------------------------------------------------------------------
(* The verifier's worklist. *)

FlowBody(code, steps, g) ==
    [n \in 0..steps |-> IF n = 0 THEN FlowStart ELSE FlowStep(code, g[n - 1])]
FlowFcn(code, steps) == CHOOSE g : g = FlowBody(code, steps, g)

LEMMA FlowAfterIs ==
    ASSUME NEW code, NEW steps
    PROVE  FlowAfter(code, steps) = FlowFcn(code, steps)[steps]
BY DEF FlowAfter, FlowFcn, FlowBody

(* The recursion of the worklist has a solution for any number of steps. *)
LEMMA FlowExists ==
    ASSUME NEW code, NEW steps \in Nat
    PROVE  FlowFcn(code, steps) = FlowBody(code, steps, FlowFcn(code, steps))
<1> DEFINE Solved(n) == \E g : g = FlowBody(code, n, g)
           T == {n \in Nat : ~Solved(n)}
<1>1. Solved(steps)
  <2>1. SUFFICES ASSUME T # {} PROVE FALSE
    OBVIOUS
  <2>2. PICK m \in T : \A n \in T : ~(n < m)
    <3> HIDE DEF T
    <3>1. T \in SUBSET Nat
      BY DEF T
    <3> QED BY <2>1, <3>1, SmallestNat
  <2>3. CASE m = 0
    <3> DEFINE g == [n \in 0..0 |-> FlowStart]
    <3>1. g = FlowBody(code, 0, g)
      BY DEF FlowBody
    <3> QED BY <2>2, <2>3, <3>1
  <2>4. CASE m # 0
    <3>1. m - 1 \in Nat /\ m \in Nat /\ Solved(m - 1)
      BY <2>2, <2>4
    <3>2. PICK h : h = FlowBody(code, m - 1, h)
      BY <3>1
    <3> DEFINE g == [n \in 0..m |-> IF n = m THEN FlowStep(code, h[m - 1]) ELSE h[n]]
    <3>3. ASSUME NEW n \in 0..m PROVE g[n] = FlowBody(code, m, g)[n]
      <4>1. CASE n = 0
        BY <2>4, <3>1, <3>2, <4>1 DEF FlowBody
      <4>2. CASE n = m
        <5>1. g[m - 1] = h[m - 1]
          BY <3>1
        <5> QED BY <2>4, <3>1, <4>2, <5>1 DEF FlowBody
      <4>3. CASE n # 0 /\ n # m
        <5>1. n \in 0..(m - 1) /\ n - 1 \in 0..m /\ n - 1 # m
          BY <3>1, <4>3
        <5>2. g[n - 1] = h[n - 1] /\ g[n] = h[n]
          BY <4>3, <5>1
        <5>3. h[n] = FlowStep(code, h[n - 1])
          BY <3>2, <4>3, <5>1 DEF FlowBody
        <5>4. FlowBody(code, m, g)[n] = FlowStep(code, g[n - 1])
          <6> HIDE DEF g
          <6> QED BY <4>3 DEF FlowBody
        <5> HIDE DEF g
        <5> QED BY <5>2, <5>3, <5>4
      <4> QED BY <4>1, <4>2, <4>3
    <3>4. g = FlowBody(code, m, g)
      <4>1. g = [n \in 0..m |-> g[n]]
        OBVIOUS
      <4>2. FlowBody(code, m, g) = [n \in 0..m |-> FlowBody(code, m, g)[n]]
        <5> HIDE DEF g
        <5> QED BY DEF FlowBody
      <4> HIDE DEF g
      <4> QED BY <3>3, <4>1, <4>2
    <3> HIDE DEF g
    <3> QED BY <2>2, <3>4
  <2> QED BY <2>3, <2>4
<1> QED BY <1>1 DEF FlowFcn

-----------------------------------------------------------------------------
(* Code whose operands are in range, as the verifier makes sure. *)

InRange(code) ==
    /\ code \in Seq(Range(code)) /\ code # <<>>
    /\ \A i \in DOMAIN code :
          /\ code[i][1] \in Opcodes
          /\ code[i][1] \in {"CALL", "MAKE_ARRAY", "SELF_TAIL_CALL"} => code[i][2] \in Nat
          /\ code[i][1] \in ConditionalJumps \cup {"JUMP"} =>
               code[i][2] \in Int /\ i + code[i][2] \in 0..Len(code)
          /\ code[i][1] \in {"GOTO", "BRANCH"} => code[i][2] \in 0..Len(code)
          /\ code[i][1] = "BRANCH" => code[i][3] \in 0..Len(code)

(* The table of the verifier, by kind of instruction. *)
LEMMA Effects ==
    ASSUME NEW ins
    PROVE  /\ ins[1] \in Pushes => StackEffect(ins) = <<0, 1>>
           /\ ins[1] \in Keeps => StackEffect(ins) = <<1, 1>>
           /\ ins[1] \in Combines => StackEffect(ins) = <<2, 1>>
           /\ ins[1] \in ConditionalJumps \cup {"POP", "THROW", "RETURN"} => StackEffect(ins) = <<1, 0>>
           /\ ins[1] \in {"DUP", "MAKE_ITERATOR_KV"} => StackEffect(ins) = <<1, 2>>
           /\ ins[1] = "SET_INDEX" => StackEffect(ins) = <<3, 1>>
           /\ ins[1] \in {"CLOSE_UPVALUES", "JUMP"} => StackEffect(ins) = <<0, 0>>
           /\ ins[1] = "MAKE_ARRAY" => StackEffect(ins) = <<ins[2], 1>>
           /\ ins[1] = "CALL" => StackEffect(ins) = <<ins[2] + 1, 1>>
           /\ ins[1] = "SELF_TAIL_CALL" => StackEffect(ins) = <<ins[2], 0>>
           /\ ins[1] \in {"GOTO", "STORE_SLOT", "COPY_SLOT"} => StackEffect(ins) = <<0, 0>>
           /\ ins[1] = "BRANCH" => StackEffect(ins) = <<1, 0>>
           /\ ins[1] = "IS_NONE" => StackEffect(ins) = <<1, 1>>
           /\ ins[1] = "STR_CONCAT_INPLACE" => StackEffect(ins) = <<2, 1>>
<1>1. ins[1] \in Pushes => StackEffect(ins) = <<0, 1>>
  BY Zenon DEF StackEffect, Pushes, Keeps, Combines, ConditionalJumps
<1>2. ins[1] \in Keeps => StackEffect(ins) = <<1, 1>>
  BY Zenon DEF StackEffect, Pushes, Keeps, Combines, ConditionalJumps
<1>3. ins[1] \in Combines => StackEffect(ins) = <<2, 1>>
  BY Zenon DEF StackEffect, Pushes, Keeps, Combines, ConditionalJumps
<1>4. ins[1] \in ConditionalJumps \cup {"POP", "THROW", "RETURN"} => StackEffect(ins) = <<1, 0>>
  BY Zenon DEF StackEffect, Pushes, Keeps, Combines, ConditionalJumps
<1>5. ins[1] \in {"DUP", "MAKE_ITERATOR_KV"} => StackEffect(ins) = <<1, 2>>
  BY Zenon DEF StackEffect, Pushes, Keeps, Combines, ConditionalJumps
<1>6. ins[1] = "SET_INDEX" => StackEffect(ins) = <<3, 1>>
  BY Zenon DEF StackEffect, Pushes, Keeps, Combines, ConditionalJumps
<1>7. ins[1] \in {"CLOSE_UPVALUES", "JUMP"} => StackEffect(ins) = <<0, 0>>
  BY Zenon DEF StackEffect, Pushes, Keeps, Combines, ConditionalJumps
<1>8. ins[1] = "MAKE_ARRAY" => StackEffect(ins) = <<ins[2], 1>>
  BY Zenon DEF StackEffect, Pushes, Keeps, Combines, ConditionalJumps
<1>9. ins[1] = "CALL" => StackEffect(ins) = <<ins[2] + 1, 1>>
  BY Zenon DEF StackEffect, Pushes, Keeps, Combines, ConditionalJumps
<1>10. ins[1] = "SELF_TAIL_CALL" => StackEffect(ins) = <<ins[2], 0>>
  BY Zenon DEF StackEffect, Pushes, Keeps, Combines, ConditionalJumps
<1>11. ins[1] \in {"GOTO", "STORE_SLOT", "COPY_SLOT"} => StackEffect(ins) = <<0, 0>>
  BY Zenon DEF StackEffect, Pushes, Keeps, Combines, ConditionalJumps
<1>12. ins[1] = "BRANCH" => StackEffect(ins) = <<1, 0>>
  BY Zenon DEF StackEffect, Pushes, Keeps, Combines, ConditionalJumps
<1>13. ins[1] = "IS_NONE" => StackEffect(ins) = <<1, 1>>
  BY Zenon DEF StackEffect, Pushes, Keeps, Combines, ConditionalJumps
<1>14. ins[1] = "STR_CONCAT_INPLACE" => StackEffect(ins) = <<2, 1>>
  BY Zenon DEF StackEffect, Pushes, Keeps, Combines, ConditionalJumps
<1> QED BY <1>1, <1>2, <1>3, <1>4, <1>5, <1>6, <1>7, <1>8, <1>9, <1>10, <1>11, <1>12, <1>13, <1>14

LEMMA EffectIsNat ==
    ASSUME NEW ins, ins[1] \in Opcodes \ {"ITER_NEXT_KV"},
           ins[1] \in {"CALL", "MAKE_ARRAY", "SELF_TAIL_CALL"} => ins[2] \in Nat
    PROVE  StackEffect(ins)[1] \in Nat /\ StackEffect(ins)[2] \in Nat
BY Effects DEF Opcodes

(* Where the verifier goes on, by kind of instruction. *)
LEMMA NextPlaces ==
    ASSUME NEW code, NEW pc, NEW height
    PROVE  LET ins == code[pc + 1]
               after == height - StackEffect(ins)[1] + StackEffect(ins)[2]
           IN /\ ins[1] \in {"RETURN", "THROW", "SELF_TAIL_CALL"} => Successors(code, pc, height) = {}
              /\ ins[1] = "ITER_NEXT_KV" =>
                   Successors(code, pc, height) = {<<pc + 2 + code[pc + 2][2], height>>, <<pc + 2, height + 2>>}
              /\ ins[1] = "JUMP" => Successors(code, pc, height) = {<<pc + 1 + ins[2], after>>}
              /\ ins[1] = "GOTO" => Successors(code, pc, height) = {<<ins[2], after>>}
              /\ ins[1] = "BRANCH" =>
                   Successors(code, pc, height) = {<<ins[2], after>>, <<ins[3], after>>}
              /\ ins[1] \in ConditionalJumps =>
                   Successors(code, pc, height) = {<<pc + 1 + ins[2], after>>, <<pc + 1, after>>}
              /\ ins[1] \notin {"RETURN", "THROW", "SELF_TAIL_CALL", "ITER_NEXT_KV", "JUMP", "GOTO", "BRANCH"}
                               \cup ConditionalJumps =>
                   Successors(code, pc, height) = {<<pc + 1, after>>}
<1> DEFINE ins == code[pc + 1]
           after == height - StackEffect(ins)[1] + StackEffect(ins)[2]
<1>1. ins[1] \in {"RETURN", "THROW", "SELF_TAIL_CALL"} => Successors(code, pc, height) = {}
  BY Zenon DEF Successors, ConditionalJumps
<1>2. ins[1] = "ITER_NEXT_KV" => Successors(code, pc, height) = {<<pc + 2 + code[pc + 2][2], height>>, <<pc + 2, height + 2>>}
  BY Zenon DEF Successors, ConditionalJumps
<1>3. ins[1] = "JUMP" => Successors(code, pc, height) = {<<pc + 1 + ins[2], after>>}
  BY Zenon DEF Successors, ConditionalJumps
<1>4. ins[1] = "GOTO" => Successors(code, pc, height) = {<<ins[2], after>>}
  BY Zenon DEF Successors, ConditionalJumps
<1>5. ins[1] = "BRANCH" => Successors(code, pc, height) = {<<ins[2], after>>, <<ins[3], after>>}
  BY Zenon DEF Successors, ConditionalJumps
<1>6. ins[1] \in ConditionalJumps => Successors(code, pc, height) = {<<pc + 1 + ins[2], after>>, <<pc + 1, after>>}
  BY Zenon DEF Successors, ConditionalJumps
<1>7. ins[1] \notin {"RETURN", "THROW", "SELF_TAIL_CALL", "ITER_NEXT_KV", "JUMP", "GOTO", "BRANCH"}
                        \cup ConditionalJumps => Successors(code, pc, height) = {<<pc + 1, after>>}
  BY Zenon DEF Successors, ConditionalJumps
<1> QED BY <1>1, <1>2, <1>3, <1>4, <1>5, <1>6, <1>7

LEMMA InCode ==
    ASSUME NEW code, InRange(code), NEW pc \in 0..(Len(code) - 1)
    PROVE  Len(code) \in Nat /\ DOMAIN code = 1..Len(code) /\ pc + 1 \in DOMAIN code
BY LenProperties DEF InRange

(* An instruction that does not underflow leads to places in the code or behind it, with a   *)
(* height that is a number.                                                                  *)
LEMMA SuccessorsInCode ==
    ASSUME NEW code, InRange(code), NEW pc \in 0..(Len(code) - 1), NEW height \in Nat,
           ~Underflows(code, pc, height), NEW t \in Successors(code, pc, height)
    PROVE  t = <<t[1], t[2]>> /\ t[1] \in 0..Len(code) /\ t[2] \in Nat
<1> DEFINE ins == code[pc + 1]
           after == height - StackEffect(ins)[1] + StackEffect(ins)[2]
<1>1. Len(code) \in Nat /\ DOMAIN code = 1..Len(code) /\ pc + 1 \in DOMAIN code /\ pc \in Nat
  BY InCode
<1>2. CASE ins[1] = "ITER_NEXT_KV"
  <2>1. pc + 2 \in DOMAIN code /\ code[pc + 2][1] \in ConditionalJumps
    BY <1>1, <1>2 DEF Underflows
  <2>2. code[pc + 2][2] \in Int /\ pc + 2 + code[pc + 2][2] \in 0..Len(code)
    BY <2>1 DEF InRange
  <2>3. t \in {<<pc + 2 + code[pc + 2][2], height>>, <<pc + 2, height + 2>>}
    BY <1>2, NextPlaces
  <2> QED BY <1>1, <2>1, <2>2, <2>3
<1>3. CASE ins[1] # "ITER_NEXT_KV"
  <2>1. StackEffect(ins)[1] \in Nat /\ StackEffect(ins)[2] \in Nat
    BY <1>1, <1>3, EffectIsNat DEF InRange
  <2>2. after \in Nat
    BY <1>3, <2>1 DEF Underflows
  <2>3. CASE ins[1] \in {"RETURN", "THROW", "SELF_TAIL_CALL"}
    BY <2>3, NextPlaces
  <2>4. CASE ins[1] = "JUMP"
    <3>1. t = <<pc + 1 + ins[2], after>>
      BY <2>4, NextPlaces
    <3> QED BY <1>1, <2>2, <2>4, <3>1 DEF InRange
  <2>5. CASE ins[1] \in {"GOTO", "BRANCH"}
    <3>1. t \in {<<ins[2], after>>, <<ins[3], after>>} /\ (ins[1] = "GOTO" => t = <<ins[2], after>>)
      BY <2>5, NextPlaces
    <3>2. ins[2] \in 0..Len(code) /\ (ins[1] = "BRANCH" => ins[3] \in 0..Len(code))
      BY <1>1, <2>5 DEF InRange
    <3> HIDE DEF ins, after
    <3> QED BY <2>2, <2>5, <3>1, <3>2
  <2>6. CASE ins[1] \in ConditionalJumps
    <3>1. t \in {<<pc + 1 + ins[2], after>>, <<pc + 1, after>>}
      BY <2>6, NextPlaces
    <3>2. pc + 1 + ins[2] \in 0..Len(code)
      BY <1>1, <2>6 DEF InRange
    <3> HIDE DEF ins, after
    <3> QED BY <1>1, <2>2, <3>1, <3>2
  <2>7. CASE ins[1] \notin {"RETURN", "THROW", "SELF_TAIL_CALL", "JUMP", "GOTO", "BRANCH"}
                           \cup ConditionalJumps
    <3>1. t = <<pc + 1, after>>
      BY <1>3, <2>7, NextPlaces
    <3> HIDE DEF ins, after
    <3> QED BY <1>1, <2>2, <3>1
  <2> QED BY <2>3, <2>4, <2>5, <2>6, <2>7
<1> QED BY <1>2, <1>3

-----------------------------------------------------------------------------
(* What the worklist maintains: an instruction that is done does not underflow, and its      *)
(* successors have the heights it gives them.                                                *)

Settled(code, heights, pc) ==
    /\ ~Underflows(code, pc, heights[pc])
    /\ \A t \in Successors(code, pc, heights[pc]) :
          t[1] # Len(code) => t[1] \in DOMAIN heights /\ heights[t[1]] = t[2]

HeightsOver(code, heights) ==
    /\ DOMAIN heights \subseteq 0..(Len(code) - 1)
    /\ 0 \in DOMAIN heights /\ heights[0] = 0
    /\ \A pc \in DOMAIN heights : heights[pc] \in Nat

Done(flow) == DOMAIN flow.heights \ flow.work

FlowInv(code, flow) ==
    /\ HeightsOver(code, flow.heights)
    /\ flow.work \subseteq DOMAIN flow.heights
    /\ \A pc \in Done(flow) : Settled(code, flow.heights, pc)

LEMMA FlowStartInv ==
    ASSUME NEW code, InRange(code)
    PROVE  FlowInv(code, FlowStart) /\ FlowStart.ok /\ Done(FlowStart) = {}
<1>1. 0 \in 0..(Len(code) - 1)
  BY EmptySeq DEF InRange
<1> QED BY <1>1 DEF FlowInv, FlowStart, HeightsOver, Done

(* One step settles one instruction more, and keeps what was found. *)
LEMMA FlowStepInv ==
    ASSUME NEW code, InRange(code), NEW flow, FlowInv(code, flow), flow.ok, flow.work # {},
           FlowStep(code, flow).ok
    PROVE  /\ FlowInv(code, FlowStep(code, flow))
           /\ \E pc \in flow.work : Done(FlowStep(code, flow)) = Done(flow) \cup {pc}
<1> DEFINE heights == flow.heights
           pc == CHOOSE q \in flow.work : TRUE
           next == {t \in Successors(code, pc, heights[pc]) : t[1] # Len(code)}
           targets == {t[1] : t \in next}
           HeightAt(q) == (CHOOSE t \in next : t[1] = q)[2]
           after == FlowStep(code, flow)
           all == [q \in DOMAIN heights \cup targets |->
                     IF q \in DOMAIN heights THEN heights[q] ELSE HeightAt(q)]
<1>1. pc \in flow.work /\ pc \in DOMAIN heights /\ pc \in 0..(Len(code) - 1) /\ heights[pc] \in Nat
  BY DEF FlowInv, HeightsOver
<1>2. /\ ~Underflows(code, pc, heights[pc])
      /\ \A t \in next : t[1] \in DOMAIN heights => heights[t[1]] = t[2]
      /\ \A t, u \in next : t[1] = u[1] => t[2] = u[2]
      /\ after = [work |-> (flow.work \ {pc}) \cup (targets \ DOMAIN heights),
                  heights |-> all, ok |-> TRUE]
  <2> DEFINE bad == \/ Underflows(code, pc, heights[pc])
                    \/ \E t \in next : t[1] \in DOMAIN heights /\ heights[t[1]] # t[2]
                    \/ \E t, u \in next : t[1] = u[1] /\ t[2] # u[2]
             new == [work |-> (flow.work \ {pc}) \cup (targets \ DOMAIN heights),
                     heights |-> all, ok |-> TRUE]
             failed == [work |-> flow.work, heights |-> heights, ok |-> FALSE]
  <2>1. FlowStep(code, flow) = IF bad THEN failed ELSE new
    BY Zenon DEF FlowStep
  <2>2. failed.ok = FALSE
    OBVIOUS
  <2> HIDE DEF new, failed
  <2>3. ~bad /\ after = new
    BY <2>1, <2>2
  <2> QED BY <2>3 DEF new
<1>3. \A t \in next : t[1] \in 0..(Len(code) - 1) /\ t[2] \in Nat
  <2>1. Len(code) \in Nat
    BY <1>1, InCode
  <2> QED BY <1>1, <1>2, <2>1, SuccessorsInCode
<1> HIDE DEF pc, after
<1>4. \A t \in next : t[1] \in targets /\ HeightAt(t[1]) = t[2]
  BY <1>2
<1>5. \A q \in targets : q \in 0..(Len(code) - 1) /\ HeightAt(q) \in Nat
  BY <1>3, <1>4
<1> HIDE DEF next, targets, HeightAt
<1>6. /\ DOMAIN all = DOMAIN heights \cup targets
      /\ \A q \in DOMAIN heights : all[q] = heights[q]
      /\ \A q \in targets \ DOMAIN heights : all[q] = HeightAt(q)
  OBVIOUS
<1> HIDE DEF all
<1>7. HeightsOver(code, all)
  BY <1>5, <1>6 DEF FlowInv, HeightsOver
<1>8. Done(after) = Done(flow) \cup {pc}
  BY <1>1, <1>2, <1>6 DEF Done, FlowInv
<1>9. Settled(code, all, pc)
  <2>1. all[pc] = heights[pc]
    BY <1>1, <1>6
  <2>2. ASSUME NEW t \in Successors(code, pc, heights[pc]), t[1] # Len(code)
        PROVE  t[1] \in DOMAIN all /\ all[t[1]] = t[2]
    <3>1. t \in next
      BY <2>2 DEF next
    <3> QED BY <1>2, <1>4, <1>6, <3>1
  <2> QED BY <1>2, <2>1, <2>2 DEF Settled
<1>10. ASSUME NEW q \in Done(flow) PROVE Settled(code, all, q)
  <2>1. q \in DOMAIN heights /\ all[q] = heights[q] /\ Settled(code, heights, q)
    BY <1>6 DEF Done, FlowInv
  <2> QED BY <1>6, <2>1 DEF Settled
<1>11. after.work \subseteq DOMAIN all /\ after.heights = all
  BY <1>2, <1>6 DEF FlowInv
<1> QED BY <1>1, <1>7, <1>8, <1>9, <1>10, <1>11 DEF FlowInv, after

(* After every number of steps the work is done, or as many instructions are as there were   *)
(* steps.                                                                                    *)
LEMMA FlowKeepsInv ==
    ASSUME NEW code, InRange(code), NEW steps \in Nat, NEW n \in 0..steps, FlowFcn(code, steps)[n].ok
    PROVE  LET flow == FlowFcn(code, steps)[n]
           IN /\ FlowInv(code, flow)
              /\ flow.work = {} \/ (IsFiniteSet(Done(flow)) /\ Cardinality(Done(flow)) = n)
<1> DEFINE flow == FlowFcn(code, steps)
           Good(k) == /\ FlowInv(code, flow[k])
                      /\ flow[k].work = {} \/ (IsFiniteSet(Done(flow[k])) /\ Cardinality(Done(flow[k])) = k)
           T == {k \in 0..steps : flow[k].ok /\ ~Good(k)}
<1>1. flow[0] = FlowStart /\ \A k \in 1..steps : flow[k] = FlowStep(code, flow[k - 1])
  <2>1. flow = FlowBody(code, steps, flow)
    BY FlowExists
  <2>2. \A g : g = FlowBody(code, steps, g) =>
                g[0] = FlowStart /\ \A k \in 1..steps : g[k] = FlowStep(code, g[k - 1])
    BY DEF FlowBody
  <2> QED BY <2>1, <2>2
<1> HIDE DEF flow
<1>2. ASSUME T # {} PROVE FALSE
  <2>1. PICK m \in T : \A k \in T : ~(k < m)
    <3>1. T \in SUBSET Nat
      OBVIOUS
    <3> HIDE DEF T
    <3> QED BY <1>2, <3>1, SmallestNat
  <2>2. CASE m = 0
    BY <1>1, <2>1, <2>2, FlowStartInv, FS_EmptySet
  <2>3. CASE m # 0
    <3> DEFINE before == flow[m - 1]
    <3>1. m - 1 \in 0..steps /\ m - 1 < m /\ m \in 1..steps /\ flow[m].ok
      BY <2>1, <2>3
    <3>2. flow[m] = FlowStep(code, before)
      BY <1>1, <3>1
    <3>3. flow[m] = before \/ (before.ok /\ before.work # {})
      BY <3>2, Zenon DEF FlowStep
    <3>4. before.ok /\ Good(m - 1)
      BY <2>1, <3>1, <3>3
    <3>5. CASE before.work = {}
      <4>1. flow[m] = before
        BY <3>3, <3>5
      <4> QED BY <2>1, <3>4, <3>5, <4>1
    <3>6. CASE before.work # {}
      <4>1. PICK pc \in before.work : Done(flow[m]) = Done(before) \cup {pc}
        BY <3>1, <3>2, <3>4, <3>6, FlowStepInv
      <4>2. FlowInv(code, flow[m])
        BY <3>1, <3>2, <3>4, <3>6, FlowStepInv
      <4>3. pc \notin Done(before)
        BY DEF Done
      <4>4. IsFiniteSet(Done(flow[m])) /\ Cardinality(Done(flow[m])) = m
        <5>1. IsFiniteSet(Done(before)) /\ Cardinality(Done(before)) = m - 1
          BY <3>4, <3>6
        <5> DEFINE S == Done(before)
        <5> HIDE DEF S
        <5>2. IsFiniteSet(S \cup {pc}) /\ Cardinality(S \cup {pc}) = Cardinality(S) + 1
          BY <4>3, <5>1, FS_AddElement DEF S
        <5>3. m - 1 + 1 = m
          BY <3>1
        <5> QED BY <4>1, <5>1, <5>2, <5>3 DEF S
      <4> QED BY <2>1, <4>2, <4>4
    <3> QED BY <3>5, <3>6
  <2> QED BY <2>2, <2>3
<1> QED BY <1>2 DEF flow

(* The verifier is sound: if it accepts the code, no instruction that is reached underflows, *)
(* and every way on leads to an instruction with the height that was found there, or behind  *)
(* the code.  As many steps as there are instructions are enough to find the heights.        *)
THEOREM VerifierSound ==
    ASSUME NEW code, InRange(code), StackFlow(code) # NoHeights
    PROVE  /\ HeightsOver(code, StackFlow(code))
           /\ \A pc \in DOMAIN StackFlow(code) : Settled(code, StackFlow(code), pc)
<1> DEFINE flow == FlowAfter(code, Len(code))
<1>1. Len(code) \in Nat
  BY LenProperties DEF InRange
<1>2. flow.ok /\ StackFlow(code) = flow.heights
  BY Zenon DEF StackFlow
<1>3. flow = FlowFcn(code, Len(code))[Len(code)]
  BY FlowAfterIs
<1>4. /\ FlowInv(code, flow)
      /\ flow.work = {} \/ (IsFiniteSet(Done(flow)) /\ Cardinality(Done(flow)) = Len(code))
  <2> HIDE DEF flow
  <2> QED BY <1>1, <1>2, <1>3, FlowKeepsInv
<1> HIDE DEF flow
<1>5. flow.work = {}
  <2>1. SUFFICES ASSUME flow.work # {} PROVE FALSE
    OBVIOUS
  <2> DEFINE places == 0..(Len(code) - 1)
  <2>2. IsFiniteSet(places) /\ Cardinality(places) = Len(code)
    <3> DEFINE top == Len(code) - 1
    <3>1. top \in Int /\ (0 > top => top + 1 = 0) /\ top - 0 + 1 = Len(code)
      BY <1>1
    <3> HIDE DEF top
    <3>2. IsFiniteSet(0..top) /\ Cardinality(0..top) = IF 0 > top THEN 0 ELSE top - 0 + 1
      BY <3>1, FS_Interval
    <3>3. Cardinality(0..top) = Len(code)
      BY <3>1, <3>2
    <3> QED BY <3>2, <3>3 DEF top
  <2>3. Done(flow) \subseteq places
    BY <1>4 DEF FlowInv, HeightsOver, Done
  <2>4. Done(flow) = places
    BY <1>4, <2>1, <2>2, <2>3, FS_Subset
  <2> QED BY <1>4, <2>1, <2>4 DEF FlowInv, HeightsOver, Done
<1> QED BY <1>2, <1>4, <1>5 DEF FlowInv, Done

-----------------------------------------------------------------------------
(* What the assumption on the programs says of the code of a frame. *)

Consistent(code, heights) ==
    /\ HeightsOver(code, heights)
    /\ \A pc \in DOMAIN heights :
          /\ ~Underflows(code, pc, heights[pc])
          /\ \A t \in Successors(code, pc, heights[pc]) :
                t[1] \in DOMAIN heights /\ heights[t[1]] = t[2]

(* The operands of an instruction of a function with so many locals. *)
Operands(n, locals, ins) ==
    /\ ins[1] \in Opcodes
    /\ ins[1] \in {"CALL", "MAKE_ARRAY", "SELF_TAIL_CALL"} => ins[2] \in Nat
    /\ ins[1] \in {"LOAD_VAR", "STORE_VAR", "STR_APPEND_VAR", "STORE_SLOT", "COPY_SLOT"} =>
         ins[2] \in 0..(locals - 1)
    /\ ins[1] = "COPY_SLOT" => ins[3] \in 0..(locals - 1)
    /\ ins[1] = "LOAD_CONST" => ins[2][1] \notin {"fn", "ref"}
    /\ ins[1] = "STORE_SLOT" => ins[3][2][1] \notin {"fn", "ref"}
    /\ ins[1] = "MAKE_CLOSURE" =>
         /\ ins[2] \in 1..n
         /\ ins[3] \in Seq(Range(ins[3]))
         /\ \A j \in DOMAIN ins[3] : ins[3][j][1] = "local" => ins[3][j][2] \in 0..(locals - 1)

LEMMA VerdictOf ==
    ASSUME NEW chunk, chunk \in Seq(Range(chunk)), NEW i \in DOMAIN chunk, Verdict(chunk).verified
    PROVE  /\ Verdict(chunk).heights[i] = StackFlow(chunk[i].code)
           /\ StackFlow(chunk[i].code) # NoHeights
           /\ OperandsInRange(chunk, chunk[i])
<1> DEFINE S == {StackFlow(chunk[j].code) : j \in DOMAIN chunk}
           flows == [j \in DOMAIN chunk |-> StackFlow(chunk[j].code)]
<1>1. DOMAIN chunk = 1..Len(chunk) /\ Len(chunk) \in Nat
  BY LenProperties
<1>2. flows \in Seq(S)
  BY <1>1, SeqDef
<1>3. flows \o <<>> = flows
  <2> HIDE DEF flows, S
  <2> QED BY <1>2, ConcatEmptySeq
<1>4. /\ Verdict(chunk).heights = flows \o <<>>
      /\ Verdict(chunk).verified = \A j \in DOMAIN chunk :
            OperandsInRange(chunk, chunk[j]) /\ (flows \o <<>>)[j] # NoHeights
  BY Zenon DEF Verdict
<1>5. flows[i] = StackFlow(chunk[i].code)
  OBVIOUS
<1> HIDE DEF flows
<1> QED BY <1>3, <1>4, <1>5

(* The conditions of the verifier on the operands, and those it does not check. *)
LEMMA OperandsOfCode ==
    ASSUME NEW chunk, chunk \in Seq(Range(chunk)), NEW f, OperandsInRange(chunk, f), NEW heights,
           WellFormed(f, heights)
    PROVE  /\ InRange(f.code)
           /\ \A i \in DOMAIN f.code : Operands(Len(chunk), f.locals, f.code[i])
<1>1. DOMAIN chunk = 1..Len(chunk)
  BY LenProperties
<1>2. ASSUME NEW i \in DOMAIN f.code
      PROVE  /\ f.code[i][1] \in Opcodes
             /\ f.code[i][1] \in {"LOAD_VAR", "STORE_VAR", "STR_APPEND_VAR"} => f.code[i][2] \in 0..(f.locals - 1)
             /\ f.code[i][1] = "STORE_SLOT" => f.code[i][2] \in 0..(f.locals - 1)
             /\ f.code[i][1] = "COPY_SLOT" => {f.code[i][2], f.code[i][3]} \subseteq 0..(f.locals - 1)
             /\ f.code[i][1] = "GOTO" => f.code[i][2] \in 0..Len(f.code)
             /\ f.code[i][1] = "BRANCH" => {f.code[i][2], f.code[i][3]} \subseteq 0..Len(f.code)
             /\ f.code[i][1] \in ConditionalJumps \cup {"JUMP"} => i + f.code[i][2] \in 0..Len(f.code)
             /\ f.code[i][1] = "MAKE_CLOSURE" =>
                  /\ f.code[i][2] \in DOMAIN chunk
                  /\ \A j \in DOMAIN f.code[i][3] :
                       \/ f.code[i][3][j][1] = "local" /\ f.code[i][3][j][2] \in 0..(f.locals - 1)
                       \/ f.code[i][3][j][1] = "capture" /\ f.code[i][3][j][2] \in 1..f.captures
  <2> DEFINE ins == f.code[i]
  <2>1. ins[1] \in Opcodes
    BY Zenon DEF OperandsInRange
  <2>2. ins[1] \in {"LOAD_VAR", "STORE_VAR", "STR_APPEND_VAR"} => ins[2] \in 0..(f.locals - 1)
    BY Zenon DEF OperandsInRange, ConditionalJumps
  <2>3. ins[1] = "STORE_SLOT" => ins[2] \in 0..(f.locals - 1)
    BY Zenon DEF OperandsInRange, ConditionalJumps
  <2>4. ins[1] = "COPY_SLOT" => {ins[2], ins[3]} \subseteq 0..(f.locals - 1)
    BY Zenon DEF OperandsInRange, ConditionalJumps
  <2>5. ins[1] = "GOTO" => ins[2] \in 0..Len(f.code)
    BY Zenon DEF OperandsInRange, ConditionalJumps
  <2>6. ins[1] = "BRANCH" => {ins[2], ins[3]} \subseteq 0..Len(f.code)
    BY Zenon DEF OperandsInRange, ConditionalJumps
  <2>7. ins[1] \in ConditionalJumps \cup {"JUMP"} => i + ins[2] \in 0..Len(f.code)
    BY Zenon DEF OperandsInRange, ConditionalJumps
  <2>8. ins[1] = "MAKE_CLOSURE" =>
          /\ ins[2] \in DOMAIN chunk
          /\ \A j \in DOMAIN ins[3] :
               \/ ins[3][j][1] = "local" /\ ins[3][j][2] \in 0..(f.locals - 1)
               \/ ins[3][j][1] = "capture" /\ ins[3][j][2] \in 1..f.captures
    BY Zenon DEF OperandsInRange, ConditionalJumps
  <2> QED BY <2>1, <2>2, <2>3, <2>4, <2>5, <2>6, <2>7, <2>8
<1>3. ASSUME NEW i \in DOMAIN f.code
      PROVE  /\ f.code[i][1] \in {"CALL", "MAKE_ARRAY", "SELF_TAIL_CALL"} => f.code[i][2] \in Nat
             /\ f.code[i][1] \in ConditionalJumps \cup {"JUMP"} => f.code[i][2] \in Int
             /\ f.code[i][1] = "LOAD_CONST" => f.code[i][2][1] \notin {"fn", "ref"}
             /\ f.code[i][1] = "STORE_SLOT" => f.code[i][3][2][1] \notin {"fn", "ref"}
             /\ f.code[i][1] = "MAKE_CLOSURE" => f.code[i][3] \in Seq(Range(f.code[i][3]))
  <2> DEFINE ins == f.code[i]
  <2>0. OperandsTyped(ins)
    BY DEF WellFormed
  <2>1. ins[1] \in {"CALL", "MAKE_ARRAY", "SELF_TAIL_CALL"} => ins[2] \in Nat
    BY <2>0, Zenon DEF OperandsTyped, ConditionalJumps
  <2>2. ins[1] \in ConditionalJumps \cup {"JUMP"} => ins[2] \in Int
    BY <2>0, Zenon DEF OperandsTyped, ConditionalJumps
  <2>3. ins[1] = "LOAD_CONST" => ins[2][1] \notin {"fn", "ref"}
    BY <2>0, Zenon DEF OperandsTyped, ConditionalJumps
  <2>4. ins[1] = "STORE_SLOT" => ins[3][2][1] \notin {"fn", "ref"}
    BY <2>0, Zenon DEF OperandsTyped, ConditionalJumps
  <2>5. ins[1] = "MAKE_CLOSURE" => ins[3] \in Seq(Range(ins[3]))
    BY <2>0, Zenon DEF OperandsTyped, ConditionalJumps
  <2> QED BY <2>1, <2>2, <2>3, <2>4, <2>5
<1>4. f.code \in Seq(Range(f.code)) /\ f.code # <<>>
  BY DEF WellFormed
<1>5. InRange(f.code)
  BY <1>2, <1>3, <1>4 DEF InRange
<1>6. ASSUME NEW i \in DOMAIN f.code PROVE Operands(Len(chunk), f.locals, f.code[i])
  BY <1>1, <1>2, <1>3, <1>6 DEF Operands
<1> QED BY <1>5, <1>6

LEMMA MayRunFacts ==
    ASSUME NEW chunk, NEW verdict, MayRun(chunk, verdict), NEW i \in DOMAIN chunk
    PROVE  /\ InRange(chunk[i].code)
           /\ Consistent(chunk[i].code, verdict.heights[i])
           /\ \A j \in DOMAIN chunk[i].code : Operands(Len(chunk), chunk[i].locals, chunk[i].code[j])
           /\ WellFormed(chunk[i], verdict.heights[i])
<1> DEFINE code == chunk[i].code
           heights == verdict.heights[i]
<1>1. chunk \in Seq(Range(chunk)) /\ verdict = Verdict(chunk) /\ verdict.verified
      /\ WellFormed(chunk[i], heights)
  BY DEF MayRun
<1>2. heights = StackFlow(code) /\ heights # NoHeights /\ OperandsInRange(chunk, chunk[i])
  BY <1>1, VerdictOf
<1>3. InRange(code) /\ \A j \in DOMAIN code : Operands(Len(chunk), chunk[i].locals, code[j])
  BY <1>1, <1>2, OperandsOfCode
<1> HIDE DEF heights, code
<1>4. HeightsOver(code, heights) /\ \A pc \in DOMAIN heights : Settled(code, heights, pc)
  BY <1>2, <1>3, VerifierSound
<1>5. \A pc \in DOMAIN heights : \A t \in Successors(code, pc, heights[pc]) : t[1] # Len(code)
  BY <1>1 DEF WellFormed, code
<1>6. Consistent(code, heights)
  BY <1>4, <1>5 DEF Consistent, Settled
<1> QED BY <1>1, <1>3, <1>6 DEF code, heights

(* A frame that can be on the stack of calls: of a function of the program, and only with    *)
(* native code if there is some.                                                             *)
HasCode(fr) ==
    /\ fr.func \in DOMAIN Chunk /\ fr.native \in BOOLEAN
    /\ fr.native => Programs[program].native[fr.func] # <<>>

LocalsOf(fr) == Chunk[fr.func].locals

LEMMA FunctionShape ==
    ASSUME program \in DOMAIN Programs
    PROVE  /\ Chunk \in Seq(Range(Chunk)) /\ Len(Chunk) \in Nat \ {0} /\ DOMAIN Chunk = 1..Len(Chunk)
           /\ \A i \in DOMAIN Chunk :
                 /\ Chunk[i].params \in Nat /\ Chunk[i].locals \in Nat
                 /\ Chunk[i].hasRest => Chunk[i].params > 0
<1>1. MayRun(Chunk, Programs[program].verdict)
  BY ProgramsAssumption DEF Chunk
<1>2. Chunk \in Seq(Range(Chunk)) /\ Chunk # <<>>
  BY <1>1 DEF MayRun
<1>3. Len(Chunk) \in Nat \ {0} /\ DOMAIN Chunk = 1..Len(Chunk)
  BY <1>2, LenProperties, EmptySeq
<1>4. \A i \in DOMAIN Chunk : WellFormed(Chunk[i], Programs[program].verdict.heights[i])
  BY <1>1, MayRunFacts
<1> QED BY <1>2, <1>3, <1>4 DEF WellFormed

(* The code of a frame is as the verifier found it, interpreted or native. *)
LEMMA FrameCode ==
    ASSUME program \in DOMAIN Programs, NEW fr, HasCode(fr)
    PROVE  /\ InRange(CodeAt(fr))
           /\ Consistent(CodeAt(fr), HeightsAt(fr))
           /\ \A j \in DOMAIN CodeAt(fr) :
                 /\ Operands(Len(Chunk), LocalsOf(fr), CodeAt(fr)[j])
                 /\ CodeAt(fr)[j][1] = "ITER_NEXT_KV" => CodeAt(fr)[j + 1][1] = "JUMP_IF_FALSE"
<1> DEFINE f == Chunk[fr.func]
           native == Programs[program].native
           forms == NativeForm(Chunk, native)
           code == CodeAt(fr)
<1>1. fr.func \in DOMAIN Chunk
  BY DEF HasCode
<1>2. CASE ~fr.native
  <2>1. MayRun(Chunk, Programs[program].verdict)
    BY ProgramsAssumption DEF Chunk
  <2>2. code = f.code /\ HeightsAt(fr) = Programs[program].verdict.heights[fr.func]
    BY <1>2 DEF CodeAt, HeightsAt
  <2> HIDE DEF code
  <2> QED BY <1>1, <2>1, <2>2, MayRunFacts DEF LocalsOf, WellFormed, code
<1>3. CASE fr.native
  <2>1. MayRun(forms, Programs[program].nativeVerdict)
    BY ProgramsAssumption DEF Chunk
  <2>2. DOMAIN forms = DOMAIN Chunk /\ forms[fr.func] = [f EXCEPT !.code = native[fr.func]]
    BY <1>1, <1>3 DEF NativeForm, HasCode
  <2>3. code = native[fr.func] /\ HeightsAt(fr) = Programs[program].nativeVerdict.heights[fr.func]
    BY <1>3 DEF CodeAt, HeightsAt
  <2>4. {"code", "locals"} \subseteq DOMAIN f
    <3>1. WellFormed(f, Programs[program].verdict.heights[fr.func])
      BY <1>1, MayRunFacts, ProgramsAssumption DEF Chunk
    <3> QED BY <3>1 DEF WellFormed
  <2>5. forms[fr.func].code = native[fr.func] /\ forms[fr.func].locals = f.locals
    <3>1. [f EXCEPT !.code = native[fr.func]] =
             [x \in DOMAIN f |-> IF x = "code" THEN native[fr.func] ELSE f[x]]
      BY Zenon
    <3> HIDE DEF f
    <3> QED BY <2>2, <2>4, <3>1
  <2>6. Len(forms) = Len(Chunk)
    <3>1. DOMAIN Chunk = 1..Len(Chunk) /\ Len(Chunk) \in Nat
      BY FunctionShape
    <3>2. DOMAIN forms = 1..Len(forms) /\ Len(forms) \in Nat
      <4>1. forms \in Seq(Range(forms))
        BY <2>1 DEF MayRun
      <4> HIDE DEF forms
      <4> QED BY <4>1, LenProperties
    <3> QED BY <2>2, <3>1, <3>2
  <2>7. /\ InRange(forms[fr.func].code)
        /\ Consistent(forms[fr.func].code, Programs[program].nativeVerdict.heights[fr.func])
        /\ \A j \in DOMAIN forms[fr.func].code :
              Operands(Len(forms), forms[fr.func].locals, forms[fr.func].code[j])
        /\ WellFormed(forms[fr.func], Programs[program].nativeVerdict.heights[fr.func])
    <3> HIDE DEF forms
    <3> QED BY <1>1, <2>1, <2>2, MayRunFacts
  <2> HIDE DEF forms, native, code, f
  <2> QED BY <2>3, <2>5, <2>6, <2>7 DEF LocalsOf, WellFormed, code, f
<1> QED BY <1>2, <1>3 DEF HasCode

-----------------------------------------------------------------------------
(* Sequences and what the machine does with its stack. *)

LEMMA DropSeq ==
    ASSUME NEW U, NEW s \in Seq(U), NEW n \in 0..Len(s)
    PROVE  /\ Drop(s, n) \in Seq(U) /\ Len(Drop(s, n)) = Len(s) - n
           /\ \A i \in 1..(Len(s) - n) : Drop(s, n)[i] = s[i]
<1>1. Len(s) \in Nat /\ Len(s) - n \in 0..Len(s)
  BY LenProperties
<1>2. 1 \in 1..(Len(s) + 1) /\ Len(s) - n \in (1 - 1)..Len(s)
  BY <1>1
<1> DEFINE m == Len(s) - n
<1> HIDE DEF m
<1>3. /\ SubSeq(s, 1, m) \in Seq(U)
      /\ Len(SubSeq(s, 1, m)) = m - 1 + 1
      /\ \A i \in 1..(m - 1 + 1) : SubSeq(s, 1, m)[i] = s[1 + i - 1]
  BY <1>2, SubSeqProperties DEF m
<1>4. m - 1 + 1 = m /\ \A i \in 1..m : 1 + i - 1 = i
  BY <1>1 DEF m
<1> QED BY <1>3, <1>4 DEF Drop, m

LEMMA TopSeq ==
    ASSUME NEW U, NEW s \in Seq(U), NEW n \in 0..Len(s)
    PROVE  /\ SubSeq(s, Len(s) - n + 1, Len(s)) \in Seq(U)
           /\ Len(SubSeq(s, Len(s) - n + 1, Len(s))) = n
<1>1. Len(s) \in Nat
  BY LenProperties
<1> DEFINE m == Len(s) - n + 1
<1>2. m \in 1..(Len(s) + 1) /\ Len(s) \in (m - 1)..Len(s) /\ Len(s) - m + 1 = n
  BY <1>1
<1> HIDE DEF m
<1> QED BY <1>2, SubSeqProperties DEF m

LEMMA FirstSeq ==
    ASSUME NEW U, NEW s \in Seq(U), NEW n \in 0..Len(s)
    PROVE  SubSeq(s, 1, n) \in Seq(U) /\ Len(SubSeq(s, 1, n)) = n
<1>1. Len(s) \in Nat
  BY LenProperties
<1>2. 1 \in 1..(Len(s) + 1) /\ n \in (1 - 1)..Len(s) /\ n - 1 + 1 = n
  BY <1>1
<1> QED BY <1>2, SubSeqProperties

LEMMA ResizeSeq ==
    ASSUME NEW U, None \in U, NEW s \in Seq(U), NEW n \in Nat
    PROVE  Resize(s, n) \in Seq(U) /\ Len(Resize(s, n)) = n
<1>1. Len(s) \in Nat
  BY LenProperties
<1>2. CASE n <= Len(s)
  BY <1>1, <1>2, FirstSeq DEF Resize
<1>3. CASE ~(n <= Len(s))
  <2> DEFINE m == n - Len(s)
  <2>1. m \in Nat /\ Len(s) + m = n
    BY <1>1, <1>3
  <2> HIDE DEF m
  <2>2. Nones(m) \in Seq(U) /\ Len(Nones(m)) = m
    <3>1. Nones(m) \in [1..m -> U]
      BY DEF Nones
    <3>2. Nones(m) \in Seq(U)
      BY <2>1, <3>1, SeqDef
    <3> QED BY <2>1, <3>1, <3>2, LenProperties
  <2>3. Resize(s, n) = s \o Nones(m)
    BY <1>3 DEF Resize, m
  <2> QED BY <2>1, <2>2, <2>3, ConcatProperties
<1> QED BY <1>2, <1>3

LEMMA ReplacedTop ==
    ASSUME NEW U, NEW s \in Seq(U), NEW n \in 0..Len(s), NEW v \in U
    PROVE  Append(Drop(s, n), v) \in Seq(U) /\ Len(Append(Drop(s, n), v)) = Len(s) - n + 1
BY DropSeq, AppendProperties

LEMMA SeqOfMore ==
    ASSUME NEW U, NEW V, U \subseteq V
    PROVE  Seq(U) \subseteq Seq(V)
<1>1. ASSUME NEW s \in Seq(U) PROVE s \in Seq(V)
  <2>1. Len(s) \in Nat /\ s \in [1..Len(s) -> V]
    BY LenProperties
  <2> QED BY <2>1, SeqDef
<1> QED BY <1>1

LEMMA ChangedSeq ==
    ASSUME NEW U, NEW s \in Seq(U), NEW i, NEW v \in U
    PROVE  [s EXCEPT ![i] = v] \in Seq(U) /\ Len([s EXCEPT ![i] = v]) = Len(s)
<1>1. Len(s) \in Nat /\ s \in [1..Len(s) -> U]
  BY LenProperties
<1>2. [s EXCEPT ![i] = v] \in [1..Len(s) -> U]
  BY <1>1
<1>3. [s EXCEPT ![i] = v] \in Seq(U)
  BY <1>1, <1>2, SeqDef
<1> QED BY <1>1, <1>2, <1>3, LenProperties

-----------------------------------------------------------------------------
(* The invariant.  A value is good if what it refers to exists: the function and the cells   *)
(* of a closure, the object of a reference.  There is a set of good values that has all      *)
(* those in the stack, the cells, the objects and the globals.                               *)

GoodValue(v, c, h) ==
    /\ v[1] = "fn" => v[2] \in DOMAIN Chunk /\ v[3] \in Seq(1..c)
    /\ v[1] = "ref" => v[2] \in 1..h

GoodSet(U, c, h) == None \in U /\ \A u \in U : GoodValue(u, c, h)

Objects(U, T) == [type : {"array"}, v : Seq(U)] \cup [type : {"string"}, s : T]

Hold(U, T, st, ce, he, gl) ==
    /\ st \in Seq(U) /\ ce \in Seq(U) /\ he \in Seq(Objects(U, T))
    /\ \A x \in DOMAIN gl : gl[x] \in U

Typed(U, T, st, ce, he, gl) == GoodSet(U, Len(ce), Len(he)) /\ Hold(U, T, st, ce, he, gl)

PartialTo(c) == UNION {[D -> 1..c] : D \in SUBSET Nat}

FrameSet(c) ==
    [func : DOMAIN Chunk, pc : Nat, base : Nat, inline : PartialTo(c), open : PartialTo(c),
     captures : Seq(1..c), native : BOOLEAN]

(* The operands of a frame whose part of the stack ends at top. *)
HeightOf(fr, top) == top - fr.base - LocalsOf(fr)

(* A frame that waits for a call has all that the verifier expects but the result; the       *)
(* running one has all, or stands behind ITER_NEXT_KV.                                       *)
Waits(fr, top) ==
    fr.pc \in DOMAIN HeightsAt(fr) /\ HeightOf(fr, top) + 1 = HeightsAt(fr)[fr.pc]

Settles(fr, s) ==
    fr.pc \in DOMAIN HeightsAt(fr) /\ HeightOf(fr, Len(s)) = HeightsAt(fr)[fr.pc]

Branches(fr, s) ==
    /\ fr.pc - 1 \in DOMAIN HeightsAt(fr) /\ CodeAt(fr)[fr.pc][1] = "ITER_NEXT_KV"
    /\ \/ s[Len(s)] = BoolV(TRUE) /\ HeightOf(fr, Len(s)) = HeightsAt(fr)[fr.pc - 1] + 3
       \/ s[Len(s)] = BoolV(FALSE) /\ HeightOf(fr, Len(s)) = HeightsAt(fr)[fr.pc - 1] + 1

FramesFit(fs, s) ==
    /\ \A k \in DOMAIN fs : HasCode(fs[k])
    /\ \A k \in 1..(Len(fs) - 1) : Waits(fs[k], fs[k + 1].base)
    /\ Settles(fs[Len(fs)], s) \/ Branches(fs[Len(fs)], s)

Running ==
    /\ frames \in Seq(FrameSet(Len(cells))) /\ frames # <<>>
    /\ FramesFit(frames, stack)
    /\ \E U, T : Typed(U, T, stack, cells, heap, globals)

VMInv == program \in DOMAIN Programs /\ (status = "running" => Running)

LEMMA MoreIsGood ==
    ASSUME NEW U, NEW c \in Nat, NEW h \in Nat, GoodSet(U, c, h), NEW c2 \in Nat, NEW h2 \in Nat,
           c <= c2, h <= h2, NEW W, \A w \in W : GoodValue(w, c2, h2)
    PROVE  GoodSet(U \cup W, c2, h2)
<1>1. 1..c \subseteq 1..c2 /\ 1..h \subseteq 1..h2
  OBVIOUS
<1>2. Seq(1..c) \subseteq Seq(1..c2)
  BY <1>1, SeqOfMore
<1> QED BY <1>1, <1>2 DEF GoodSet, GoodValue

LEMMA MoreHold ==
    ASSUME NEW U, NEW T, NEW st, NEW ce, NEW he, NEW gl, Hold(U, T, st, ce, he, gl),
           NEW V, U \subseteq V, NEW X, T \subseteq X
    PROVE  Hold(V, X, st, ce, he, gl)
<1>1. Seq(U) \subseteq Seq(V)
  BY SeqOfMore
<1>2. Objects(U, T) \subseteq Objects(V, X)
  BY <1>1 DEF Objects
<1>3. Seq(Objects(U, T)) \subseteq Seq(Objects(V, X))
  BY <1>2, SeqOfMore
<1> QED BY <1>1, <1>3 DEF Hold

LEMMA MoreFrames ==
    ASSUME NEW c \in Nat, NEW d \in Nat, c <= d
    PROVE  FrameSet(c) \subseteq FrameSet(d) /\ PartialTo(c) \subseteq PartialTo(d)
<1>1. 1..c \subseteq 1..d
  OBVIOUS
<1>2. Seq(1..c) \subseteq Seq(1..d)
  BY <1>1, SeqOfMore
<1>3. PartialTo(c) \subseteq PartialTo(d)
  <2>1. ASSUME NEW D \in SUBSET Nat, NEW f \in [D -> 1..c] PROVE f \in [D -> 1..d]
    BY <1>1
  <2> QED BY <2>1 DEF PartialTo
<1> QED BY <1>2, <1>3 DEF FrameSet

LEMMA MovedFrame ==
    ASSUME NEW c, NEW f \in FrameSet(c), NEW p \in Nat
    PROVE  LET g == [f EXCEPT !.pc = p]
           IN /\ g \in FrameSet(c) /\ g.pc = p
              /\ g.func = f.func /\ g.base = f.base /\ g.native = f.native
BY DEF FrameSet

(* The running frame, while there is one. *)
LEMMA TopFrame ==
    ASSUME VMInv, status = "running"
    PROVE  /\ program \in DOMAIN Programs /\ Running
           /\ Len(frames) \in Nat \ {0} /\ Len(frames) \in DOMAIN frames /\ DOMAIN frames = 1..Len(frames)
           /\ Frame = frames[Len(frames)] /\ Frame \in FrameSet(Len(cells))
           /\ HasCode(Frame) /\ LocalsOf(Frame) \in Nat
           /\ Len(cells) \in Nat /\ Len(stack) \in Nat /\ Len(heap) \in Nat
           /\ Settles(Frame, stack) \/ Branches(Frame, stack)
<1>1. program \in DOMAIN Programs /\ Running
  BY DEF VMInv
<1>2. frames \in Seq(FrameSet(Len(cells))) /\ frames # <<>>
  BY <1>1 DEF Running
<1>3. Len(frames) \in Nat \ {0} /\ DOMAIN frames = 1..Len(frames)
  BY <1>2, EmptySeq, LenProperties
<1>4. Frame = frames[Len(frames)]
  BY DEF Frame, Last
<1>5. Frame \in FrameSet(Len(cells)) /\ HasCode(Frame)
  BY <1>1, <1>2, <1>3, <1>4, ElementOfSeq DEF Running, FramesFit
<1>6. LocalsOf(Frame) \in Nat
  BY <1>1, <1>5, FunctionShape DEF LocalsOf, HasCode
<1>7. Len(cells) \in Nat /\ Len(stack) \in Nat /\ Len(heap) \in Nat
  BY <1>1, LenProperties DEF Running, Typed, Hold
<1> QED BY <1>1, <1>3, <1>4, <1>5, <1>6, <1>7 DEF Running, FramesFit

(* Behind ITER_NEXT_KV comes JUMP_IF_FALSE, so before every other instruction the frame has  *)
(* the operands that the verifier expects, and the instruction finds what it pops.           *)
LEMMA TopInstruction ==
    ASSUME VMInv, status = "running", Instruction[1] # "JUMP_IF_FALSE" \/ Settles(Frame, stack)
    PROVE  LET heights == HeightsAt(Frame)
               code == CodeAt(Frame)
           IN /\ Settles(Frame, stack)
              /\ Frame.pc \in Nat /\ Frame.base \in Nat /\ Frame.pc \in 0..(Len(code) - 1)
              /\ heights[Frame.pc] \in Nat
              /\ Len(stack) = Frame.base + LocalsOf(Frame) + heights[Frame.pc]
              /\ ~Underflows(code, Frame.pc, heights[Frame.pc])
              /\ \A t \in Successors(code, Frame.pc, heights[Frame.pc]) :
                    t[1] \in DOMAIN heights /\ heights[t[1]] = t[2]
              /\ Operands(Len(Chunk), LocalsOf(Frame), Instruction)
              /\ Frame.pc + 1 \in DOMAIN code
<1> DEFINE heights == HeightsAt(Frame)
           code == CodeAt(Frame)
<1>1. HasCode(Frame) /\ program \in DOMAIN Programs /\ Frame \in FrameSet(Len(cells))
  BY TopFrame
<1>2. /\ InRange(code) /\ Consistent(code, heights)
      /\ \A j \in DOMAIN code :
            /\ Operands(Len(Chunk), LocalsOf(Frame), code[j])
            /\ code[j][1] = "ITER_NEXT_KV" => code[j + 1][1] = "JUMP_IF_FALSE"
  BY <1>1, FrameCode
<1>3. Frame.pc \in Nat /\ Frame.base \in Nat
  BY <1>1 DEF FrameSet
<1>4. Settles(Frame, stack)
  <2>1. SUFFICES ASSUME Branches(Frame, stack), Instruction[1] # "JUMP_IF_FALSE" PROVE FALSE
    BY TopFrame
  <2>2. Frame.pc - 1 \in 0..(Len(code) - 1)
    BY <1>2, <2>1 DEF Branches, Consistent, HeightsOver
  <2>3. Frame.pc - 1 + 1 = Frame.pc
    BY <1>3
  <2>4. Frame.pc \in DOMAIN code
    BY <1>2, <2>2, <2>3, InCode
  <2> QED BY <1>2, <2>1, <2>4 DEF Branches, Instruction
<1>5. Frame.pc \in 0..(Len(code) - 1) /\ heights[Frame.pc] \in Nat
      /\ ~Underflows(code, Frame.pc, heights[Frame.pc])
      /\ \A t \in Successors(code, Frame.pc, heights[Frame.pc]) :
            t[1] \in DOMAIN heights /\ heights[t[1]] = t[2]
  BY <1>2, <1>4 DEF Settles, Consistent, HeightsOver
<1>6. Frame.pc + 1 \in DOMAIN code
  BY <1>2, <1>5, InCode
<1>7. Operands(Len(Chunk), LocalsOf(Frame), Instruction)
  BY <1>2, <1>6 DEF Instruction
<1>8. Len(stack) = Frame.base + LocalsOf(Frame) + heights[Frame.pc]
  <2>1. HeightOf(Frame, Len(stack)) = heights[Frame.pc]
    BY <1>4 DEF Settles
  <2> HIDE DEF heights
  <2> QED BY <1>3, <2>1, TopFrame DEF HeightOf
<1> QED BY <1>3, <1>4, <1>5, <1>6, <1>7, <1>8

(* The instructions after which the next one runs. *)
Straight == Opcodes \ ({"RETURN", "THROW", "SELF_TAIL_CALL", "ITER_NEXT_KV", "JUMP", "GOTO", "BRANCH"}
                       \cup ConditionalJumps)

LEMMA StraightOn ==
    ASSUME VMInv, status = "running", Instruction[1] \in Straight
    PROVE  LET heights == HeightsAt(Frame)
               effect == StackEffect(Instruction)
           IN /\ effect[1] \in Nat /\ effect[2] \in Nat
              /\ heights[Frame.pc] \in Nat /\ heights[Frame.pc] >= effect[1]
              /\ Len(stack) = Frame.base + LocalsOf(Frame) + heights[Frame.pc]
              /\ Frame.pc + 1 \in DOMAIN heights
              /\ heights[Frame.pc + 1] = heights[Frame.pc] - effect[1] + effect[2]
<1> DEFINE heights == HeightsAt(Frame)
           code == CodeAt(Frame)
           effect == StackEffect(Instruction)
           t == <<Frame.pc + 1, heights[Frame.pc] - effect[1] + effect[2]>>
<1>1. Instruction[1] # "JUMP_IF_FALSE"
  BY DEF Straight, ConditionalJumps
<1>2. /\ heights[Frame.pc] \in Nat
      /\ Len(stack) = Frame.base + LocalsOf(Frame) + heights[Frame.pc]
      /\ ~Underflows(code, Frame.pc, heights[Frame.pc])
      /\ \A u \in Successors(code, Frame.pc, heights[Frame.pc]) :
            u[1] \in DOMAIN heights /\ heights[u[1]] = u[2]
      /\ Operands(Len(Chunk), LocalsOf(Frame), Instruction)
  BY <1>1, TopInstruction
<1>3. Instruction = code[Frame.pc + 1]
  BY DEF Instruction
<1>4. effect[1] \in Nat /\ effect[2] \in Nat
  BY <1>2, EffectIsNat DEF Straight, Operands
<1>5. Successors(code, Frame.pc, heights[Frame.pc]) = {t}
  <2> HIDE DEF heights, code
  <2> QED BY <1>3, NextPlaces DEF Straight
<1>6. heights[Frame.pc] >= effect[1]
  <2>1. ~(heights[Frame.pc] < effect[1])
    BY <1>2, <1>3 DEF Underflows, Straight
  <2> HIDE DEF heights, effect
  <2> QED BY <1>2, <1>4, <2>1
<1>7. Frame.pc + 1 \in DOMAIN heights /\ heights[Frame.pc + 1] = heights[Frame.pc] - effect[1] + effect[2]
  <2>1. t \in Successors(code, Frame.pc, heights[Frame.pc])
    BY <1>5
  <2> HIDE DEF heights, effect, code
  <2> QED BY <1>2, <2>1
<1> QED BY <1>2, <1>4, <1>6, <1>7

(* A step of the running frame.  The others do not notice. *)
LEMMA StepInFrame ==
    ASSUME VMInv, status = "running", program' = program, status' = status,
           NEW fr, fr \in FrameSet(Len(cells')),
           fr.func = Frame.func, fr.base = Frame.base, fr.native = Frame.native,
           frames' = [frames EXCEPT ![Len(frames)] = fr],
           Len(cells') \in Nat, Len(cells) <= Len(cells'),
           Settles(fr, stack') \/ Branches(fr, stack'),
           \E U, T : Typed(U, T, stack', cells', heap', globals')
    PROVE  VMInv'
<1> DEFINE n == Len(frames)
<1>1. /\ n \in Nat \ {0} /\ n \in DOMAIN frames /\ DOMAIN frames = 1..n
      /\ Frame = frames[n] /\ HasCode(Frame) /\ program \in DOMAIN Programs /\ Running
      /\ Len(cells) \in Nat
  BY TopFrame
<1>2. frames \in Seq(FrameSet(Len(cells'))) /\ FramesFit(frames, stack)
  <2>1. FrameSet(Len(cells)) \subseteq FrameSet(Len(cells'))
    BY <1>1, MoreFrames
  <2> QED BY <1>1, <2>1, SeqOfMore DEF Running
<1>3. frames' \in Seq(FrameSet(Len(cells'))) /\ Len(frames') = n
  <2> DEFINE S == FrameSet(Len(cells'))
  <2>1. frames \in Seq(S) /\ fr \in S /\ n \in 1..Len(frames)
    BY <1>1, <1>2
  <2> HIDE DEF S
  <2>2. [frames EXCEPT ![n] = fr] \in Seq(S) /\ Len([frames EXCEPT ![n] = fr]) = Len(frames)
    BY <2>1, ChangedSeq
  <2> QED BY <2>2 DEF S
<1>4. DOMAIN frames' = 1..n /\ frames'[n] = fr /\ \A k \in 1..(n - 1) : frames'[k] = frames[k]
  <2> HIDE DEF n
  <2>1. frames' = [frames EXCEPT ![n] = fr]
    BY DEF n
  <2>2. \A k \in 1..(n - 1) : k \in DOMAIN frames /\ k # n
    BY <1>1
  <2> QED BY <1>1, <2>1, <2>2
<1>5. \A f : HasCode(f)' = HasCode(f) /\ LocalsOf(f)' = LocalsOf(f) /\ HeightsAt(f)' = HeightsAt(f)
             /\ CodeAt(f)' = CodeAt(f)
  BY DEF HasCode, LocalsOf, HeightsAt, CodeAt, Chunk
<1>6. FrameSet(Len(cells))' = FrameSet(Len(cells'))
  BY DEF FrameSet, Chunk
<1>7. \A f, m : Waits(f, m)' = Waits(f, m)
  BY <1>5 DEF Waits, HeightOf
<1>8. Settles(fr, stack)' \/ Branches(fr, stack)'
  BY <1>5 DEF Settles, Branches, HeightOf
<1>9. HasCode(fr)
  BY <1>1 DEF HasCode
<1>10. FramesFit(frames, stack)'
  <2> HIDE DEF n
  <2>1. ASSUME NEW k \in 1..n PROVE HasCode(frames'[k])
    <3>1. k = n \/ k \in 1..(n - 1)
      BY <1>1
    <3> QED BY <1>1, <1>2, <1>4, <1>9, <3>1 DEF FramesFit
  <2>2. ASSUME NEW k \in 1..(n - 1) PROVE Waits(frames'[k], frames'[k + 1].base)
    <3>1. Waits(frames[k], frames[k + 1].base)
      BY <1>2, <2>2 DEF FramesFit, n
    <3>2. frames'[k + 1].base = frames[k + 1].base
      <4>1. k + 1 = n \/ k + 1 \in 1..(n - 1)
        BY <1>1
      <4> QED BY <1>1, <1>4, <4>1
    <3> QED BY <1>4, <3>1, <3>2
  <2>3. frames'[Len(frames')] = fr /\ Len(frames') = n
    BY <1>3, <1>4 DEF n
  <2> QED BY <1>4, <1>5, <1>7, <1>8, <2>1, <2>2, <2>3 DEF FramesFit
<1>11. \E U, T : Typed(U, T, stack, cells, heap, globals)'
  BY DEF Typed, GoodSet, GoodValue, Hold, Objects, Chunk
<1>12. frames' # <<>>
  BY <1>1, <1>3, EmptySeq
<1> QED BY <1>1, <1>3, <1>6, <1>10, <1>11, <1>12 DEF VMInv, Running

LEMMA NewHeight ==
    ASSUME NEW n, NEW m, NEW a \in Nat, NEW b \in Nat, NEW h \in Nat, NEW base \in Nat,
           NEW l \in Nat, n = base + l + h, m = n - a + b
    PROVE  m - base - l = h - a + b
OBVIOUS

(* What most instructions do: the next one runs, and the stack has grown as the verifier     *)
(* says.  W and X are the new values and texts.                                              *)
LEMMA StateStep ==
    ASSUME VMInv, status = "running", Instruction[1] \in Straight, Advance,
           program' = program, status' = status,
           NEW U, NEW T, Typed(U, T, stack, cells, heap, globals), NEW W, NEW X,
           Len(cells) <= Len(cells'), Len(heap) <= Len(heap'),
           \A w \in W : GoodValue(w, Len(cells'), Len(heap')),
           Hold(U \cup W, T \cup X, stack', cells', heap', globals'),
           Len(stack') = Len(stack) - StackEffect(Instruction)[1] + StackEffect(Instruction)[2]
    PROVE  VMInv'
<1> DEFINE fr == [Frame EXCEPT !.pc = Frame.pc + 1]
           heights == HeightsAt(Frame)
           effect == StackEffect(Instruction)
<1>1. /\ Frame \in FrameSet(Len(cells)) /\ Len(cells) \in Nat /\ Len(stack) \in Nat /\ Len(heap) \in Nat
      /\ Frame = frames[Len(frames)] /\ Len(frames) \in DOMAIN frames /\ LocalsOf(Frame) \in Nat
  BY TopFrame
<1>2. Len(cells') \in Nat /\ Len(heap') \in Nat
  BY LenProperties DEF Hold
<1>3. fr \in FrameSet(Len(cells')) /\ fr.func = Frame.func /\ fr.base = Frame.base
      /\ fr.native = Frame.native /\ fr.pc = Frame.pc + 1
  <2>1. FrameSet(Len(cells)) \subseteq FrameSet(Len(cells'))
    BY <1>1, <1>2, MoreFrames
  <2>2. Frame.pc + 1 \in Nat
    BY <1>1 DEF FrameSet
  <2>3. fr \in FrameSet(Len(cells)) /\ fr.func = Frame.func /\ fr.base = Frame.base
        /\ fr.native = Frame.native /\ fr.pc = Frame.pc + 1
    BY <1>1, <2>2, MovedFrame
  <2> QED BY <2>1, <2>3
<1>4. frames' = [frames EXCEPT ![Len(frames)] = fr]
  BY <1>1 DEF Advance, Goto
<1>5. \E V, Y : Typed(V, Y, stack', cells', heap', globals')
  <2>1. GoodSet(U \cup W, Len(cells'), Len(heap'))
    BY <1>1, <1>2, MoreIsGood DEF Typed
  <2> QED BY <2>1 DEF Typed
<1>6. Settles(fr, stack')
  <2>1. HeightsAt(fr) = heights /\ LocalsOf(fr) = LocalsOf(Frame)
    BY <1>3 DEF HeightsAt, LocalsOf
  <2>2. /\ effect[1] \in Nat /\ effect[2] \in Nat
        /\ heights[Frame.pc] \in Nat /\ heights[Frame.pc] >= effect[1]
        /\ Len(stack) = Frame.base + LocalsOf(Frame) + heights[Frame.pc]
        /\ Frame.pc + 1 \in DOMAIN heights
        /\ heights[Frame.pc + 1] = heights[Frame.pc] - effect[1] + effect[2]
    BY StraightOn
  <2>3. Frame.base \in Nat
    BY <1>1 DEF FrameSet
  <2>4. Len(stack') = Len(stack) - effect[1] + effect[2]
    OBVIOUS
  <2> HIDE DEF heights, fr, effect
  <2>5. Len(stack') - Frame.base - LocalsOf(Frame) = heights[Frame.pc + 1]
    <3>1. effect[1] \in Nat /\ effect[2] \in Nat /\ heights[Frame.pc] \in Nat
          /\ heights[Frame.pc + 1] = heights[Frame.pc] - effect[1] + effect[2]
          /\ Len(stack) = Frame.base + LocalsOf(Frame) + heights[Frame.pc]
      BY <2>2
    <3>2. LocalsOf(Frame) \in Nat
      BY <1>1
    <3> DEFINE n == Len(stack)
               m == Len(stack')
               a == effect[1]
               b == effect[2]
               h == heights[Frame.pc]
               base == Frame.base
               l == LocalsOf(Frame)
    <3>3. a \in Nat /\ b \in Nat /\ h \in Nat /\ base \in Nat /\ l \in Nat
      BY <2>3, <3>1, <3>2
    <3>4. n = base + l + h
      BY <3>1
    <3>5. m = n - a + b
      BY <2>4
    <3>7. heights[Frame.pc + 1] = h - a + b
      BY <3>1
    <3> HIDE DEF n, m, a, b, h, base, l
    <3>6. m - base - l = h - a + b
      BY <3>3, <3>4, <3>5, NewHeight
    <3> QED BY <3>6, <3>7 DEF n, m, a, b, h, base, l
  <2> QED BY <1>3, <2>1, <2>2, <2>5 DEF Settles, HeightOf
<1> HIDE DEF fr
<1> QED BY <1>1, <1>2, <1>3, <1>4, <1>5, <1>6, StepInFrame

(* The same, where the values on top make room for one other. *)
LEMMA ReplaceStep ==
    ASSUME VMInv, status = "running", Instruction[1] \in Straight, Advance,
           program' = program, status' = status, cells' = cells, globals' = globals,
           NEW U, NEW T, Typed(U, T, stack, cells, heap, globals), NEW W, NEW X,
           Len(heap) <= Len(heap'),
           \A w \in W : GoodValue(w, Len(cells), Len(heap')),
           heap' \in Seq(Objects(U \cup W, T \cup X)),
           NEW n \in 0..Len(stack), NEW v \in U \cup W, ReplaceTop(n, v),
           StackEffect(Instruction)[2] - StackEffect(Instruction)[1] = 1 - n
    PROVE  VMInv'
<1>1. /\ stack \in Seq(U \cup W) /\ cells \in Seq(U \cup W)
      /\ \A x \in DOMAIN globals : globals[x] \in U \cup W
  BY SeqOfMore DEF Typed, Hold
<1>2. stack' \in Seq(U \cup W) /\ Len(stack') = Len(stack) - n + 1
  <2> DEFINE V == U \cup W
  <2> HIDE DEF V
  <2> QED BY <1>1, ReplacedTop DEF ReplaceTop, V
<1>3. Hold(U \cup W, T \cup X, stack', cells', heap', globals')
  BY <1>1, <1>2 DEF Hold
<1>4. Len(cells) <= Len(cells') /\ Len(stack) \in Nat
  BY TopFrame
<1>5. Len(stack') = Len(stack) - StackEffect(Instruction)[1] + StackEffect(Instruction)[2]
  <2>1. StackEffect(Instruction)[1] \in Nat /\ StackEffect(Instruction)[2] \in Nat
    BY StraightOn
  <2> DEFINE a == StackEffect(Instruction)[1]
             b == StackEffect(Instruction)[2]
             p == Len(stack)
             q == Len(stack')
  <2>2. a \in Nat /\ b \in Nat /\ p \in Nat /\ n \in Int /\ q = p - n + 1 /\ b - a = 1 - n
    BY <1>2, <1>4, <2>1
  <2> HIDE DEF a, b, p, q
  <2>3. q = p - a + b
    BY <2>2
  <2> QED BY <2>3 DEF a, b, p, q
<1> QED BY <1>3, <1>4, <1>5, StateStep

(* ... and nothing else happens. *)
LEMMA StackStep ==
    ASSUME VMInv, status = "running", Instruction[1] \in Straight, Advance,
           program' = program, status' = status, cells' = cells, heap' = heap, globals' = globals,
           NEW U, NEW T, Typed(U, T, stack, cells, heap, globals), NEW v,
           v \in U \/ GoodValue(v, Len(cells), Len(heap)),
           NEW n \in 0..Len(stack), ReplaceTop(n, v),
           StackEffect(Instruction)[2] - StackEffect(Instruction)[1] = 1 - n
    PROVE  VMInv'
<1> DEFINE W == {w \in {v} : GoodValue(w, Len(cells), Len(heap))}
           X == {}
<1>1. v \in U \cup W
  OBVIOUS
<1>2. heap \in Seq(Objects(U \cup W, T \cup X))
  BY MoreHold DEF Typed, Hold
<1>3. Len(heap) \in Nat
  BY TopFrame
<1>4. \A w \in W : GoodValue(w, Len(cells), Len(heap'))
  OBVIOUS
<1>5. heap' \in Seq(Objects(U \cup W, T \cup X)) /\ Len(heap) <= Len(heap')
  BY <1>2, <1>3
<1> HIDE DEF W, X
<1> QED BY <1>1, <1>4, <1>5, ReplaceStep

(* A value that refers to nothing is always good. *)
Harmless(v) == v[1] \notin {"fn", "ref"}

LEMMA HarmlessIsGood ==
    ASSUME NEW v, Harmless(v), NEW c, NEW h
    PROVE  GoodValue(v, c, h)
BY DEF Harmless, GoodValue

(* What an instruction pops is there, above the locals. *)
LEMMA OperandValues ==
    ASSUME VMInv, status = "running", Instruction[1] \in Straight,
           NEW U, NEW T, Typed(U, T, stack, cells, heap, globals)
    PROVE  /\ StackEffect(Instruction)[1] \in 0..Len(stack)
           /\ Len(stack) - StackEffect(Instruction)[1] >= Frame.base + LocalsOf(Frame)
           /\ \A n \in Nat : n < StackEffect(Instruction)[1] => Peek(n) \in U
<1> DEFINE effect == StackEffect(Instruction)
           heights == HeightsAt(Frame)
<1>1. /\ effect[1] \in Nat /\ heights[Frame.pc] \in Nat /\ heights[Frame.pc] >= effect[1]
      /\ Len(stack) = Frame.base + LocalsOf(Frame) + heights[Frame.pc]
  BY StraightOn
<1>2. Frame.base \in Nat /\ LocalsOf(Frame) \in Nat /\ Len(stack) \in Nat
  BY TopFrame DEF FrameSet
<1> HIDE DEF effect, heights
<1>3. effect[1] \in 0..Len(stack) /\ Len(stack) - effect[1] >= Frame.base + LocalsOf(Frame)
  BY <1>1, <1>2
<1>4. ASSUME NEW n \in Nat, n < effect[1] PROVE Peek(n) \in U
  <2>1. Len(stack) - n \in 1..Len(stack)
    BY <1>1, <1>2, <1>4
  <2> QED BY <2>1, ElementOfSeq DEF Peek, Typed, Hold
<1> QED BY <1>3, <1>4 DEF effect

(* A local has its slot in the stack, and an open one its cell. *)
LEMMA LocalValues ==
    ASSUME VMInv, status = "running", Instruction[1] \in Straight,
           NEW U, NEW T, Typed(U, T, stack, cells, heap, globals), NEW i \in 0..(LocalsOf(Frame) - 1)
    PROVE  /\ Slot(i) \in 1..(Len(stack) - StackEffect(Instruction)[1]) /\ Slot(i) \in Nat
           /\ IsOpen(i) => CellOf(i) \in 1..Len(cells)
           /\ LocalValue(i) \in U
<1>1. Frame.base \in Nat /\ LocalsOf(Frame) \in Nat /\ Len(stack) \in Nat /\ Frame \in FrameSet(Len(cells))
  BY TopFrame DEF FrameSet
<1>2. /\ StackEffect(Instruction)[1] \in 0..Len(stack)
      /\ Len(stack) - StackEffect(Instruction)[1] >= Frame.base + LocalsOf(Frame)
  BY OperandValues
<1>3. Slot(i) \in 1..(Len(stack) - StackEffect(Instruction)[1]) /\ Slot(i) \in 1..Len(stack) /\ Slot(i) \in Nat
  BY <1>1, <1>2 DEF Slot
<1>4. stack[Slot(i)] \in U
  BY <1>3, ElementOfSeq DEF Typed, Hold
<1>5. IsOpen(i) => CellOf(i) \in 1..Len(cells)
  <2>1. Frame.inline \in PartialTo(Len(cells)) /\ Frame.open \in PartialTo(Len(cells))
    BY <1>1 DEF FrameSet
  <2>2. /\ \A j \in DOMAIN Frame.inline : Frame.inline[j] \in 1..Len(cells)
        /\ \A j \in DOMAIN Frame.open : Frame.open[j] \in 1..Len(cells)
    BY <2>1 DEF PartialTo
  <2> QED BY <2>2 DEF IsOpen, CellOf, OpenCells
<1>6. LocalValue(i) \in U
  BY <1>4, <1>5, ElementOfSeq DEF LocalValue, Typed, Hold
<1> QED BY <1>3, <1>5, <1>6

-----------------------------------------------------------------------------
(* The objects of the heap. *)

LEMMA ArrayElements ==
    ASSUME NEW U, NEW T, Typed(U, T, stack, cells, heap, globals), NEW v \in U, IsArray(v)
    PROVE  /\ v[2] \in 1..Len(heap) /\ heap[v[2]] \in [type : {"array"}, v : Seq(U)]
           /\ Elements(v) \in Seq(U) /\ Len(Elements(v)) \in Nat
<1>1. v[2] \in 1..Len(heap)
  BY DEF Typed, GoodSet, GoodValue, IsArray
<1>2. heap[v[2]] \in Objects(U, T)
  BY <1>1, ElementOfSeq DEF Typed, Hold
<1>3. heap[v[2]] \in [type : {"array"}, v : Seq(U)]
  BY <1>2 DEF Objects, IsArray
<1>4. Elements(v) \in Seq(U)
  BY <1>3 DEF Elements
<1> QED BY <1>1, <1>3, <1>4, LenProperties

LEMMA StringText ==
    ASSUME NEW U, NEW T, Typed(U, T, stack, cells, heap, globals), NEW v \in U, IsMutableString(v)
    PROVE  v[2] \in 1..Len(heap) /\ heap[v[2]] \in [type : {"string"}, s : T]
<1>1. v[2] \in 1..Len(heap)
  BY DEF Typed, GoodSet, GoodValue, IsMutableString
<1>2. heap[v[2]] \in Objects(U, T)
  BY <1>1, ElementOfSeq DEF Typed, Hold
<1> QED BY <1>1, <1>2 DEF Objects, IsMutableString

(* An element of an array is among the values; that of a text is a text of its own. *)
LEMMA ElementValue ==
    ASSUME NEW U, NEW T, Typed(U, T, stack, cells, heap, globals), NEW v \in U, NEW i
    PROVE  ElementAt(v, i) \in U \/ Harmless(ElementAt(v, i))
<1> DEFINE inArray == IsArray(v) /\ i[1] = "int" /\ i[2] \in 0..(Len(Elements(v)) - 1)
           inText == IsString(v) /\ i[1] = "int" /\ i[2] \in 0..(Len(TextOf(v)) - 1)
           letter == <<"str", SubSeq(TextOf(v), i[2] + 1, i[2] + 1)>>
<1>1. CASE inArray
  <2>1. ~inText
    BY <1>1 DEF IsArray, IsString, IsMutableString
  <2>2. ElementAt(v, i) = Elements(v)[i[2] + 1]
    BY <1>1, <2>1, Zenon DEF ElementAt
  <2>3. Elements(v) \in Seq(U) /\ Len(Elements(v)) \in Nat
    BY <1>1, ArrayElements
  <2>4. i[2] + 1 \in 1..Len(Elements(v))
    BY <1>1, <2>3
  <2> QED BY <2>2, <2>3, <2>4, ElementOfSeq
<1>2. CASE ~inArray /\ inText
  <2>1. ElementAt(v, i) = letter
    BY <1>2, Zenon DEF ElementAt
  <2>2. Harmless(letter)
    BY DEF Harmless
  <2> QED BY <2>1, <2>2
<1>3. CASE ~inArray /\ ~inText
  <2>1. ElementAt(v, i) = None
    BY <1>3, Zenon DEF ElementAt
  <2> QED BY <2>1 DEF Typed, GoodSet
<1> QED BY <1>1, <1>2, <1>3

LEMMA ElementTyped ==
    ASSUME NEW U, NEW T, Typed(U, T, stack, cells, heap, globals), NEW v \in U, NEW i
    PROVE  Typed(U \cup {ElementAt(v, i)}, T, stack, cells, heap, globals)
<1> DEFINE e == ElementAt(v, i)
           c == Len(cells)
           h == Len(heap)
<1>1. GoodSet(U, c, h) /\ Hold(U, T, stack, cells, heap, globals) /\ c \in Nat /\ h \in Nat
  BY LenProperties DEF Typed, Hold
<1>2. GoodValue(e, c, h)
  <2>1. e \in U \/ Harmless(e)
    BY ElementValue
  <2> HIDE DEF e, c, h
  <2> QED BY <1>1, <2>1, HarmlessIsGood DEF GoodSet
<1>3. Hold(U \cup {e}, T, stack, cells, heap, globals)
  BY <1>1, MoreHold
<1> HIDE DEF e
<1>4. GoodSet(U \cup {e}, c, h)
  <2> HIDE DEF c, h
  <2> QED BY <1>1, <1>2 DEF GoodSet
<1> QED BY <1>3, <1>4 DEF e, Typed

(* A new object at the end of the heap. *)
LEMMA NewObject ==
    ASSUME NEW U, NEW T, Typed(U, T, stack, cells, heap, globals), NEW V, NEW X, U \subseteq V, T \subseteq X,
           NEW o \in Objects(V, X)
    PROVE  /\ Append(heap, o) \in Seq(Objects(V, X)) /\ Len(Append(heap, o)) = Len(heap) + 1
           /\ \A c : GoodValue(Ref(Len(heap) + 1), c, Len(heap) + 1)
<1>1. heap \in Seq(Objects(V, X))
  BY MoreHold DEF Typed, Hold
<1>2. Len(heap) \in Nat
  BY <1>1, LenProperties
<1> QED BY <1>1, <1>2, AppendProperties DEF GoodValue, Ref

-----------------------------------------------------------------------------
(* The instructions that load and store. *)

LEMMA Kinds ==
    /\ \A n : Harmless(IntV(n))
    /\ \A b : Harmless(BoolV(b))
    /\ Harmless(None)
BY DEF Harmless, IntV, BoolV, None

LEMMA LoadConstantStep ==
    ASSUME VMInv, LoadConstant
    PROVE  VMInv'
<1> DEFINE v == CASE Instruction[1] = "LOAD_CONST" -> Instruction[2]
                  [] Instruction[1] = "LOAD_NONE" -> None
                  [] Instruction[1] \in {"LOAD_TRUE", "LOAD_FALSE"} ->
                       BoolV(Instruction[1] = "LOAD_TRUE")
                  [] Instruction[1] \in {"LOAD_ZERO", "LOAD_ONE"} ->
                       IntV(IF Instruction[1] = "LOAD_ONE" THEN 1 ELSE 0)
<1>1. status = "running"
      /\ Instruction[1] \in {"LOAD_CONST", "LOAD_NONE", "LOAD_TRUE", "LOAD_FALSE", "LOAD_ZERO", "LOAD_ONE"}
  BY DEF LoadConstant, At
<1>2. Instruction[1] \in Pushes /\ Instruction[1] \in Straight /\ Instruction[1] # "JUMP_IF_FALSE"
  BY <1>1 DEF Pushes, Straight, Opcodes, ConditionalJumps
<1>3. Operands(Len(Chunk), LocalsOf(Frame), Instruction)
  BY <1>1, <1>2, TopInstruction
<1>4. Harmless(v)
  <2>1. CASE Instruction[1] = "LOAD_CONST"
    <3>1. v = Instruction[2]
      BY <2>1, Zenon
    <3> QED BY <1>3, <2>1, <3>1 DEF Operands, Harmless
  <2>2. CASE Instruction[1] = "LOAD_NONE"
    <3>1. v = None
      BY <2>2, Zenon
    <3> HIDE DEF v
    <3> QED BY <3>1, Kinds
  <2>3. CASE Instruction[1] \in {"LOAD_TRUE", "LOAD_FALSE"}
    <3>1. v = BoolV(Instruction[1] = "LOAD_TRUE")
      BY <2>3, Zenon
    <3> HIDE DEF v
    <3> QED BY <3>1, Kinds, Zenon
  <2>4. CASE Instruction[1] \in {"LOAD_ZERO", "LOAD_ONE"}
    <3>1. v = IntV(IF Instruction[1] = "LOAD_ONE" THEN 1 ELSE 0)
      BY <2>4, Zenon
    <3> HIDE DEF v
    <3> QED BY <3>1, Kinds, Zenon
  <2> QED BY <1>1, <2>1, <2>2, <2>3, <2>4
<1>5. PICK U, T : Typed(U, T, stack, cells, heap, globals)
  BY <1>1, TopFrame DEF Running
<1>6. ReplaceTop(0, v)
  BY DEF LoadConstant, Push
<1>7. StackEffect(Instruction)[2] - StackEffect(Instruction)[1] = 1 - 0
  BY <1>2, Effects
<1>8. 0 \in 0..Len(stack)
  BY <1>1, TopFrame
<1>9. Advance /\ UNCHANGED <<program, cells, heap, globals, status>>
  BY DEF LoadConstant
<1>10. GoodValue(v, Len(cells), Len(heap))
  BY <1>4, HarmlessIsGood
<1> HIDE DEF v
<1> QED BY <1>1, <1>2, <1>5, <1>6, <1>7, <1>8, <1>9, <1>10, StackStep

LEMMA LoadVariableStep ==
    ASSUME VMInv, LoadVariable
    PROVE  VMInv'
<1> DEFINE v == CASE Instruction[1] = "LOAD_VAR" -> LocalValue(Instruction[2])
                  [] Instruction[1] = "LOAD_CAPTURE" -> CaptureValue(Instruction[2])
                  [] Instruction[1] = "LOAD_GLOBAL" -> GlobalValue(Instruction[2])
<1>1. status = "running" /\ Instruction[1] \in {"LOAD_VAR", "LOAD_CAPTURE", "LOAD_GLOBAL"}
  BY DEF LoadVariable, At
<1>2. Instruction[1] \in Pushes /\ Instruction[1] \in Straight /\ Instruction[1] # "JUMP_IF_FALSE"
  BY <1>1 DEF Pushes, Straight, Opcodes, ConditionalJumps
<1>3. Operands(Len(Chunk), LocalsOf(Frame), Instruction)
  BY <1>1, <1>2, TopInstruction
<1>4. PICK U, T : Typed(U, T, stack, cells, heap, globals)
  BY <1>1, TopFrame DEF Running
<1>5. v \in U \/ GoodValue(v, Len(cells), Len(heap))
  <2>1. CASE Instruction[1] = "LOAD_VAR"
    <3>1. v = LocalValue(Instruction[2])
      BY <2>1, Zenon
    <3>2. Instruction[2] \in 0..(LocalsOf(Frame) - 1)
      BY <1>3, <2>1 DEF Operands
    <3> HIDE DEF v
    <3> QED BY <1>1, <1>2, <1>4, <3>1, <3>2, LocalValues
  <2>2. CASE Instruction[1] = "LOAD_CAPTURE"
    <3>1. v = CaptureValue(Instruction[2])
      BY <2>2, Zenon
    <3>2. Frame.captures \in Seq(1..Len(cells))
      BY <1>1, TopFrame DEF FrameSet
    <3>3. \A i \in DOMAIN Frame.captures : cells[Frame.captures[i]] \in U
      <4>1. \A i \in DOMAIN Frame.captures : Frame.captures[i] \in 1..Len(cells)
        BY <3>2
      <4> QED BY <1>4, <4>1, ElementOfSeq DEF Typed, Hold
    <3>4. None \in U
      BY <1>4 DEF Typed, GoodSet
    <3> HIDE DEF v
    <3> QED BY <3>1, <3>3, <3>4 DEF CaptureValue
  <2>3. CASE Instruction[1] = "LOAD_GLOBAL"
    <3>1. v = GlobalValue(Instruction[2])
      BY <2>3, Zenon
    <3>2. GlobalValue(Instruction[2]) \in {None, <<"builtin">>}
          \/ (Instruction[2] \in DOMAIN globals /\ GlobalValue(Instruction[2]) = globals[Instruction[2]])
      BY Zenon DEF GlobalValue
    <3>3. Harmless(None) /\ Harmless(<<"builtin">>)
      BY DEF Harmless, None
    <3>4. \A x \in DOMAIN globals : globals[x] \in U
      BY <1>4 DEF Typed, Hold
    <3> HIDE DEF v
    <3> QED BY <3>1, <3>2, <3>3, <3>4, HarmlessIsGood
  <2> QED BY <1>1, <2>1, <2>2, <2>3
<1>6. ReplaceTop(0, v)
  BY DEF LoadVariable, Push
<1>7. StackEffect(Instruction)[2] - StackEffect(Instruction)[1] = 1 - 0
  BY <1>2, Effects
<1>8. 0 \in 0..Len(stack)
  BY <1>1, TopFrame
<1>9. Advance /\ UNCHANGED <<program, cells, heap, globals, status>>
  BY DEF LoadVariable
<1> HIDE DEF v
<1> QED BY <1>1, <1>2, <1>4, <1>5, <1>6, <1>7, <1>8, <1>9, StackStep

(* A step that makes no new values. *)
LEMMA KeepStep ==
    ASSUME VMInv, status = "running", Instruction[1] \in Straight, Advance,
           program' = program, status' = status,
           NEW U, NEW T, Typed(U, T, stack, cells, heap, globals),
           Len(cells') = Len(cells), Len(heap') = Len(heap),
           Hold(U, T, stack', cells', heap', globals'),
           Len(stack') = Len(stack) - StackEffect(Instruction)[1] + StackEffect(Instruction)[2]
    PROVE  VMInv'
<1> DEFINE W == {}
<1>1. Hold(U \cup W, T \cup W, stack', cells', heap', globals')
  OBVIOUS
<1>2. \A w \in W : GoodValue(w, Len(cells'), Len(heap'))
  OBVIOUS
<1>3. Len(cells) <= Len(cells') /\ Len(heap) <= Len(heap')
  BY TopFrame
<1> HIDE DEF W
<1> QED BY <1>1, <1>2, <1>3, StateStep

LEMMA StoreVarStep ==
    ASSUME VMInv, StoreVar
    PROVE  VMInv'
<1> DEFINE i == Instruction[2]
<1>1. status = "running" /\ Instruction[1] = "STORE_VAR"
  BY DEF StoreVar, At
<1>2. Instruction[1] \in Keeps /\ Instruction[1] \in Straight /\ Instruction[1] # "JUMP_IF_FALSE"
  BY <1>1 DEF Keeps, Straight, Opcodes, ConditionalJumps
<1>3. StackEffect(Instruction)[1] = 1 /\ StackEffect(Instruction)[2] = 1
  BY <1>2, Effects
<1>4. PICK U, T : Typed(U, T, stack, cells, heap, globals)
  BY <1>1, TopFrame DEF Running
<1>5. Peek(0) \in U
  BY <1>1, <1>2, <1>3, <1>4, OperandValues
<1>6. stack \in Seq(U) /\ cells \in Seq(U) /\ Len(stack) \in Nat
  BY <1>1, <1>4, TopFrame DEF Typed, Hold
<1>7. stack' \in Seq(U) /\ Len(stack') = Len(stack)
  <2> DEFINE k == Slot(i)
             v == Peek(0)
  <2>1. stack' = [stack EXCEPT ![k] = v] /\ v \in U
    BY <1>5 DEF StoreVar
  <2> HIDE DEF k, v
  <2>2. stack \in Seq(U) /\ v \in U
    BY <1>6, <2>1
  <2>3. [stack EXCEPT ![k] = v] \in Seq(U) /\ Len([stack EXCEPT ![k] = v]) = Len(stack)
    BY <2>2, ChangedSeq
  <2> QED BY <2>1, <2>3
<1>8. cells' \in Seq(U) /\ Len(cells') = Len(cells)
  <2>1. cells' = IF IsOpen(i) THEN [cells EXCEPT ![CellOf(i)] = Peek(0)] ELSE cells
    BY DEF StoreVar
  <2>2. CASE IsOpen(i)
    <3>1. cells' = [cells EXCEPT ![CellOf(i)] = Peek(0)]
      BY <2>1, <2>2
    <3> QED BY <1>5, <1>6, <3>1, ChangedSeq
  <2>3. CASE ~IsOpen(i)
    BY <1>6, <2>1, <2>3
  <2> QED BY <2>2, <2>3
<1>9. Advance /\ UNCHANGED <<program, heap, globals, status>>
  BY DEF StoreVar
<1>10. Hold(U, T, stack', cells', heap', globals')
  BY <1>4, <1>7, <1>8, <1>9 DEF Typed, Hold
<1>11. Len(stack') = Len(stack) - StackEffect(Instruction)[1] + StackEffect(Instruction)[2]
  BY <1>3, <1>6, <1>7
<1> QED BY <1>1, <1>2, <1>4, <1>8, <1>9, <1>10, <1>11, KeepStep

LEMMA StoreCaptureStep ==
    ASSUME VMInv, StoreCapture
    PROVE  VMInv'
<1> DEFINE i == Instruction[2]
<1>1. status = "running" /\ Instruction[1] = "STORE_CAPTURE"
  BY DEF StoreCapture, At
<1>2. Instruction[1] \in Keeps /\ Instruction[1] \in Straight
  BY <1>1 DEF Keeps, Straight, Opcodes, ConditionalJumps
<1>3. StackEffect(Instruction)[1] = 1 /\ StackEffect(Instruction)[2] = 1
  BY <1>2, Effects
<1>4. PICK U, T : Typed(U, T, stack, cells, heap, globals)
  BY <1>1, TopFrame DEF Running
<1>5. Peek(0) \in U
  BY <1>1, <1>2, <1>3, <1>4, OperandValues
<1>6. cells \in Seq(U) /\ Len(stack) \in Nat
  BY <1>1, <1>4, TopFrame DEF Typed, Hold
<1>7. cells' \in Seq(U) /\ Len(cells') = Len(cells)
  <2>1. cells' = IF i \in DOMAIN Frame.captures
                 THEN [cells EXCEPT ![Frame.captures[i]] = Peek(0)] ELSE cells
    BY DEF StoreCapture
  <2>2. CASE i \in DOMAIN Frame.captures
    <3>1. cells' = [cells EXCEPT ![Frame.captures[i]] = Peek(0)]
      BY <2>1, <2>2
    <3> QED BY <1>5, <1>6, <3>1, ChangedSeq
  <2>3. CASE i \notin DOMAIN Frame.captures
    BY <1>6, <2>1, <2>3
  <2> QED BY <2>2, <2>3
<1>8. Advance /\ UNCHANGED <<program, stack, heap, globals, status>>
  BY DEF StoreCapture
<1>9. Hold(U, T, stack', cells', heap', globals')
  BY <1>4, <1>7, <1>8 DEF Typed, Hold
<1>10. Len(stack') = Len(stack) - StackEffect(Instruction)[1] + StackEffect(Instruction)[2]
  BY <1>3, <1>6, <1>8
<1> QED BY <1>1, <1>2, <1>4, <1>7, <1>8, <1>9, <1>10, KeepStep

LEMMA StoreGlobalStep ==
    ASSUME VMInv, StoreGlobal
    PROVE  VMInv'
<1>1. status = "running" /\ Instruction[1] = "STORE_GLOBAL"
  BY DEF StoreGlobal, At
<1>2. Instruction[1] \in Keeps /\ Instruction[1] \in Straight
  BY <1>1 DEF Keeps, Straight, Opcodes, ConditionalJumps
<1>3. StackEffect(Instruction)[1] = 1 /\ StackEffect(Instruction)[2] = 1
  BY <1>2, Effects
<1>4. PICK U, T : Typed(U, T, stack, cells, heap, globals)
  BY <1>1, TopFrame DEF Running
<1>5. Peek(0) \in U
  BY <1>1, <1>2, <1>3, <1>4, OperandValues
<1>6. Advance /\ UNCHANGED <<program, stack, cells, heap, status>>
      /\ globals' = With(globals, Instruction[2], Peek(0))
  BY DEF StoreGlobal
<1>7. \A x \in DOMAIN globals' : globals'[x] \in U
  BY <1>4, <1>5, <1>6 DEF With, Typed, Hold
<1>8. Hold(U, T, stack', cells', heap', globals')
  BY <1>4, <1>6, <1>7 DEF Typed, Hold
<1>9. Len(stack') = Len(stack) - StackEffect(Instruction)[1] + StackEffect(Instruction)[2]
  BY <1>1, <1>3, <1>6, TopFrame
<1> QED BY <1>1, <1>2, <1>4, <1>6, <1>8, <1>9, KeepStep

LEMMA PopStep ==
    ASSUME VMInv, Pop
    PROVE  VMInv'
<1>1. status = "running" /\ Instruction[1] = "POP"
  BY DEF Pop, At
<1>2. Instruction[1] \in Straight
  BY <1>1 DEF Straight, Opcodes, ConditionalJumps
<1>3. StackEffect(Instruction)[1] = 1 /\ StackEffect(Instruction)[2] = 0
  BY <1>1, Effects
<1>4. PICK U, T : Typed(U, T, stack, cells, heap, globals)
  BY <1>1, TopFrame DEF Running
<1>5. Advance /\ UNCHANGED <<program, cells, heap, globals, status>> /\ stack' = Drop(stack, 1)
  BY DEF Pop
<1>6. stack \in Seq(U) /\ Len(stack) \in Nat /\ 1 \in 0..Len(stack)
  BY <1>1, <1>2, <1>3, <1>4, TopFrame, OperandValues DEF Typed, Hold
<1>7. stack' \in Seq(U) /\ Len(stack') = Len(stack) - 1
  BY <1>5, <1>6, DropSeq
<1>8. Hold(U, T, stack', cells', heap', globals')
  BY <1>4, <1>5, <1>7 DEF Typed, Hold
<1>9. Len(stack') = Len(stack) - StackEffect(Instruction)[1] + StackEffect(Instruction)[2]
  BY <1>3, <1>6, <1>7
<1> QED BY <1>1, <1>2, <1>4, <1>5, <1>8, <1>9, KeepStep

LEMMA DupStep ==
    ASSUME VMInv, Dup
    PROVE  VMInv'
<1>1. status = "running" /\ Instruction[1] = "DUP"
  BY DEF Dup, At
<1>2. Instruction[1] \in Straight
  BY <1>1 DEF Straight, Opcodes, ConditionalJumps
<1>3. StackEffect(Instruction)[1] = 1 /\ StackEffect(Instruction)[2] = 2
  BY <1>1, Effects
<1>4. PICK U, T : Typed(U, T, stack, cells, heap, globals)
  BY <1>1, TopFrame DEF Running
<1>5. Peek(0) \in U
  BY <1>1, <1>2, <1>3, <1>4, OperandValues
<1>6. Advance /\ UNCHANGED <<program, cells, heap, globals, status>> /\ ReplaceTop(0, Peek(0))
  BY DEF Dup, Push
<1>7. 0 \in 0..Len(stack)
  BY <1>1, TopFrame
<1> QED BY <1>1, <1>2, <1>3, <1>4, <1>5, <1>6, <1>7, StackStep

-----------------------------------------------------------------------------
(* The operators. *)

LEMMA OperatedIsHarmless ==
    ASSUME NEW op \in Arithmetic \cup Comparisons, NEW a, NEW b
    PROVE  Harmless(Operated(op, a, b))
<1>1. op = "ADD" => Operated(op, a, b) = IntV(a[2] + b[2])
  BY Zenon DEF Operated
<1>2. op = "SUB" => Operated(op, a, b) = IntV(a[2] - b[2])
  BY Zenon DEF Operated
<1>3. op = "MUL" => Operated(op, a, b) = IntV(a[2] * b[2])
  BY Zenon DEF Operated
<1>4. op = "EQ" => Operated(op, a, b) = BoolV(ValuesEqual(a, b))
  BY Zenon DEF Operated
<1>5. op = "NE" => Operated(op, a, b) = BoolV(~ValuesEqual(a, b))
  BY Zenon DEF Operated
<1>6. op = "LT" => Operated(op, a, b) = BoolV(a[2] < b[2])
  BY Zenon DEF Operated
<1>7. op = "LE" => Operated(op, a, b) = BoolV(a[2] <= b[2])
  BY Zenon DEF Operated
<1>8. op = "GT" => Operated(op, a, b) = BoolV(a[2] > b[2])
  BY Zenon DEF Operated
<1>9. op = "GE" => Operated(op, a, b) = BoolV(a[2] >= b[2])
  BY Zenon DEF Operated
<1>10. op \in {"ADD", "SUB", "MUL", "EQ", "NE", "LT", "LE", "GT", "GE"}
  BY DEF Arithmetic, Comparisons
<1> QED BY <1>1, <1>2, <1>3, <1>4, <1>5, <1>6, <1>7, <1>8, <1>9, <1>10, Kinds, Zenon

LEMMA Operate1Step ==
    ASSUME VMInv, Operate1
    PROVE  VMInv'
<1> DEFINE v == IF Instruction[1] = "NOT" THEN BoolV(~IsTruthy(Peek(0))) ELSE IntV(-Peek(0)[2])
<1>1. status = "running" /\ Instruction[1] \in {"NEG", "NOT"}
  BY DEF Operate1, At
<1>2. Instruction[1] \in Keeps /\ Instruction[1] \in Straight
  BY <1>1 DEF Keeps, Straight, Opcodes, ConditionalJumps
<1>3. StackEffect(Instruction)[1] = 1 /\ StackEffect(Instruction)[2] = 1
  BY <1>2, Effects
<1>4. PICK U, T : Typed(U, T, stack, cells, heap, globals)
  BY <1>1, TopFrame DEF Running
<1>5. Advance /\ UNCHANGED <<program, cells, heap, globals, status>> /\ ReplaceTop(1, v)
  BY DEF Operate1
<1>6. Harmless(v)
  <2>1. v = BoolV(~IsTruthy(Peek(0))) \/ v = IntV(-Peek(0)[2])
    BY Zenon
  <2> HIDE DEF v
  <2> QED BY <2>1, Kinds, Zenon
<1> HIDE DEF v
<1>7. 1 \in 0..Len(stack) /\ GoodValue(v, Len(cells), Len(heap))
  BY <1>1, <1>2, <1>3, <1>4, <1>6, OperandValues, HarmlessIsGood
<1> QED BY <1>1, <1>2, <1>3, <1>4, <1>5, <1>7, StackStep

LEMMA Operate2Step ==
    ASSUME VMInv, Operate2
    PROVE  VMInv'
<1> DEFINE v == Operated(Instruction[1], Peek(1), Peek(0))
<1>1. status = "running" /\ Instruction[1] \in Arithmetic \cup Comparisons
  BY DEF Operate2, At
<1>2. Instruction[1] \in Combines /\ Instruction[1] \in Straight
  BY <1>1 DEF Arithmetic, Comparisons, Combines, Straight, Opcodes, ConditionalJumps
<1>3. StackEffect(Instruction)[1] = 2 /\ StackEffect(Instruction)[2] = 1
  BY <1>2, Effects
<1>4. PICK U, T : Typed(U, T, stack, cells, heap, globals)
  BY <1>1, TopFrame DEF Running
<1>5. Advance /\ UNCHANGED <<program, cells, heap, globals, status>> /\ ReplaceTop(2, v)
  BY DEF Operate2
<1>6. Harmless(v)
  BY <1>1, OperatedIsHarmless
<1> HIDE DEF v
<1>7. 2 \in 0..Len(stack) /\ GoodValue(v, Len(cells), Len(heap))
  BY <1>1, <1>2, <1>3, <1>4, <1>6, OperandValues, HarmlessIsGood
<1> QED BY <1>1, <1>2, <1>3, <1>4, <1>5, <1>7, StackStep

LEMMA TestNoneStep ==
    ASSUME VMInv, TestNone
    PROVE  VMInv'
<1> DEFINE v == BoolV(Peek(0) = None)
<1>1. status = "running" /\ Instruction[1] = "IS_NONE"
  BY DEF TestNone, At
<1>2. Instruction[1] \in Straight
  BY <1>1 DEF Straight, Opcodes, ConditionalJumps
<1>3. StackEffect(Instruction)[1] = 1 /\ StackEffect(Instruction)[2] = 1
  BY <1>1, Effects
<1>4. PICK U, T : Typed(U, T, stack, cells, heap, globals)
  BY <1>1, TopFrame DEF Running
<1>5. Advance /\ UNCHANGED <<program, cells, heap, globals, status>> /\ ReplaceTop(1, v)
  BY DEF TestNone
<1>6. Harmless(v)
  BY Kinds, Zenon
<1> HIDE DEF v
<1>7. 1 \in 0..Len(stack) /\ GoodValue(v, Len(cells), Len(heap))
  BY <1>1, <1>2, <1>3, <1>4, <1>6, OperandValues, HarmlessIsGood
<1> QED BY <1>1, <1>2, <1>3, <1>4, <1>5, <1>7, StackStep

(* A new object whose reference replaces what it was made of. *)
LEMMA NewObjectStep ==
    ASSUME VMInv, status = "running", Instruction[1] \in Straight, Advance,
           program' = program, status' = status, cells' = cells, globals' = globals,
           NEW U, NEW T, Typed(U, T, stack, cells, heap, globals), NEW X, NEW o \in Objects(U, T \cup X),
           heap' = Append(heap, o),
           NEW n \in 0..Len(stack), ReplaceTop(n, Ref(Len(heap) + 1)),
           StackEffect(Instruction)[2] - StackEffect(Instruction)[1] = 1 - n
    PROVE  VMInv'
<1> DEFINE v == Ref(Len(heap) + 1)
           W == {v}
<1>1. Objects(U, T \cup X) \subseteq Objects(U \cup W, T \cup X)
  <2>1. Seq(U) \subseteq Seq(U \cup W)
    BY SeqOfMore
  <2> QED BY <2>1 DEF Objects
<1>2. o \in Objects(U \cup W, T \cup X)
  BY <1>1
<1> DEFINE V == U \cup W
           Y == T \cup X
<1>3. U \subseteq V /\ T \subseteq Y /\ o \in Objects(V, Y) /\ v \in V
  BY <1>2
<1> HIDE DEF V, Y
<1>4. heap' \in Seq(Objects(V, Y)) /\ Len(heap') = Len(heap) + 1
      /\ \A c : GoodValue(v, c, Len(heap) + 1)
  BY <1>3, NewObject
<1>5. Len(heap) <= Len(heap')
  BY <1>4, TopFrame
<1>6. \A w \in W : GoodValue(w, Len(cells), Len(heap'))
  BY <1>4
<1>7. heap' \in Seq(Objects(U \cup W, T \cup X)) /\ v \in U \cup W
  BY <1>3, <1>4 DEF V, Y
<1>8. ReplaceTop(n, v)
  OBVIOUS
<1> HIDE DEF W, v
<1> QED BY <1>5, <1>6, <1>7, <1>8, ReplaceStep

LEMMA ConcatenateStep ==
    ASSUME VMInv, Concatenate
    PROVE  VMInv'
<1> DEFINE text == AsText(Peek(1)) \o AsText(Peek(0))
           X == {text}
           o == StringObj(text)
<1>1. status = "running" /\ Instruction[1] \in {"STR_CONCAT", "STR_CONCAT_INPLACE"}
  BY DEF Concatenate, At
<1>2. Instruction[1] \in Straight
  BY <1>1 DEF Combines, Straight, Opcodes, ConditionalJumps
<1>3. StackEffect(Instruction)[1] = 2 /\ StackEffect(Instruction)[2] = 1
  BY <1>1, Effects DEF Combines
<1>4. PICK U, T : Typed(U, T, stack, cells, heap, globals)
  BY <1>1, TopFrame DEF Running
<1>5. Advance /\ UNCHANGED <<program, cells, globals, status>>
      /\ heap' = Append(heap, o) /\ ReplaceTop(2, Ref(Len(heap) + 1))
  BY DEF Concatenate
<1>6. o \in Objects(U, T \cup X)
  <2> HIDE DEF text
  <2> QED BY DEF Objects, StringObj
<1>7. 2 \in 0..Len(stack)
  BY <1>1, <1>2, <1>3, <1>4, OperandValues
<1> HIDE DEF text, X, o
<1> QED BY <1>1, <1>2, <1>3, <1>4, <1>5, <1>6, <1>7, NewObjectStep

(* A string of the heap gets another text. *)
LEMMA ChangedText ==
    ASSUME NEW U, NEW T, Typed(U, T, stack, cells, heap, globals), NEW v \in U, IsMutableString(v),
           NEW text
    PROVE  LET new == [heap EXCEPT ![v[2]].s = text]
           IN new \in Seq(Objects(U, T \cup {text})) /\ Len(new) = Len(heap)
<1> DEFINE o == [heap[v[2]] EXCEPT !.s = text]
<1>1. v[2] \in 1..Len(heap) /\ heap[v[2]] \in [type : {"string"}, s : T]
  BY StringText
<1>2. o \in [type : {"string"}, s : T \cup {text}]
  BY <1>1
<1>3. o \in Objects(U, T \cup {text})
  BY <1>2 DEF Objects
<1>4. heap \in Seq(Objects(U, T \cup {text}))
  BY MoreHold DEF Typed, Hold
<1>5. [heap EXCEPT ![v[2]].s = text] = [heap EXCEPT ![v[2]] = o]
  OBVIOUS
<1> DEFINE S == Objects(U, T \cup {text})
           k == v[2]
<1> HIDE DEF o, S, k
<1>6. [heap EXCEPT ![k] = o] \in Seq(S) /\ Len([heap EXCEPT ![k] = o]) = Len(heap)
  BY <1>3, <1>4, ChangedSeq DEF S
<1> QED BY <1>5, <1>6 DEF S, k

(* An array of the heap gets other elements. *)
LEMMA ChangedArray ==
    ASSUME NEW U, NEW T, Typed(U, T, stack, cells, heap, globals), NEW v \in U, IsArray(v),
           NEW vs \in Seq(U)
    PROVE  LET new == [heap EXCEPT ![v[2]].v = vs]
           IN new \in Seq(Objects(U, T)) /\ Len(new) = Len(heap)
<1> DEFINE o == [heap[v[2]] EXCEPT !.v = vs]
<1>1. v[2] \in 1..Len(heap) /\ heap[v[2]] \in [type : {"array"}, v : Seq(U)]
  BY ArrayElements
<1>2. o \in [type : {"array"}, v : Seq(U)]
  BY <1>1
<1>3. o \in Objects(U, T)
  BY <1>2 DEF Objects
<1>4. heap \in Seq(Objects(U, T))
  BY DEF Typed, Hold
<1>5. [heap EXCEPT ![v[2]].v = vs] = [heap EXCEPT ![v[2]] = o]
  OBVIOUS
<1> DEFINE S == Objects(U, T)
           k == v[2]
<1> HIDE DEF o, S, k
<1>6. [heap EXCEPT ![k] = o] \in Seq(S) /\ Len([heap EXCEPT ![k] = o]) = Len(heap)
  BY <1>3, <1>4, ChangedSeq DEF S
<1> QED BY <1>5, <1>6 DEF S, k

LEMMA ConcatenateInPlaceStep ==
    ASSUME VMInv, ConcatenateInPlace
    PROVE  VMInv'
<1> DEFINE v == Peek(1)
           text == heap[v[2]].s \o AsText(Peek(0))
           W == {}
           X == {text}
<1>1. status = "running" /\ Instruction[1] = "STR_CONCAT_INPLACE" /\ IsMutableString(v)
  BY DEF ConcatenateInPlace, At, InPlace
<1>2. Instruction[1] \in Straight
  BY <1>1 DEF Straight, Opcodes, ConditionalJumps
<1>3. StackEffect(Instruction)[1] = 2 /\ StackEffect(Instruction)[2] = 1
  BY <1>1, Effects
<1>4. PICK U, T : Typed(U, T, stack, cells, heap, globals)
  BY <1>1, TopFrame DEF Running
<1>5. Advance /\ UNCHANGED <<program, cells, globals, status>>
      /\ heap' = [heap EXCEPT ![v[2]].s = text] /\ stack' = Drop(stack, 1)
  BY DEF ConcatenateInPlace
<1>6. Peek(1) \in U /\ 1 \in 0..Len(stack) /\ Len(stack) \in Nat /\ stack \in Seq(U)
  BY <1>1, <1>2, <1>3, <1>4, TopFrame, OperandValues DEF Typed, Hold
<1>7. heap' \in Seq(Objects(U, T \cup X)) /\ Len(heap') = Len(heap)
  <2> HIDE DEF v, text
  <2> QED BY <1>1, <1>4, <1>5, <1>6, ChangedText DEF v
<1>8. stack' \in Seq(U) /\ Len(stack') = Len(stack) - 1
  BY <1>5, <1>6, DropSeq
<1>9. Hold(U \cup W, T \cup X, stack', cells', heap', globals')
  BY <1>4, <1>5, <1>7, <1>8 DEF Typed, Hold
<1>10. Len(stack') = Len(stack) - StackEffect(Instruction)[1] + StackEffect(Instruction)[2]
  BY <1>3, <1>6, <1>8
<1>11. Len(cells) <= Len(cells') /\ Len(heap) <= Len(heap') /\ \A w \in W : GoodValue(w, Len(cells'), Len(heap'))
  BY <1>1, <1>5, <1>7, TopFrame
<1> HIDE DEF v, text, W, X
<1> QED BY <1>1, <1>2, <1>4, <1>5, <1>9, <1>10, <1>11, StateStep

LEMMA AppendToVarStep ==
    ASSUME VMInv, AppendToVar
    PROVE  VMInv'
<1> DEFINE i == Instruction[2]
           old == LocalValue(i)
           text == AsText(old) \o AsText(Peek(0))
           inPlace == IsMutableString(old) /\ IsString(Peek(0))
           new == IF inPlace THEN old ELSE Ref(Len(heap) + 1)
           X == {text}
           W == IF inPlace THEN {} ELSE {new}
<1>1. status = "running" /\ Instruction[1] = "STR_APPEND_VAR"
  BY DEF AppendToVar, At
<1>2. Instruction[1] \in Keeps /\ Instruction[1] \in Straight /\ Instruction[1] # "JUMP_IF_FALSE"
  BY <1>1 DEF Keeps, Straight, Opcodes, ConditionalJumps
<1>3. StackEffect(Instruction)[1] = 1 /\ StackEffect(Instruction)[2] = 1
  BY <1>2, Effects
<1>4. PICK U, T : Typed(U, T, stack, cells, heap, globals)
  BY <1>1, TopFrame DEF Running
<1>5. /\ Advance /\ UNCHANGED <<program, globals, status>>
      /\ heap' = IF inPlace THEN [heap EXCEPT ![old[2]].s = text] ELSE Append(heap, StringObj(text))
      /\ cells' = IF IsOpen(i) THEN [cells EXCEPT ![CellOf(i)] = new] ELSE cells
      /\ stack' = Append([Drop(stack, 1) EXCEPT ![Slot(i)] = new], new)
  BY Zenon DEF AppendToVar
<1>6. i \in 0..(LocalsOf(Frame) - 1)
  BY <1>1, <1>2, TopInstruction DEF Operands
<1>7. old \in U
  BY <1>1, <1>2, <1>4, <1>6, LocalValues
<1>8. /\ heap' \in Seq(Objects(U \cup W, T \cup X)) /\ Len(heap) <= Len(heap') /\ new \in U \cup W
      /\ \A w \in W : \A c : GoodValue(w, c, Len(heap'))
  <2>1. Len(heap) \in Nat
    BY <1>1, TopFrame
  <2>2. CASE inPlace
    <3>1. heap' = [heap EXCEPT ![old[2]].s = text] /\ new = old /\ W = {} /\ IsMutableString(old)
      BY <1>5, <2>2
    <3> HIDE DEF inPlace, W, new, old, text, i
    <3>2. heap' \in Seq(Objects(U, T \cup X)) /\ Len(heap') = Len(heap)
      BY <1>4, <1>7, <3>1, ChangedText
    <3> HIDE DEF X
    <3> QED BY <1>7, <2>1, <3>1, <3>2
  <2>3. CASE ~inPlace
    <3>1. heap' = Append(heap, StringObj(text)) /\ new = Ref(Len(heap) + 1) /\ W = {new}
      BY <1>5, <2>3
    <3> DEFINE V == U \cup W
               Y == T \cup X
               o == StringObj(text)
    <3>2. o \in Objects(V, Y) /\ U \subseteq V /\ T \subseteq Y
      <4> HIDE DEF text, W
      <4> QED BY DEF Objects, StringObj
    <3> HIDE DEF inPlace, W, new, old, text, i, V, Y, o
    <3>3. /\ Append(heap, o) \in Seq(Objects(V, Y)) /\ Len(Append(heap, o)) = Len(heap) + 1
          /\ \A c : GoodValue(Ref(Len(heap) + 1), c, Len(heap) + 1)
      BY <1>4, <3>2, NewObject
    <3> QED BY <2>1, <3>1, <3>3 DEF V, Y, o
  <2> QED BY <2>2, <2>3
<1> DEFINE V == U \cup W
           k == Slot(i)
<1> HIDE DEF i, old, text, inPlace, new, X, W
<1>9. stack \in Seq(V) /\ cells \in Seq(V) /\ Len(stack) \in Nat /\ Len(cells) \in Nat /\ 1 \in 0..Len(stack)
      /\ \A x \in DOMAIN globals : globals[x] \in V
  <2>1. 1 \in 0..Len(stack)
    BY <1>1, <1>2, <1>3, <1>4, OperandValues
  <2> QED BY <1>1, <1>4, <2>1, TopFrame, SeqOfMore DEF Typed, Hold
<1>10. new \in V
  BY <1>8
<1> HIDE DEF V
<1>11. stack' \in Seq(V) /\ Len(stack') = Len(stack)
  <2> HIDE DEF k
  <2>1. Drop(stack, 1) \in Seq(V) /\ Len(Drop(stack, 1)) = Len(stack) - 1
    BY <1>9, DropSeq
  <2> DEFINE s == Drop(stack, 1)
  <2> HIDE DEF s
  <2>2. [s EXCEPT ![k] = new] \in Seq(V) /\ Len([s EXCEPT ![k] = new]) = Len(s)
    BY <1>10, <2>1, ChangedSeq DEF s
  <2> DEFINE t == [s EXCEPT ![k] = new]
  <2>3. stack' = Append(t, new)
    BY <1>5 DEF s, k
  <2> HIDE DEF t
  <2>4. t \in Seq(V) /\ Len(t) = Len(stack) - 1
    BY <2>1, <2>2 DEF t, s
  <2>5. Append(t, new) \in Seq(V) /\ Len(Append(t, new)) = Len(t) + 1
    BY <1>10, <2>4, AppendProperties
  <2> QED BY <1>9, <2>3, <2>4, <2>5
<1>12. cells' \in Seq(V) /\ Len(cells') = Len(cells)
  <2>1. CASE IsOpen(i)
    <3> DEFINE j == CellOf(i)
    <3>1. cells' = [cells EXCEPT ![j] = new]
      BY <1>5, <2>1
    <3> HIDE DEF j
    <3>2. [cells EXCEPT ![j] = new] \in Seq(V) /\ Len([cells EXCEPT ![j] = new]) = Len(cells)
      BY <1>9, <1>10, ChangedSeq
    <3> QED BY <3>1, <3>2
  <2>2. CASE ~IsOpen(i)
    BY <1>5, <1>9, <2>2
  <2> QED BY <2>1, <2>2
<1>13. Hold(U \cup W, T \cup X, stack', cells', heap', globals')
  BY <1>5, <1>8, <1>9, <1>11, <1>12 DEF Hold, V
<1>14. Len(stack') = Len(stack) - StackEffect(Instruction)[1] + StackEffect(Instruction)[2]
  BY <1>3, <1>9, <1>11
<1>15. Len(cells) <= Len(cells') /\ \A w \in W : GoodValue(w, Len(cells'), Len(heap'))
  BY <1>8, <1>9, <1>12
<1> QED BY <1>1, <1>2, <1>4, <1>5, <1>8, <1>13, <1>14, <1>15, StateStep

LEMMA SetSlotStep ==
    ASSUME VMInv, SetSlot
    PROVE  VMInv'
<1> DEFINE i == Instruction[2]
           v == IF Instruction[1] = "STORE_SLOT" THEN Instruction[3][2] ELSE stack[Slot(Instruction[3])]
           X == {}
           W == {w \in {v} : Harmless(w)}
<1>1. status = "running" /\ Instruction[1] \in {"STORE_SLOT", "COPY_SLOT"}
  BY DEF SetSlot, At
<1>2. Instruction[1] \in Straight /\ Instruction[1] # "JUMP_IF_FALSE"
  BY <1>1 DEF Straight, Opcodes, ConditionalJumps
<1>3. StackEffect(Instruction)[1] = 0 /\ StackEffect(Instruction)[2] = 0
  BY <1>1, Effects
<1>4. PICK U, T : Typed(U, T, stack, cells, heap, globals)
  BY <1>1, TopFrame DEF Running
<1>5. Operands(Len(Chunk), LocalsOf(Frame), Instruction)
  BY <1>1, <1>2, TopInstruction
<1>6. v \in U \cup W
  <2>1. CASE Instruction[1] = "STORE_SLOT"
    BY <1>5, <2>1 DEF Operands, Harmless
  <2>2. CASE Instruction[1] = "COPY_SLOT"
    <3>1. Instruction[3] \in 0..(LocalsOf(Frame) - 1)
      BY <1>5, <2>2 DEF Operands
    <3>2. Slot(Instruction[3]) \in 1..(Len(stack) - 0)
      BY <1>1, <1>2, <1>3, <1>4, <3>1, LocalValues
    <3>3. Slot(Instruction[3]) \in 1..Len(stack)
      BY <1>1, <3>2, TopFrame
    <3>4. stack[Slot(Instruction[3])] \in U
      BY <1>4, <3>3, ElementOfSeq DEF Typed, Hold
    <3> QED BY <2>2, <3>4
  <2> QED BY <1>1, <2>1, <2>2
<1>7. /\ Advance /\ UNCHANGED <<program, cells, heap, globals, status>>
      /\ stack' = [stack EXCEPT ![Slot(i)] = v]
  BY DEF SetSlot
<1>8. \A w \in W : GoodValue(w, Len(cells'), Len(heap'))
  BY HarmlessIsGood
<1> DEFINE V == U \cup W
           k == Slot(i)
<1> HIDE DEF v, W, i
<1>9. Hold(V, T \cup X, stack, cells, heap, globals)
  BY <1>4, MoreHold DEF Typed
<1>10. v \in V
  BY <1>6
<1> HIDE DEF V, X
<1>11. stack' \in Seq(V) /\ Len(stack') = Len(stack)
  <2>1. stack' = [stack EXCEPT ![k] = v]
    BY <1>7
  <2> HIDE DEF k
  <2>2. stack \in Seq(V)
    BY <1>9 DEF Hold
  <2>3. [stack EXCEPT ![k] = v] \in Seq(V) /\ Len([stack EXCEPT ![k] = v]) = Len(stack)
    BY <1>10, <2>2, ChangedSeq
  <2> QED BY <2>1, <2>3
<1>12. Hold(U \cup W, T \cup X, stack', cells', heap', globals')
  BY <1>7, <1>9, <1>11 DEF Hold, V
<1>13. /\ Len(stack') = Len(stack) - StackEffect(Instruction)[1] + StackEffect(Instruction)[2]
       /\ Len(cells) <= Len(cells') /\ Len(heap) <= Len(heap')
  BY <1>1, <1>3, <1>7, <1>11, TopFrame
<1> QED BY <1>1, <1>2, <1>4, <1>7, <1>8, <1>12, <1>13, StateStep

-----------------------------------------------------------------------------
(* Arrays and iteration. *)

LEMMA MakeArrayStep ==
    ASSUME VMInv, MakeArray
    PROVE  VMInv'
<1> DEFINE n == Instruction[2]
           vs == SubSeq(stack, Len(stack) - n + 1, Len(stack))
           o == ArrayObj(vs)
           X == {}
<1>1. status = "running" /\ Instruction[1] = "MAKE_ARRAY"
  BY DEF MakeArray, At
<1>2. Instruction[1] \in Straight
  BY <1>1 DEF Straight, Opcodes, ConditionalJumps
<1>3. StackEffect(Instruction)[1] = n /\ StackEffect(Instruction)[2] = 1
  BY <1>1, Effects
<1>4. PICK U, T : Typed(U, T, stack, cells, heap, globals)
  BY <1>1, TopFrame DEF Running
<1>5. /\ Advance /\ UNCHANGED <<program, cells, globals, status>>
      /\ heap' = Append(heap, o) /\ ReplaceTop(n, Ref(Len(heap) + 1))
  BY DEF MakeArray
<1>6. n \in 0..Len(stack) /\ stack \in Seq(U)
  BY <1>1, <1>2, <1>3, <1>4, OperandValues DEF Typed, Hold
<1>7. vs \in Seq(U)
  <2> HIDE DEF n
  <2> QED BY <1>6, TopSeq
<1>8. o \in Objects(U, T \cup X)
  <2> HIDE DEF vs
  <2> QED BY <1>7 DEF Objects, ArrayObj
<1>9. StackEffect(Instruction)[2] - StackEffect(Instruction)[1] = 1 - n
  BY <1>3
<1> HIDE DEF n, vs, o, X
<1> QED BY <1>1, <1>2, <1>4, <1>5, <1>6, <1>8, <1>9, NewObjectStep

LEMMA GrowArrayStep ==
    ASSUME VMInv, GrowArray
    PROVE  VMInv'
<1> DEFINE added == CASE Instruction[1] = "ARRAY_PUSH" -> <<Peek(0)>>
                      [] Instruction[1] = "ARRAY_SPREAD" /\ IsArray(Peek(0)) -> Elements(Peek(0))
                      [] OTHER -> <<>>
           a == Peek(1)
           vs == heap[a[2]].v \o added
<1>1. status = "running" /\ Instruction[1] \in {"ARRAY_PUSH", "ARRAY_SPREAD"}
  BY DEF GrowArray, At
<1>2. Instruction[1] \in Straight
  BY <1>1 DEF Straight, Opcodes, ConditionalJumps, Combines
<1>3. StackEffect(Instruction)[1] = 2 /\ StackEffect(Instruction)[2] = 1
  BY <1>1, Effects DEF Combines
<1>4. PICK U, T : Typed(U, T, stack, cells, heap, globals)
  BY <1>1, TopFrame DEF Running
<1>5. /\ Advance /\ UNCHANGED <<program, cells, globals, status>> /\ stack' = Drop(stack, 1)
      /\ heap' = IF IsArray(a) THEN [heap EXCEPT ![a[2]].v = vs] ELSE heap
  BY Zenon DEF GrowArray
<1>6. a \in U /\ Peek(0) \in U /\ stack \in Seq(U) /\ 1 \in 0..Len(stack) /\ Len(stack) \in Nat
  BY <1>1, <1>2, <1>3, <1>4, OperandValues, TopFrame DEF Typed, Hold
<1>7. added \in Seq(U)
  <2>1. CASE Instruction[1] = "ARRAY_PUSH"
    <3>1. added = <<Peek(0)>>
      BY <2>1, Zenon
    <3> HIDE DEF added
    <3> QED BY <1>6, <3>1
  <2>2. CASE Instruction[1] = "ARRAY_SPREAD" /\ IsArray(Peek(0))
    <3>1. added = Elements(Peek(0))
      BY <2>2, Zenon
    <3> HIDE DEF added
    <3> QED BY <1>4, <1>6, <2>2, <3>1, ArrayElements
  <2>3. CASE Instruction[1] # "ARRAY_PUSH" /\ ~(Instruction[1] = "ARRAY_SPREAD" /\ IsArray(Peek(0)))
    <3>1. added = <<>>
      BY <2>3, Zenon
    <3> HIDE DEF added
    <3> QED BY <3>1
  <2> QED BY <2>1, <2>2, <2>3
<1> HIDE DEF added
<1>8. heap' \in Seq(Objects(U, T)) /\ Len(heap') = Len(heap)
  <2>1. CASE IsArray(a)
    <3>1. vs \in Seq(U)
      <4>1. heap[a[2]].v \in Seq(U)
        BY <1>4, <1>6, <2>1, ArrayElements DEF Elements
      <4> HIDE DEF a
      <4> QED BY <1>7, <4>1, ConcatProperties
    <3>2. heap' = [heap EXCEPT ![a[2]].v = vs]
      BY <1>5, <2>1
    <3> HIDE DEF a, vs
    <3> QED BY <1>4, <1>6, <2>1, <3>1, <3>2, ChangedArray
  <2>2. CASE ~IsArray(a)
    BY <1>4, <1>5, <2>2 DEF Typed, Hold
  <2> QED BY <2>1, <2>2
<1>9. stack' \in Seq(U) /\ Len(stack') = Len(stack) - 1
  BY <1>5, <1>6, DropSeq
<1>10. Hold(U, T, stack', cells', heap', globals')
  BY <1>4, <1>5, <1>8, <1>9 DEF Typed, Hold
<1>11. Len(stack') = Len(stack) - StackEffect(Instruction)[1] + StackEffect(Instruction)[2]
  BY <1>3, <1>6, <1>9
<1> QED BY <1>1, <1>2, <1>4, <1>5, <1>8, <1>10, <1>11, KeepStep

LEMMA GetIndexStep ==
    ASSUME VMInv, GetIndex
    PROVE  VMInv'
<1> DEFINE v == ElementAt(Peek(1), Peek(0))
<1>1. status = "running" /\ Instruction[1] = "GET_INDEX"
  BY DEF GetIndex, At
<1>2. Instruction[1] \in Combines /\ Instruction[1] \in Straight
  BY <1>1 DEF Combines, Straight, Opcodes, ConditionalJumps
<1>3. StackEffect(Instruction)[1] = 2 /\ StackEffect(Instruction)[2] = 1
  BY <1>2, Effects
<1>4. PICK U, T : Typed(U, T, stack, cells, heap, globals)
  BY <1>1, TopFrame DEF Running
<1>5. Advance /\ UNCHANGED <<program, cells, heap, globals, status>> /\ ReplaceTop(2, v)
  BY DEF GetIndex
<1>6. Peek(1) \in U /\ 2 \in 0..Len(stack)
  BY <1>1, <1>2, <1>3, <1>4, OperandValues
<1>7. v \in U \/ Harmless(v)
  BY <1>4, <1>6, ElementValue
<1> HIDE DEF v
<1>8. v \in U \/ GoodValue(v, Len(cells), Len(heap))
  BY <1>7, HarmlessIsGood
<1> QED BY <1>1, <1>2, <1>3, <1>4, <1>5, <1>6, <1>8, StackStep

LEMMA SetIndexStep ==
    ASSUME VMInv, SetIndex
    PROVE  VMInv'
<1> DEFINE a == Peek(2)
           old == Elements(a)
           i == IF Peek(1)[2] < 0 THEN Peek(1)[2] + Len(old) ELSE Peek(1)[2]
           inside == i \in 0..(Len(old) - 1)
           long == IF inside THEN old ELSE Resize(old, i + 1)
           grows == /\ IsArray(a) /\ Peek(1)[1] = "int"
                    /\ inside \/ i \in Len(old)..(GrowLimit - 1)
           vs == [long EXCEPT ![i + 1] = Peek(0)]
           v == Peek(0)
           X == {}
           W == {}
<1>1. status = "running" /\ Instruction[1] = "SET_INDEX"
  BY DEF SetIndex, At
<1>2. Instruction[1] \in Straight
  BY <1>1 DEF Straight, Opcodes, ConditionalJumps
<1>3. StackEffect(Instruction)[1] = 3 /\ StackEffect(Instruction)[2] = 1
  BY <1>1, Effects
<1>4. PICK U, T : Typed(U, T, stack, cells, heap, globals)
  BY <1>1, TopFrame DEF Running
<1>5. /\ Advance /\ UNCHANGED <<program, cells, globals, status>> /\ ReplaceTop(3, v)
      /\ heap' = IF grows THEN [heap EXCEPT ![a[2]].v = vs] ELSE heap
  BY Zenon DEF SetIndex
<1>6. a \in U /\ v \in U /\ 3 \in 0..Len(stack)
  BY <1>1, <1>2, <1>3, <1>4, OperandValues
<1>7. heap' \in Seq(Objects(U, T)) /\ Len(heap') = Len(heap)
  <2>1. CASE grows
    <3>1. old \in Seq(U) /\ Len(old) \in Nat /\ IsArray(a)
      <4>1. IsArray(a)
        BY <2>1
      <4> HIDE DEF a
      <4> QED BY <1>4, <1>6, <4>1, ArrayElements
    <3>2. inside \/ i \in Len(old)..(GrowLimit - 1)
      BY <2>1
    <3> HIDE DEF a, old, i, v
    <3>3. long \in Seq(U)
      <4>1. CASE inside
        BY <3>1, <4>1
      <4>2. CASE ~inside
        <5>1. i \in Len(old)..(GrowLimit - 1)
          BY <3>2, <4>2
        <5>2. i + 1 \in Nat /\ None \in U
          BY <1>4, <3>1, <5>1 DEF Typed, GoodSet, GrowLimit
        <5>3. Resize(old, i + 1) \in Seq(U)
          BY <3>1, <5>2, ResizeSeq
        <5> QED BY <4>2, <5>3
      <4> QED BY <4>1, <4>2
    <3> HIDE DEF long
    <3> DEFINE k == i + 1
    <3>4. [long EXCEPT ![k] = v] \in Seq(U)
      <4> HIDE DEF k
      <4> QED BY <1>6, <3>3, ChangedSeq
    <3>5. vs \in Seq(U)
      BY <3>4 DEF v
    <3>6. heap' = [heap EXCEPT ![a[2]].v = vs]
      BY <1>5, <2>1
    <3> HIDE DEF vs
    <3> QED BY <1>4, <1>6, <3>1, <3>5, <3>6, ChangedArray
  <2>2. CASE ~grows
    <3>1. heap' = heap
      BY <1>5, <2>2
    <3> QED BY <1>4, <3>1 DEF Typed, Hold
  <2> QED BY <2>1, <2>2
<1>8. heap' \in Seq(Objects(U \cup W, T \cup X)) /\ Len(heap) <= Len(heap')
  BY <1>1, <1>7, TopFrame
<1>9. v \in U \cup W /\ \A w \in W : GoodValue(w, Len(cells), Len(heap'))
  BY <1>6
<1>10. StackEffect(Instruction)[2] - StackEffect(Instruction)[1] = 1 - 3
  BY <1>3
<1> HIDE DEF v, a, X, W, grows, vs
<1> QED BY <1>1, <1>2, <1>4, <1>5, <1>6, <1>8, <1>9, <1>10, ReplaceStep

LEMMA FailStep ==
    ASSUME VMInv, Fail
    PROVE  VMInv'
BY DEF VMInv, Fail

LEMMA GetLengthStep ==
    ASSUME VMInv, GetLength
    PROVE  VMInv'
<1> DEFINE v == LengthOf(Peek(0))
<1>1. status = "running" /\ Instruction[1] = "GET_PROPERTY"
  BY DEF GetLength, At
<1>2. CASE Fail
  BY <1>2, FailStep
<1>3. CASE /\ ReplaceTop(1, v) /\ Advance
           /\ UNCHANGED <<program, jitVars, cells, heap, globals, out, status>>
  <2>1. Instruction[1] \in Straight
    BY <1>1 DEF Straight, Opcodes, ConditionalJumps, Keeps
  <2>2. StackEffect(Instruction)[1] = 1 /\ StackEffect(Instruction)[2] = 1
    BY <1>1, Effects DEF Keeps
  <2>3. PICK U, T : Typed(U, T, stack, cells, heap, globals)
    BY <1>1, TopFrame DEF Running
  <2>4. Harmless(v)
    <3> DEFINE p == Peek(0)
    <3> HIDE DEF p
    <3>1. IsArray(p) => LengthOf(p) = IntV(Len(Elements(p)))
      <4>1. IsArray(p) => ~IsString(p)
        BY DEF IsArray, IsString, IsMutableString
      <4> QED BY <4>1, Zenon DEF LengthOf
    <3>2. ~IsArray(p) /\ IsString(p) => LengthOf(p) = IntV(Len(TextOf(p)))
      BY Zenon DEF LengthOf
    <3>3. ~IsArray(p) /\ ~IsString(p) => LengthOf(p) = None
      BY Zenon DEF LengthOf
    <3> QED BY <3>1, <3>2, <3>3, Kinds DEF p
  <2>5. 1 \in 0..Len(stack) /\ GoodValue(v, Len(cells), Len(heap))
    <3> HIDE DEF v
    <3> QED BY <1>1, <2>1, <2>2, <2>3, <2>4, OperandValues, HarmlessIsGood
  <2> HIDE DEF v
  <2> QED BY <1>1, <1>3, <2>1, <2>2, <2>3, <2>5, StackStep
<1> QED BY <1>2, <1>3 DEF GetLength

LEMMA IterArrayStep ==
    ASSUME VMInv, IterArray
    PROVE  VMInv'
<1>1. status = "running" /\ Instruction[1] = "ITER_ARRAY"
  BY DEF IterArray, At
<1>2. Instruction[1] \in Straight
  BY <1>1 DEF Straight, Opcodes, ConditionalJumps, Keeps
<1>3. StackEffect(Instruction)[1] = 1 /\ StackEffect(Instruction)[2] = 1
  BY <1>1, Effects DEF Keeps
<1>4. PICK U, T : Typed(U, T, stack, cells, heap, globals)
  BY <1>1, TopFrame DEF Running
<1>5. Peek(0) \in U /\ 1 \in 0..Len(stack)
  BY <1>1, <1>2, <1>3, <1>4, OperandValues
<1>6. CASE IsArray(Peek(0))
  <2>1. Advance /\ UNCHANGED <<program, cells, heap, globals, status>> /\ ReplaceTop(1, Peek(0))
    BY <1>6 DEF IterArray
  <2> QED BY <1>1, <1>2, <1>3, <1>4, <1>5, <2>1, StackStep
<1>7. CASE ~IsArray(Peek(0))
  <2> DEFINE o == ArrayObj(<<>>)
             X == {}
  <2>1. Advance /\ UNCHANGED <<program, cells, globals, status>>
        /\ heap' = Append(heap, o) /\ ReplaceTop(1, Ref(Len(heap) + 1))
    BY <1>7 DEF IterArray
  <2>2. o \in Objects(U, T \cup X)
    BY EmptySeq DEF Objects, ArrayObj
  <2> HIDE DEF o, X
  <2> QED BY <1>1, <1>2, <1>3, <1>4, <1>5, <2>1, <2>2, NewObjectStep
<1> QED BY <1>6, <1>7

LEMMA MakePairsStep ==
    ASSUME VMInv, MakePairs
    PROVE  VMInv'
<1> DEFINE vs == IF IsArray(Peek(0)) THEN Elements(Peek(0)) ELSE <<>>
           pairs == [i \in DOMAIN vs |-> ArrayObj(<<IntV(i - 1), vs[i]>>)]
           refs == [i \in DOMAIN vs |-> Ref(Len(heap) + i)]
           h == Len(heap)
           n == Len(vs)
           W == {Ref(k) : k \in 1..(h + n + 1)} \cup {IntV(k) : k \in Int}
           X == {}
<1>1. status = "running" /\ Instruction[1] = "MAKE_ITERATOR_KV"
  BY DEF MakePairs, At
<1>2. Instruction[1] \in Straight
  BY <1>1 DEF Straight, Opcodes, ConditionalJumps
<1>3. StackEffect(Instruction)[1] = 1 /\ StackEffect(Instruction)[2] = 2
  BY <1>1, Effects
<1>4. PICK U, T : Typed(U, T, stack, cells, heap, globals)
  BY <1>1, TopFrame DEF Running
<1>5. /\ Advance /\ UNCHANGED <<program, cells, globals, status>>
      /\ heap' = heap \o pairs \o <<ArrayObj(refs)>>
      /\ stack' = Drop(stack, 1) \o <<Ref(h + n + 1), IntV(0)>>
  BY Zenon DEF MakePairs
<1>6. vs \in Seq(U)
  <2>1. Peek(0) \in U
    BY <1>1, <1>2, <1>3, <1>4, OperandValues
  <2>2. CASE IsArray(Peek(0))
    BY <1>4, <2>1, <2>2, ArrayElements
  <2>3. CASE ~IsArray(Peek(0))
    BY <2>3
  <2> QED BY <2>2, <2>3
<1>7. h \in Nat /\ n \in Nat /\ DOMAIN vs = 1..n /\ \A i \in 1..n : vs[i] \in U
  <2> HIDE DEF vs
  <2> QED BY <1>1, <1>6, TopFrame, LenProperties, ElementOfSeq
<1> DEFINE V == U \cup W
           Y == T \cup X
<1>8. U \subseteq V /\ T \subseteq Y /\ (\A k \in 1..(h + n + 1) : Ref(k) \in V) /\ \A k \in Int : IntV(k) \in V
  OBVIOUS
<1>9. \A w \in W : GoodValue(w, Len(cells'), h + n + 1)
  BY DEF GoodValue, Ref, IntV
<1> HIDE DEF vs, W, X, h, V, Y
<1>10. pairs \in Seq(Objects(V, Y)) /\ Len(pairs) = n
  <2>1. ASSUME NEW i \in 1..n PROVE ArrayObj(<<IntV(i - 1), vs[i]>>) \in Objects(V, Y)
    <3>1. IntV(i - 1) \in V /\ vs[i] \in V
      BY <1>7, <1>8
    <3> DEFINE pair == <<IntV(i - 1), vs[i]>>
    <3>2. pair \in Seq(V)
      BY <3>1
    <3> HIDE DEF pair
    <3>3. ArrayObj(pair) \in Objects(V, Y)
      BY <3>2 DEF Objects, ArrayObj
    <3> QED BY <3>3 DEF pair
  <2> DEFINE O == Objects(V, Y)
             Pair(i) == ArrayObj(<<IntV(i - 1), vs[i]>>)
  <2>2. \A i \in 1..n : Pair(i) \in O
    BY <2>1
  <2>3. pairs = [i \in 1..n |-> Pair(i)]
    BY <1>7
  <2> HIDE DEF O, Pair, pairs, n
  <2>4. pairs \in [1..n -> O]
    BY <2>2, <2>3
  <2>5. pairs \in Seq(O)
    BY <1>7, <2>4, SeqDef
  <2>6. DOMAIN pairs = 1..Len(pairs) /\ Len(pairs) \in Nat
    BY <2>5, LenProperties
  <2> QED BY <1>7, <2>4, <2>5, <2>6 DEF O
<1>11. refs \in Seq(V)
  <2>1. \A i \in 1..n : Ref(Len(heap) + i) \in V
    BY <1>7, <1>8 DEF h
  <2> HIDE DEF n
  <2>2. refs \in [1..n -> V]
    BY <1>7, <2>1
  <2> HIDE DEF refs
  <2> QED BY <1>7, <2>2, SeqDef
<1>12. ArrayObj(refs) \in Objects(V, Y)
  <2> HIDE DEF refs
  <2> QED BY <1>11 DEF Objects, ArrayObj
<1>13. heap' \in Seq(Objects(V, Y)) /\ Len(heap') = h + n + 1
  <2> DEFINE O == Objects(V, Y)
             o == ArrayObj(refs)
             all == heap \o pairs
  <2>1. heap \in Seq(O) /\ Len(heap) = h
    BY <1>4, <1>8, MoreHold DEF Typed, Hold, h
  <2>2. pairs \in Seq(O) /\ Len(pairs) = n /\ o \in O
    BY <1>10, <1>12
  <2>3. heap' = all \o <<o>>
    BY <1>5
  <2> HIDE DEF O, pairs, o, n
  <2>4. all \in Seq(O) /\ Len(all) = h + n
    BY <2>1, <2>2, ConcatProperties
  <2>5. <<o>> \in Seq(O) /\ Len(<<o>>) = 1
    BY <2>2
  <2> HIDE DEF all
  <2>6. all \o <<o>> \in Seq(O) /\ Len(all \o <<o>>) = Len(all) + 1
    BY <2>4, <2>5, ConcatProperties
  <2> QED BY <2>3, <2>4, <2>6 DEF O
<1>14. stack' \in Seq(V) /\ Len(stack') = Len(stack) + 1
  <2>1. stack \in Seq(V) /\ Len(stack) \in Nat
    BY <1>1, <1>4, <1>8, MoreHold, TopFrame DEF Typed, Hold
  <2>2. 1 \in 0..Len(stack)
    BY <1>1, <1>2, <1>3, <1>4, OperandValues
  <2> DEFINE s == Drop(stack, 1)
             two == <<Ref(h + n + 1), IntV(0)>>
  <2>3. s \in Seq(V) /\ Len(s) = Len(stack) - 1
    BY <2>1, <2>2, DropSeq
  <2>4. two \in Seq(V) /\ Len(two) = 2
    <3>1. Ref(h + n + 1) \in V /\ IntV(0) \in V
      BY <1>7, <1>8
    <3> QED BY <3>1
  <2>5. stack' = s \o two
    BY <1>5
  <2> HIDE DEF s, two
  <2>6. s \o two \in Seq(V) /\ Len(s \o two) = Len(s) + Len(two)
    BY <2>3, <2>4, ConcatProperties
  <2> QED BY <2>1, <2>3, <2>4, <2>5, <2>6
<1>15. Hold(U \cup W, T \cup X, stack', cells', heap', globals')
  <2>1. Hold(V, Y, stack, cells, heap, globals)
    BY <1>4, <1>8, MoreHold DEF Typed
  <2> QED BY <1>5, <1>13, <1>14, <2>1 DEF Hold, V, Y
<1>16. Len(stack') = Len(stack) - StackEffect(Instruction)[1] + StackEffect(Instruction)[2]
  BY <1>1, <1>3, <1>14, TopFrame
<1>17. Len(cells) <= Len(cells') /\ Len(heap) <= Len(heap')
  BY <1>1, <1>5, <1>7, <1>13, TopFrame DEF h
<1>18. \A w \in W : GoodValue(w, Len(cells'), Len(heap'))
  BY <1>9, <1>13
<1> QED BY <1>1, <1>2, <1>4, <1>5, <1>15, <1>16, <1>17, <1>18, StateStep

(* The frame and the stack behind ITER_NEXT_KV, with the boolean that tells the branches     *)
(* apart on top.                                                                             *)
LEMMA NextPairStep ==
    ASSUME VMInv, NextPair
    PROVE  VMInv'
<1> DEFINE i == Peek(0)[2]
           pair == ElementAt(Peek(1), Peek(0))
           more == i \in 0..(Len(Elements(Peek(1))) - 1)
           heights == HeightsAt(Frame)
           h == heights[Frame.pc]
           fr == [Frame EXCEPT !.pc = Frame.pc + 1]
           W == {IntV(i + 1), BoolV(TRUE), BoolV(FALSE)}
<1>1. status = "running" /\ Instruction[1] = "ITER_NEXT_KV"
  BY DEF NextPair, At
<1>2. PICK W0, T : Typed(W0, T, stack, cells, heap, globals)
  BY <1>1, TopFrame DEF Running
<1>3. /\ Advance /\ UNCHANGED <<program, cells, heap, globals, status>>
      /\ stack' = IF more THEN Drop(stack, 1) \o <<IntV(i + 1), ElementAt(pair, IntV(0)),
                                                  ElementAt(pair, IntV(1)), BoolV(TRUE)>>
                  ELSE Append(stack, BoolV(FALSE))
  BY Zenon DEF NextPair
<1>4. /\ Settles(Frame, stack) /\ Frame.pc \in Nat /\ Frame.base \in Nat /\ h \in Nat
      /\ Len(stack) = Frame.base + LocalsOf(Frame) + h
      /\ ~Underflows(CodeAt(Frame), Frame.pc, h)
  BY <1>1, TopInstruction
<1>5. h >= 2
  <2>1. ~(h < 2)
    BY <1>1, <1>4 DEF Underflows, Instruction
  <2> QED BY <1>4, <2>1
<1> HIDE DEF h
<1>6. LocalsOf(Frame) \in Nat /\ Len(stack) \in Nat /\ stack \in Seq(W0) /\ Len(heap) \in Nat /\ Len(cells) \in Nat
      /\ Frame \in FrameSet(Len(cells)) /\ Frame = frames[Len(frames)] /\ Len(frames) \in DOMAIN frames
  BY <1>1, <1>2, TopFrame DEF Typed, Hold
<1>7. Len(stack) \in 1..Len(stack) /\ Len(stack) - 1 \in 1..Len(stack) /\ 1 \in 0..Len(stack)
  BY <1>4, <1>5, <1>6
<1>8. Peek(1) \in W0
  BY <1>6, <1>7, ElementOfSeq DEF Peek
<1> DEFINE W1 == W0 \cup {pair}
           W2 == W1 \cup {ElementAt(pair, IntV(0))}
           U == W2 \cup {ElementAt(pair, IntV(1))}
<1>9. Typed(U, T, stack, cells, heap, globals)
  <2>1. Typed(W1, T, stack, cells, heap, globals) /\ pair \in W1
    BY <1>2, <1>8, ElementTyped
  <2> HIDE DEF W1, pair
  <2>2. Typed(W2, T, stack, cells, heap, globals) /\ pair \in W2
    BY <2>1, ElementTyped
  <2> HIDE DEF W2
  <2> QED BY <2>2, ElementTyped
<1>10. ElementAt(pair, IntV(0)) \in U /\ ElementAt(pair, IntV(1)) \in U
  OBVIOUS
<1> HIDE DEF pair, i, more, U, W1, W2
<1> DEFINE V == U \cup W
<1>11. IntV(i + 1) \in V /\ BoolV(TRUE) \in V /\ BoolV(FALSE) \in V /\ U \subseteq V
  OBVIOUS
<1>12. \A w \in W : GoodValue(w, Len(cells), Len(heap))
  BY Kinds, HarmlessIsGood
<1>13. Typed(V, T, stack, cells, heap, globals)
  <2>1. Hold(V, T, stack, cells, heap, globals)
    BY <1>9, <1>11, MoreHold DEF Typed
  <2>2. GoodSet(V, Len(cells), Len(heap))
    <3>1. GoodSet(U, Len(cells), Len(heap)) /\ Len(cells) <= Len(cells) /\ Len(heap) <= Len(heap)
      BY <1>6, <1>9 DEF Typed
    <3> HIDE DEF W
    <3> QED BY <1>6, <1>12, <3>1, MoreIsGood
  <2> QED BY <2>1, <2>2 DEF Typed
<1> HIDE DEF V
<1>14. /\ stack' \in Seq(V)
       /\ \/ stack'[Len(stack')] = BoolV(TRUE) /\ Len(stack') = Len(stack) + 3
          \/ stack'[Len(stack')] = BoolV(FALSE) /\ Len(stack') = Len(stack) + 1
  <2>1. stack \in Seq(V)
    BY <1>13 DEF Typed, Hold
  <2>2. CASE more
    <3> DEFINE s == Drop(stack, 1)
               a == IntV(i + 1)
               b == ElementAt(pair, IntV(0))
               c == ElementAt(pair, IntV(1))
               d == BoolV(TRUE)
               four == <<a, b, c, d>>
    <3>1. s \in Seq(V) /\ Len(s) = Len(stack) - 1 /\ Len(s) \in Nat
      BY <1>6, <1>7, <2>1, DropSeq
    <3>2. a \in V /\ b \in V /\ c \in V /\ d \in V
      BY <1>10, <1>11
    <3>3. stack' = s \o four
      BY <1>3, <2>2
    <3> HIDE DEF s, a, b, c, d
    <3>4. four \in Seq(V) /\ Len(four) = 4 /\ four[4] = d
      BY <3>2
    <3> HIDE DEF four
    <3>5. /\ s \o four \in Seq(V) /\ Len(s \o four) = Len(s) + 4
          /\ (s \o four)[Len(s) + 4] = four[Len(s) + 4 - Len(s)]
      <4>1. Len(s) + 4 \in 1..(Len(s) + Len(four)) /\ ~(Len(s) + 4 <= Len(s))
        BY <3>1, <3>4
      <4>2. s \o four \in Seq(V) /\ Len(s \o four) = Len(s) + Len(four)
        BY <3>1, <3>4, ConcatProperties
      <4>3. (s \o four)[Len(s) + 4] = IF Len(s) + 4 <= Len(s) THEN s[Len(s) + 4]
                                                         ELSE four[Len(s) + 4 - Len(s)]
        <5> DEFINE j == Len(s) + 4
        <5>1. s \in Seq(V) /\ four \in Seq(V) /\ j \in 1..(Len(s) + Len(four))
          BY <3>1, <3>4, <4>1
        <5> HIDE DEF j
        <5>2. (s \o four)[j] = IF j <= Len(s) THEN s[j] ELSE four[j - Len(s)]
          BY <5>1, ConcatProperties
        <5> QED BY <5>2 DEF j
      <4>4. (s \o four)[Len(s) + 4] = four[Len(s) + 4 - Len(s)]
        BY <4>1, <4>3, Zenon
      <4>5. Len(s \o four) = Len(s) + 4
        BY <3>4, <4>2
      <4> QED BY <4>2, <4>4, <4>5
    <3>6. Len(s) + 4 - Len(s) = 4 /\ Len(s) + 4 = Len(stack) + 3
      BY <1>6, <3>1
    <3> QED BY <3>3, <3>4, <3>5, <3>6 DEF d
  <2>3. CASE ~more
    <3> DEFINE d == BoolV(FALSE)
    <3>1. stack' = Append(stack, d) /\ d \in V
      BY <1>3, <1>11, <2>3
    <3> HIDE DEF d
    <3>2. Append(stack, d) \in Seq(V) /\ Len(Append(stack, d)) = Len(stack) + 1
          /\ Append(stack, d)[Len(stack) + 1] = d
      BY <2>1, <3>1, AppendProperties
    <3> QED BY <3>1, <3>2 DEF d
  <2> QED BY <2>2, <2>3
<1>15. \E VV, YY : Typed(VV, YY, stack', cells', heap', globals')
  BY <1>3, <1>13, <1>14 DEF Typed, Hold
<1>16. /\ fr \in FrameSet(Len(cells)) /\ fr.pc = Frame.pc + 1
       /\ fr.func = Frame.func /\ fr.base = Frame.base /\ fr.native = Frame.native
  <2>1. Frame.pc + 1 \in Nat
    BY <1>4
  <2> QED BY <1>6, <2>1, MovedFrame
<1>17. frames' = [frames EXCEPT ![Len(frames)] = fr]
  BY <1>3, <1>6 DEF Advance, Goto
<1> HIDE DEF fr
<1>18. Branches(fr, stack')
  <2>1. HeightsAt(fr) = heights /\ LocalsOf(fr) = LocalsOf(Frame) /\ CodeAt(fr) = CodeAt(Frame)
    BY <1>16 DEF HeightsAt, LocalsOf, CodeAt
  <2>2. fr.pc - 1 = Frame.pc
    BY <1>4, <1>16
  <2>3. CodeAt(fr)[fr.pc][1] = "ITER_NEXT_KV"
    BY <1>1, <1>16, <2>1 DEF Instruction
  <2>4. Frame.pc \in DOMAIN heights
    BY <1>4 DEF Settles
  <2>5. \/ stack'[Len(stack')] = BoolV(TRUE) /\ HeightOf(fr, Len(stack')) = h + 3
        \/ stack'[Len(stack')] = BoolV(FALSE) /\ HeightOf(fr, Len(stack')) = h + 1
    <3>1. HeightOf(fr, Len(stack')) = Len(stack') - Frame.base - LocalsOf(Frame)
      BY <1>16, <2>1 DEF HeightOf
    <3>2. ASSUME NEW k \in Nat, Len(stack') = Len(stack) + k
          PROVE  HeightOf(fr, Len(stack')) = h + k
      <4>1. Len(stack) + k = Frame.base + LocalsOf(Frame) + h + k
        BY <1>4
      <4> DEFINE base == Frame.base
                 l == LocalsOf(Frame)
      <4>2. base \in Nat /\ l \in Nat /\ h \in Nat
        BY <1>4, <1>6
      <4> HIDE DEF base, l
      <4>3. (base + l + h + k) - base - l = h + k
        BY <4>2
      <4>4. Len(stack') - base - l = h + k
        BY <3>2, <4>1, <4>3 DEF base, l
      <4> QED BY <3>1, <4>4 DEF base, l
    <3> QED BY <1>14, <3>2
  <2> QED BY <2>1, <2>2, <2>3, <2>4, <2>5 DEF Branches, h
<1>19. fr \in FrameSet(Len(cells')) /\ Len(cells') \in Nat /\ Len(cells) <= Len(cells')
  BY <1>3, <1>6, <1>16
<1> QED BY <1>1, <1>3, <1>15, <1>16, <1>17, <1>18, <1>19, StepInFrame

-----------------------------------------------------------------------------
(* Jumps. *)

(* A place in the code that has the height which is left. *)
LEMMA GotoStep ==
    ASSUME VMInv, status = "running", UNCHANGED <<program, cells, heap, globals, status>>,
           NEW p, Goto(p), p \in DOMAIN HeightsAt(Frame),
           NEW n \in 0..Len(stack), stack' = Drop(stack, n),
           HeightOf(Frame, Len(stack) - n) = HeightsAt(Frame)[p]
    PROVE  VMInv'
<1> DEFINE fr == [Frame EXCEPT !.pc = p]
<1>1. /\ Frame \in FrameSet(Len(cells)) /\ Len(cells) \in Nat /\ HasCode(Frame) /\ program \in DOMAIN Programs
      /\ Frame = frames[Len(frames)] /\ Len(frames) \in DOMAIN frames
  BY TopFrame
<1>2. p \in Nat
  BY <1>1, FrameCode DEF Consistent, HeightsOver
<1>3. /\ fr \in FrameSet(Len(cells)) /\ fr.pc = p
      /\ fr.func = Frame.func /\ fr.base = Frame.base /\ fr.native = Frame.native
  BY <1>1, <1>2, MovedFrame
<1>4. frames' = [frames EXCEPT ![Len(frames)] = fr]
  BY <1>1 DEF Goto
<1> HIDE DEF fr
<1>5. PICK U, T : Typed(U, T, stack, cells, heap, globals)
  BY TopFrame DEF Running
<1>6. stack' \in Seq(U) /\ Len(stack') = Len(stack) - n
  <2>1. stack \in Seq(U)
    BY <1>5 DEF Typed, Hold
  <2> QED BY <2>1, DropSeq
<1>7. Typed(U, T, stack', cells', heap', globals')
  BY <1>5, <1>6 DEF Typed, Hold
<1>8. Settles(fr, stack')
  <2>1. HeightsAt(fr) = HeightsAt(Frame) /\ LocalsOf(fr) = LocalsOf(Frame)
    BY <1>3 DEF HeightsAt, LocalsOf
  <2> QED BY <1>3, <1>6, <2>1 DEF Settles, HeightOf
<1>9. fr \in FrameSet(Len(cells')) /\ Len(cells') \in Nat /\ Len(cells) <= Len(cells')
  BY <1>1, <1>3
<1> QED BY <1>3, <1>4, <1>7, <1>8, <1>9, StepInFrame

LEMMA JumpStep ==
    ASSUME VMInv, Jump
    PROVE  VMInv'
<1> DEFINE heights == HeightsAt(Frame)
           h == heights[Frame.pc]
           p == Frame.pc + 1 + Instruction[2]
<1>1. status = "running" /\ Instruction[1] = "JUMP" /\ Goto(p)
      /\ UNCHANGED <<program, stack, cells, heap, globals, status>>
  BY DEF Jump, At
<1>2. /\ h \in Nat /\ HeightOf(Frame, Len(stack)) = h
      /\ \A t \in Successors(CodeAt(Frame), Frame.pc, h) : t[1] \in DOMAIN heights /\ heights[t[1]] = t[2]
  BY <1>1, TopInstruction DEF Settles
<1>3. StackEffect(Instruction) = <<0, 0>>
  BY <1>1, Effects
<1> HIDE DEF h, heights
<1>4. <<p, h - 0 + 0>> \in Successors(CodeAt(Frame), Frame.pc, h)
  <2>1. Instruction = CodeAt(Frame)[Frame.pc + 1]
    BY DEF Instruction
  <2> QED BY <1>1, <1>3, <2>1, NextPlaces
<1> HIDE DEF p
<1>5. p \in DOMAIN heights /\ heights[p] = h
  BY <1>2, <1>4
<1>6. 0 \in 0..Len(stack) /\ stack' = Drop(stack, 0) /\ Len(stack) - 0 = Len(stack)
  <2>1. PICK U, T : Typed(U, T, stack, cells, heap, globals)
    BY <1>1, TopFrame DEF Running
  <2>2. stack \in Seq(U) /\ Len(stack) \in Nat
    BY <1>1, <2>1, TopFrame DEF Typed, Hold
  <2>3. SubSeq(stack, 1, Len(stack)) = stack
    BY <2>2
  <2> QED BY <1>1, <2>2, <2>3 DEF Drop
<1> QED BY <1>1, <1>2, <1>5, <1>6, GotoStep DEF heights

(* Both ways of a branch, from a place where the height is as expected. *)
LEMMA BranchPlaces ==
    ASSUME VMInv, status = "running", Settles(Frame, stack),
           Instruction[1] \in ConditionalJumps \cup {"BRANCH"}
    PROVE  LET heights == HeightsAt(Frame)
               left == HeightOf(Frame, Len(stack) - 1)
           IN /\ 1 \in 0..Len(stack)
              /\ Instruction[1] \in ConditionalJumps =>
                   \A p \in {Frame.pc + 1 + Instruction[2], Frame.pc + 1} :
                      p \in DOMAIN heights /\ left = heights[p]
              /\ Instruction[1] = "BRANCH" =>
                   \A p \in {Instruction[2], Instruction[3]} : p \in DOMAIN heights /\ left = heights[p]
<1> DEFINE heights == HeightsAt(Frame)
           h == heights[Frame.pc]
           code == CodeAt(Frame)
           next == Successors(code, Frame.pc, h)
<1>1. /\ h \in Nat /\ Len(stack) = Frame.base + LocalsOf(Frame) + h /\ HeightOf(Frame, Len(stack)) = h
      /\ ~Underflows(code, Frame.pc, h) /\ Frame.base \in Nat /\ Frame.pc \in Nat
      /\ \A t \in next : t[1] \in DOMAIN heights /\ heights[t[1]] = t[2]
  BY TopInstruction DEF Settles
<1>2. LocalsOf(Frame) \in Nat /\ Len(stack) \in Nat
  BY TopFrame
<1>3. Instruction = code[Frame.pc + 1]
  BY DEF Instruction
<1>4. StackEffect(Instruction) = <<1, 0>>
  BY Effects
<1>5. ~(h < 1)
  BY <1>1, <1>3, <1>4 DEF Underflows, ConditionalJumps
<1> HIDE DEF h
<1>6. 1 \in 0..Len(stack) /\ HeightOf(Frame, Len(stack) - 1) = h - 1 + 0
  <2>1. Len(stack) - 1 - Frame.base - LocalsOf(Frame) = h - 1
    <3> DEFINE base == Frame.base
               l == LocalsOf(Frame)
    <3> HIDE DEF base, l
    <3>1. base \in Nat /\ l \in Nat /\ h \in Nat /\ Len(stack) = base + l + h
      BY <1>1, <1>2 DEF base, l
    <3>2. Len(stack) - 1 - base - l = h - 1
      BY <3>1
    <3> QED BY <3>2 DEF base, l
  <2> QED BY <1>1, <1>2, <1>5, <2>1 DEF HeightOf
<1>7. Instruction[1] \in ConditionalJumps =>
         next = {<<Frame.pc + 1 + Instruction[2], h - 1 + 0>>, <<Frame.pc + 1, h - 1 + 0>>}
  BY <1>3, <1>4, NextPlaces
<1>8. Instruction[1] = "BRANCH" =>
         next = {<<Instruction[2], h - 1 + 0>>, <<Instruction[3], h - 1 + 0>>}
  BY <1>3, <1>4, NextPlaces
<1> HIDE DEF next, heights
<1>9. ASSUME Instruction[1] \in ConditionalJumps, NEW p \in {Frame.pc + 1 + Instruction[2], Frame.pc + 1}
      PROVE  p \in DOMAIN heights /\ heights[p] = h - 1 + 0
  <2>1. <<p, h - 1 + 0>> \in next
    BY <1>7, <1>9
  <2> QED BY <1>1, <2>1
<1>10. ASSUME Instruction[1] = "BRANCH", NEW p \in {Instruction[2], Instruction[3]}
       PROVE  p \in DOMAIN heights /\ heights[p] = h - 1 + 0
  <2>1. <<p, h - 1 + 0>> \in next
    BY <1>8, <1>10
  <2> QED BY <1>1, <2>1
<1> QED BY <1>6, <1>9, <1>10 DEF heights

LEMMA NativeJumpStep ==
    ASSUME VMInv, NativeJump
    PROVE  VMInv'
<1> DEFINE heights == HeightsAt(Frame)
           h == heights[Frame.pc]
<1>1. status = "running" /\ Instruction[1] \in {"GOTO", "BRANCH"}
      /\ UNCHANGED <<program, cells, heap, globals, status>>
  BY DEF NativeJump, At
<1>2. Instruction[1] # "JUMP_IF_FALSE"
  BY <1>1
<1>3. /\ Settles(Frame, stack) /\ h \in Nat /\ HeightOf(Frame, Len(stack)) = h
      /\ \A t \in Successors(CodeAt(Frame), Frame.pc, h) : t[1] \in DOMAIN heights /\ heights[t[1]] = t[2]
  BY <1>1, <1>2, TopInstruction DEF Settles
<1>4. CASE Instruction[1] = "GOTO"
  <2> DEFINE p == Instruction[2]
  <2>1. Goto(p) /\ UNCHANGED stack
    BY <1>4 DEF NativeJump
  <2>2. StackEffect(Instruction) = <<0, 0>>
    BY <1>4, Effects
  <2> HIDE DEF h, heights
  <2>3. <<p, h - 0 + 0>> \in Successors(CodeAt(Frame), Frame.pc, h)
    <3>1. Instruction = CodeAt(Frame)[Frame.pc + 1]
      BY DEF Instruction
    <3> QED BY <1>4, <2>2, <3>1, NextPlaces
  <2> HIDE DEF p
  <2>4. p \in DOMAIN heights /\ heights[p] = h
    BY <1>3, <2>3
  <2>5. 0 \in 0..Len(stack) /\ stack' = Drop(stack, 0) /\ Len(stack) - 0 = Len(stack)
    <3>1. PICK U, T : Typed(U, T, stack, cells, heap, globals)
      BY <1>1, TopFrame DEF Running
    <3>2. stack \in Seq(U) /\ Len(stack) \in Nat
      BY <1>1, <3>1, TopFrame DEF Typed, Hold
    <3>3. SubSeq(stack, 1, Len(stack)) = stack
      BY <3>2
    <3> QED BY <2>1, <3>2, <3>3 DEF Drop
  <2> QED BY <1>1, <1>3, <2>1, <2>4, <2>5, GotoStep DEF heights
<1>5. CASE Instruction[1] = "BRANCH"
  <2> DEFINE p == IF IsTruthy(Peek(0)) THEN Instruction[2] ELSE Instruction[3]
  <2>1. Goto(p) /\ stack' = Drop(stack, 1)
    BY <1>5 DEF NativeJump
  <2>2. p \in {Instruction[2], Instruction[3]}
    BY Zenon
  <2> HIDE DEF p
  <2>3. 1 \in 0..Len(stack) /\ p \in DOMAIN heights /\ HeightOf(Frame, Len(stack) - 1) = heights[p]
    BY <1>1, <1>3, <1>5, <2>2, BranchPlaces
  <2> QED BY <1>1, <2>1, <2>3, GotoStep
<1> QED BY <1>1, <1>4, <1>5

(* Behind ITER_NEXT_KV the boolean tells which branch has the height. *)
LEMMA PairPlaces ==
    ASSUME VMInv, status = "running", Branches(Frame, stack)
    PROVE  LET heights == HeightsAt(Frame)
               left == HeightOf(Frame, Len(stack) - 1)
               taken == Frame.pc + 1 + Instruction[2]
           IN /\ Instruction[1] = "JUMP_IF_FALSE" /\ 1 \in 0..Len(stack)
              /\ \/ Peek(0) = BoolV(TRUE) /\ Frame.pc + 1 \in DOMAIN heights /\ left = heights[Frame.pc + 1]
                 \/ Peek(0) = BoolV(FALSE) /\ taken \in DOMAIN heights /\ left = heights[taken]
<1> DEFINE heights == HeightsAt(Frame)
           code == CodeAt(Frame)
           before == Frame.pc - 1
           h == heights[before]
           next == Successors(code, before, h)
           taken == Frame.pc + 1 + Instruction[2]
<1>1. /\ HasCode(Frame) /\ program \in DOMAIN Programs /\ Frame \in FrameSet(Len(cells))
      /\ LocalsOf(Frame) \in Nat /\ Len(stack) \in Nat
  BY TopFrame
<1>2. Frame.pc \in Nat /\ Frame.base \in Nat
  BY <1>1 DEF FrameSet
<1>3. /\ InRange(code) /\ Consistent(code, heights)
      /\ \A j \in DOMAIN code : code[j][1] = "ITER_NEXT_KV" => code[j + 1][1] = "JUMP_IF_FALSE"
      /\ \A j \in DOMAIN code : Operands(Len(Chunk), LocalsOf(Frame), code[j])
  BY <1>1, FrameCode
<1>4. before \in DOMAIN heights /\ code[Frame.pc][1] = "ITER_NEXT_KV"
      /\ \/ stack[Len(stack)] = BoolV(TRUE) /\ HeightOf(Frame, Len(stack)) = h + 3
         \/ stack[Len(stack)] = BoolV(FALSE) /\ HeightOf(Frame, Len(stack)) = h + 1
  BY DEF Branches
<1>5. before \in 0..(Len(code) - 1) /\ h \in Nat /\ ~Underflows(code, before, h)
      /\ \A t \in next : t[1] \in DOMAIN heights /\ heights[t[1]] = t[2]
  BY <1>3, <1>4 DEF Consistent, HeightsOver
<1>6. before + 1 = Frame.pc /\ before + 2 = Frame.pc + 1
  BY <1>2
<1>7. Frame.pc \in DOMAIN code
  BY <1>3, <1>5, <1>6, InCode
<1>8. Instruction[1] = "JUMP_IF_FALSE" /\ Instruction = code[before + 2]
  BY <1>3, <1>4, <1>6, <1>7 DEF Instruction
<1>9. before + 2 + Instruction[2] = taken
  BY <1>6
<1> HIDE DEF h, before, taken, heights, code
<1>10. next = {<<taken, h>>, <<Frame.pc + 1, h + 2>>}
  <2>1. code[before + 1][1] = "ITER_NEXT_KV"
    BY <1>4, <1>6
  <2>2. next = {<<before + 2 + code[before + 2][2], h>>, <<before + 2, h + 2>>}
    BY <2>1, NextPlaces
  <2> QED BY <1>6, <1>8, <1>9, <2>2
<1>11. /\ Frame.pc + 1 \in DOMAIN heights /\ heights[Frame.pc + 1] = h + 2
       /\ taken \in DOMAIN heights /\ heights[taken] = h
  <2>1. <<taken, h>> \in next /\ <<Frame.pc + 1, h + 2>> \in next
    BY <1>10
  <2> HIDE DEF next
  <2> QED BY <1>5, <2>1
<1>12. /\ HeightOf(Frame, Len(stack)) - 1 = HeightOf(Frame, Len(stack) - 1)
       /\ HeightOf(Frame, Len(stack)) > 0 => 1 \in 0..Len(stack)
  BY <1>1, <1>2 DEF HeightOf
<1>13. Peek(0) = stack[Len(stack)]
  BY <1>1 DEF Peek
<1>14. CASE stack[Len(stack)] = BoolV(TRUE) /\ HeightOf(Frame, Len(stack)) = h + 3
  <2>1. HeightOf(Frame, Len(stack)) > 0 /\ HeightOf(Frame, Len(stack)) - 1 = h + 2
    BY <1>5, <1>14
  <2> QED BY <1>8, <1>11, <1>12, <1>13, <1>14, <2>1 DEF heights, taken
<1>15. CASE stack[Len(stack)] = BoolV(FALSE) /\ HeightOf(Frame, Len(stack)) = h + 1
  <2>1. HeightOf(Frame, Len(stack)) > 0 /\ HeightOf(Frame, Len(stack)) - 1 = h
    BY <1>5, <1>15
  <2> QED BY <1>8, <1>11, <1>12, <1>13, <1>15, <2>1 DEF heights, taken
<1> QED BY <1>4, <1>14, <1>15

LEMMA ConditionalJumpStep ==
    ASSUME VMInv, ConditionalJump
    PROVE  VMInv'
<1> DEFINE heights == HeightsAt(Frame)
           p == Frame.pc + 1 + (IF JumpTaken THEN Instruction[2] ELSE 0)
           taken == Frame.pc + 1 + Instruction[2]
<1>1. status = "running" /\ Instruction[1] \in ConditionalJumps /\ Goto(p) /\ stack' = Drop(stack, 1)
      /\ UNCHANGED <<program, cells, heap, globals, status>>
  BY DEF ConditionalJump, At, ConditionalJumps
<1>2. (JumpTaken => p = taken) /\ (~JumpTaken => p = Frame.pc + 1)
  <2>1. Frame.pc \in Nat
    BY <1>1, TopFrame DEF FrameSet
  <2> QED BY <2>1
<1> HIDE DEF p, taken
<1>3. 1 \in 0..Len(stack) /\ p \in DOMAIN heights /\ HeightOf(Frame, Len(stack) - 1) = heights[p]
  <2>1. CASE Settles(Frame, stack)
    <3>1. p \in {taken, Frame.pc + 1}
      BY <1>2
    <3> QED BY <1>1, <2>1, <3>1, BranchPlaces DEF taken
  <2>2. CASE Branches(Frame, stack)
    <3>1. /\ Instruction[1] = "JUMP_IF_FALSE" /\ 1 \in 0..Len(stack)
          /\ \/ /\ Peek(0) = BoolV(TRUE) /\ Frame.pc + 1 \in DOMAIN heights
                /\ HeightOf(Frame, Len(stack) - 1) = heights[Frame.pc + 1]
             \/ /\ Peek(0) = BoolV(FALSE) /\ taken \in DOMAIN heights
                /\ HeightOf(Frame, Len(stack) - 1) = heights[taken]
      BY <1>1, <2>2, PairPlaces DEF taken
    <3>2. JumpTaken = ~IsTruthy(Peek(0))
      BY <3>1, Zenon DEF JumpTaken
    <3>3. IsTruthy(BoolV(TRUE)) /\ ~IsTruthy(BoolV(FALSE))
      <4>1. \A v : v[1] = "bool" => IsTruthy(v) = v[2]
        <5>1. \A v : v[1] = "bool" => ~IsString(v) /\ ~IsArray(v)
          BY DEF IsString, IsMutableString, IsArray
        <5>2. "bool" # "none" /\ "bool" # "int"
          OBVIOUS
        <5> QED BY <5>1, <5>2, Zenon DEF IsTruthy
      <4>2. BoolV(TRUE)[1] = "bool" /\ BoolV(TRUE)[2] = TRUE /\ BoolV(FALSE)[1] = "bool" /\ BoolV(FALSE)[2] = FALSE
        BY DEF BoolV
      <4> QED BY <4>1, <4>2, Zenon
    <3>4. CASE Peek(0) = BoolV(TRUE)
      <4>1. ~JumpTaken
        BY <3>2, <3>3, <3>4, Zenon
      <4>2. BoolV(TRUE) # BoolV(FALSE)
        BY <3>3, Zenon
      <4> QED BY <1>2, <3>1, <3>4, <4>1, <4>2, Zenon
    <3>5. CASE Peek(0) = BoolV(FALSE)
      <4>1. JumpTaken
        BY <3>2, <3>3, <3>5, Zenon
      <4>2. BoolV(TRUE) # BoolV(FALSE)
        BY <3>3, Zenon
      <4> QED BY <1>2, <3>1, <3>5, <4>1, <4>2, Zenon
    <3> QED BY <3>1, <3>4, <3>5, Zenon
  <2> QED BY <1>1, <2>1, <2>2, TopFrame
<1> QED BY <1>1, <1>3, GotoStep

-----------------------------------------------------------------------------
(* Calls. *)

(* A new frame on top: the one that calls waits for its result. *)
LEMMA CallStep ==
    ASSUME VMInv, status = "running", Instruction[1] \in Straight, StackEffect(Instruction)[2] = 1,
           UNCHANGED <<program, status, cells>>,
           NEW new \in FrameSet(Len(cells)), HasCode(new), new.pc = 0,
           new.base = Len(stack) - StackEffect(Instruction)[1],
           frames' = Append([frames EXCEPT ![Len(frames)].pc = @ + 1], new),
           Len(stack') = new.base + LocalsOf(new),
           \E U, T : Typed(U, T, stack', cells', heap', globals')
    PROVE  VMInv'
<1> DEFINE n == Len(frames)
           fr == [Frame EXCEPT !.pc = Frame.pc + 1]
           fs == [frames EXCEPT ![n] = fr]
           heights == HeightsAt(Frame)
           effect == StackEffect(Instruction)
<1>1. /\ n \in Nat \ {0} /\ n \in DOMAIN frames /\ DOMAIN frames = 1..n
      /\ Frame = frames[n] /\ HasCode(Frame) /\ program \in DOMAIN Programs /\ Running
      /\ Len(cells) \in Nat /\ Frame \in FrameSet(Len(cells)) /\ LocalsOf(Frame) \in Nat
  BY TopFrame
<1>2. Frame.pc + 1 \in Nat
  BY <1>1 DEF FrameSet
<1>3. /\ fr \in FrameSet(Len(cells)) /\ fr.pc = Frame.pc + 1
      /\ fr.func = Frame.func /\ fr.base = Frame.base /\ fr.native = Frame.native
  BY <1>1, <1>2, MovedFrame
<1>4. frames' = Append(fs, new)
  BY <1>1
<1> HIDE DEF fr
<1>5. frames \in Seq(FrameSet(Len(cells))) /\ FramesFit(frames, stack)
  BY <1>1 DEF Running
<1>6. fs \in Seq(FrameSet(Len(cells))) /\ Len(fs) = n
  <2> HIDE DEF n
  <2>1. [frames EXCEPT ![n] = fr] \in Seq(FrameSet(Len(cells))) /\ Len([frames EXCEPT ![n] = fr]) = Len(frames)
    BY <1>3, <1>5, ChangedSeq
  <2> QED BY <2>1 DEF n
<1>7. fs[n] = fr /\ \A k \in 1..(n - 1) : fs[k] = frames[k]
  <2> HIDE DEF n
  <2>1. \A k \in 1..(n - 1) : k \in DOMAIN frames /\ k # n
    BY <1>1
  <2> QED BY <1>1, <2>1
<1> HIDE DEF fs
<1>8. /\ frames' \in Seq(FrameSet(Len(cells))) /\ Len(frames') = n + 1 /\ DOMAIN frames' = 1..(n + 1)
      /\ frames'[n + 1] = new /\ \A k \in 1..n : frames'[k] = fs[k]
  <2>1. /\ Append(fs, new) \in Seq(FrameSet(Len(cells))) /\ Len(Append(fs, new)) = n + 1
        /\ Append(fs, new)[n + 1] = new /\ \A k \in 1..n : Append(fs, new)[k] = fs[k]
    BY <1>6, AppendProperties
  <2> QED BY <1>4, <2>1, LenProperties
<1>9. \A f : HasCode(f)' = HasCode(f) /\ LocalsOf(f)' = LocalsOf(f) /\ HeightsAt(f)' = HeightsAt(f)
             /\ CodeAt(f)' = CodeAt(f)
  BY DEF HasCode, LocalsOf, HeightsAt, CodeAt, Chunk
<1>10. FrameSet(Len(cells))' = FrameSet(Len(cells))
  BY DEF FrameSet, Chunk
<1>11. \A f, m : Waits(f, m)' = Waits(f, m)
  BY <1>9 DEF Waits, HeightOf
<1>12. Waits(fr, new.base)
  <2>1. HeightsAt(fr) = heights /\ LocalsOf(fr) = LocalsOf(Frame)
    BY <1>3 DEF HeightsAt, LocalsOf
  <2>2. /\ effect[1] \in Nat /\ effect[2] = 1 /\ heights[Frame.pc] \in Nat
        /\ Len(stack) = Frame.base + LocalsOf(Frame) + heights[Frame.pc]
        /\ Frame.pc + 1 \in DOMAIN heights
        /\ heights[Frame.pc + 1] = heights[Frame.pc] - effect[1] + effect[2]
    BY StraightOn
  <2>3. Frame.base \in Nat /\ new.base = Len(stack) - effect[1]
    BY <1>1 DEF FrameSet
  <2> DEFINE a == effect[1]
             h == heights[Frame.pc]
             l == LocalsOf(Frame)
             base == Frame.base
  <2>4. a \in Nat /\ h \in Nat /\ l \in Nat /\ base \in Nat
        /\ new.base = (base + l + h) - a /\ heights[Frame.pc + 1] = h - a + 1
    BY <1>1, <2>2, <2>3
  <2> HIDE DEF a, h, l, base
  <2>5. new.base - base - l + 1 = heights[Frame.pc + 1]
    BY <2>4
  <2> HIDE DEF heights
  <2> QED BY <1>3, <2>1, <2>2, <2>5 DEF Waits, HeightOf, l, base
<1>13. Settles(new, stack)'
  <2>1. InRange(CodeAt(new)) /\ Consistent(CodeAt(new), HeightsAt(new))
    BY <1>1, FrameCode
  <2>2. 0 \in DOMAIN HeightsAt(new) /\ HeightsAt(new)[0] = 0
    BY <2>1 DEF Consistent, HeightsOver
  <2>3. new.base \in Nat /\ LocalsOf(new) \in Nat
    BY <1>1, FunctionShape DEF FrameSet, LocalsOf, HasCode
  <2>4. Len(stack') - new.base - LocalsOf(new) = 0
    BY <2>3
  <2> QED BY <1>9, <2>2, <2>4 DEF Settles, HeightOf
<1>14. FramesFit(frames, stack)'
  <2> HIDE DEF n
  <2>1. ASSUME NEW k \in 1..(n + 1) PROVE HasCode(frames'[k])
    <3>1. k = n + 1 \/ k = n \/ k \in 1..(n - 1)
      BY <1>1
    <3>2. HasCode(fr)
      BY <1>1, <1>3 DEF HasCode
    <3>3. n \in 1..n /\ \A j \in 1..(n - 1) : j \in 1..n
      BY <1>1
    <3> QED BY <1>1, <1>5, <1>7, <1>8, <3>1, <3>2, <3>3 DEF FramesFit
  <2>2. ASSUME NEW k \in 1..n PROVE Waits(frames'[k], frames'[k + 1].base)
    <3>1. CASE k = n
      BY <1>7, <1>8, <1>12, <3>1
    <3>2. CASE k # n
      <4>1. k \in 1..(n - 1) /\ k + 1 \in 1..n
        BY <1>1, <3>2
      <4>2. Waits(frames[k], frames[k + 1].base)
        BY <1>5, <4>1 DEF FramesFit, n
      <4>3. fs[k + 1].base = frames[k + 1].base
        <5>1. k + 1 = n \/ k + 1 \in 1..(n - 1)
          BY <1>1, <4>1
        <5> QED BY <1>1, <1>3, <1>7, <5>1
      <4> QED BY <1>7, <1>8, <4>1, <4>2, <4>3
    <3> QED BY <3>1, <3>2
  <2>3. frames'[Len(frames')] = new /\ Len(frames') - 1 = n
    BY <1>1, <1>8
  <2> QED BY <1>8, <1>9, <1>11, <1>13, <2>1, <2>2, <2>3 DEF FramesFit
<1>15. \E U, T : Typed(U, T, stack, cells, heap, globals)'
  BY DEF Typed, GoodSet, GoodValue, Hold, Objects, Chunk
<1>16. frames' # <<>>
  <2> HIDE DEF n
  <2>1. n + 1 # 0
    BY <1>1
  <2>2. Len(frames') # 0
    BY <1>8, <2>1
  <2> QED BY <2>2, EmptySeq
<1> QED BY <1>1, <1>8, <1>10, <1>14, <1>15, <1>16 DEF VMInv, Running

(* The locals of a called function. *)
LEMMA EnterStep ==
    ASSUME VMInv, status = "running", Instruction[1] \in Straight, StackEffect(Instruction)[2] = 1,
           NEW U, NEW T, Typed(U, T, stack, cells, heap, globals),
           NEW callee \in U, callee[1] = "fn", NEW args \in Seq(U),
           Enter(callee, args, Drop(stack, StackEffect(Instruction)[1]))
    PROVE  VMInv'
<1> DEFINE f == Chunk[callee[2]]
           rest == Ref(Len(heap) + 1)
           below == Drop(stack, StackEffect(Instruction)[1])
           W == IF f.hasRest THEN {rest} ELSE {}
           V == U \cup W
           Fresh(native) == [NewFrame(callee[2], Len(below), callee[3]) EXCEPT !.native = native]
           Locals(first) ==
               IF f.hasRest THEN Resize(Append(Resize(args, f.params - 1), rest), f.locals)
               ELSE Resize(IF Len(args) < f.locals THEN Append(args, first) ELSE args, f.locals)
           o == ArrayObj(RestArguments(f, args))
<1>1. PICK native \in BOOLEAN, first \in FirstLocal(callee, args) :
         /\ CountCall(callee[2], native)
         /\ stack' = below \o Locals(first)
         /\ heap' = IF f.hasRest THEN Append(heap, o) ELSE heap
         /\ frames' = Append([frames EXCEPT ![Len(frames)].pc = @ + 1], Fresh(native))
         /\ UNCHANGED <<program, cells, globals, out, status>>
  BY Zenon DEF Enter
<1>2. /\ stack \in Seq(U) /\ Len(stack) \in Nat /\ Len(cells) \in Nat /\ Len(heap) \in Nat
      /\ program \in DOMAIN Programs
  BY TopFrame DEF Typed, Hold
<1>3. StackEffect(Instruction)[1] \in 0..Len(stack)
  BY OperandValues
<1>4. below \in Seq(U) /\ Len(below) = Len(stack) - StackEffect(Instruction)[1] /\ Len(below) \in Nat
  <2> DEFINE n == StackEffect(Instruction)[1]
  <2>1. n \in 0..Len(stack)
    BY <1>3
  <2> HIDE DEF n
  <2>2. Drop(stack, n) \in Seq(U) /\ Len(Drop(stack, n)) = Len(stack) - n
    BY <1>2, <2>1, DropSeq
  <2>3. Len(stack) - n \in Nat
    BY <1>2, <2>1
  <2> QED BY <2>2, <2>3 DEF n
<1>5. callee[2] \in DOMAIN Chunk /\ callee[3] \in Seq(1..Len(cells))
  <2>1. GoodValue(callee, Len(cells), Len(heap))
    BY Zenon DEF Typed, GoodSet
  <2> QED BY <2>1 DEF GoodValue
<1>6. f.params \in Nat /\ f.locals \in Nat /\ (f.hasRest => f.params > 0)
  BY <1>2, <1>5, FunctionShape
<1>7. U \subseteq V /\ None \in V /\ (f.hasRest => rest \in V)
  BY DEF Typed, GoodSet
<1>8. first \in V
  <2> DEFINE s == <<callee>> \o args
  <2>1. <<callee>> \in Seq(U) /\ Len(<<callee>>) = 1 /\ Len(args) \in Nat
    BY LenProperties
  <2>2. s \in Seq(U) /\ Len(s) = 1 + Len(args)
    BY <2>1, ConcatProperties
  <2>3. Last(s) \in U
    <3>1. Len(s) \in 1..Len(s)
      BY <2>1, <2>2
    <3> HIDE DEF s
    <3> QED BY <2>2, <3>1, ElementOfSeq DEF Last
  <2>4. first \in {None, Last(s)}
    BY Zenon DEF FirstLocal
  <2> HIDE DEF s, V
  <2> QED BY <1>7, <2>3, <2>4
<1> HIDE DEF f, rest, below, V
<1>9. Locals(first) \in Seq(V) /\ Len(Locals(first)) = f.locals
  <2>1. args \in Seq(V) /\ Len(args) \in Nat
    BY <1>7, SeqOfMore, LenProperties
  <2>2. CASE f.hasRest
    <3>1. f.params - 1 \in Nat
      BY <1>6, <2>2
    <3> DEFINE m == f.params - 1
               s == Resize(args, m)
    <3>2. s \in Seq(V)
      <4> HIDE DEF m
      <4> QED BY <1>7, <2>1, <3>1, ResizeSeq DEF m
    <3> HIDE DEF s
    <3>3. Append(s, rest) \in Seq(V)
      BY <1>7, <2>2, <3>2, AppendProperties
    <3> DEFINE t == Append(s, rest)
    <3>4. Locals(first) = Resize(t, f.locals)
      BY <2>2 DEF s
    <3>5. t \in Seq(V)
      BY <3>3
    <3> HIDE DEF t, Locals
    <3> QED BY <1>6, <1>7, <3>4, <3>5, ResizeSeq
  <2>3. CASE ~f.hasRest
    <3> DEFINE t == IF Len(args) < f.locals THEN Append(args, first) ELSE args
    <3>1. t \in Seq(V)
      <4>1. Append(args, first) \in Seq(V)
        BY <1>8, <2>1, AppendProperties
      <4> QED BY <2>1, <4>1
    <3>2. Locals(first) = Resize(t, f.locals)
      BY <2>3
    <3> HIDE DEF t, Locals
    <3> QED BY <1>6, <1>7, <3>1, <3>2, ResizeSeq
  <2> QED BY <2>2, <2>3
<1> DEFINE locals == Locals(first)
<1> HIDE DEF Locals
<1>10. stack' \in Seq(V) /\ Len(stack') = Len(below) + f.locals
  <2>1. below \in Seq(V)
    BY <1>4, <1>7, SeqOfMore
  <2>2. locals \in Seq(V) /\ Len(locals) = f.locals /\ stack' = below \o locals
    BY <1>1, <1>9
  <2> HIDE DEF locals
  <2>3. below \o locals \in Seq(V) /\ Len(below \o locals) = Len(below) + Len(locals)
    BY <2>1, <2>2, ConcatProperties
  <2> QED BY <2>2, <2>3
<1>11. /\ heap' \in Seq(Objects(V, T)) /\ Len(heap) <= Len(heap') /\ Len(heap') \in Nat
       /\ GoodSet(V, Len(cells), Len(heap'))
  <2>1. CASE f.hasRest
    <3>1. heap' = Append(heap, o)
      BY <1>1, <2>1
    <3>2. RestArguments(f, args) \in Seq(V)
      <4>1. args \in Seq(V) /\ Len(args) \in Nat
        BY <1>7, SeqOfMore, LenProperties
      <4>2. f.params \in Int /\ Len(args) \in Int /\ \A i \in f.params..Len(args) : args[i] \in V
        <5>1. \A i \in f.params..Len(args) : i \in 1..Len(args)
          BY <1>6, <2>1, <4>1
        <5> QED BY <1>6, <4>1, <5>1, ElementOfSeq
      <4> QED BY <4>2, SubSeqProperties DEF RestArguments
    <3>3. o \in Objects(V, T)
      <4> DEFINE vs == RestArguments(f, args)
      <4>1. vs \in Seq(V)
        BY <3>2
      <4> HIDE DEF vs
      <4>2. ArrayObj(vs) \in Objects(V, T)
        BY <4>1 DEF Objects, ArrayObj
      <4> QED BY <4>2 DEF vs
    <3> HIDE DEF o
    <3>4. heap' \in Seq(Objects(V, T)) /\ Len(heap') = Len(heap) + 1
          /\ \A c : GoodValue(rest, c, Len(heap) + 1)
      BY <1>7, <3>1, <3>3, NewObject DEF rest
    <3>5. GoodSet(V, Len(cells), Len(heap'))
      <4>1. Len(heap) + 1 \in Nat /\ Len(heap) <= Len(heap) + 1 /\ Len(cells) <= Len(cells)
        BY <1>2
      <4>2. \A w \in W : GoodValue(w, Len(cells), Len(heap) + 1)
        BY <2>1, <3>4
      <4>3. GoodSet(U, Len(cells), Len(heap))
        BY DEF Typed
      <4> HIDE DEF W
      <4>4. GoodSet(U \cup W, Len(cells), Len(heap) + 1)
        BY <1>2, <4>1, <4>2, <4>3, MoreIsGood
      <4> QED BY <3>4, <4>4 DEF V
    <3> QED BY <1>2, <3>4, <3>5
  <2>2. CASE ~f.hasRest
    <3>1. heap' = heap
      BY <1>1, <2>2
    <3>2. V = U
      BY <2>2 DEF V
    <3> QED BY <1>2, <3>1, <3>2 DEF Typed, Hold
  <2> QED BY <2>1, <2>2
<1>12. \E VV, TT : Typed(VV, TT, stack', cells', heap', globals')
  <2>1. Hold(V, T, stack, cells, heap, globals)
    BY <1>7, MoreHold DEF Typed
  <2> QED BY <1>1, <1>10, <1>11, <2>1 DEF Typed, Hold
<1> DEFINE new == Fresh(native)
<1>13. /\ new = [func |-> callee[2], pc |-> 0, base |-> Len(below), inline |-> <<>>, open |-> <<>>,
                 captures |-> callee[3], native |-> native]
  BY DEF NewFrame
<1> HIDE DEF new
<1>14. new \in FrameSet(Len(cells)) /\ new.pc = 0 /\ new.base = Len(below) /\ new.func = callee[2]
       /\ new.native = native
  <2>1. <<>> \in PartialTo(Len(cells))
    <3>1. <<>> \in [{} -> 1..Len(cells)]
      OBVIOUS
    <3> QED BY <3>1 DEF PartialTo
  <2> QED BY <1>4, <1>5, <1>13, <2>1 DEF FrameSet
<1>15. HasCode(new)
  <2>1. native => Programs[program].native[callee[2]] # <<>>
    BY <1>1, Zenon DEF CountCall
  <2> QED BY <1>5, <1>14, <2>1 DEF HasCode
<1>16. LocalsOf(new) = f.locals
  BY <1>14 DEF LocalsOf, f
<1>17. frames' = Append([frames EXCEPT ![Len(frames)].pc = @ + 1], new)
  BY <1>1 DEF new
<1>18. new.base = Len(stack) - StackEffect(Instruction)[1] /\ Len(stack') = new.base + LocalsOf(new)
  BY <1>4, <1>10, <1>14, <1>16
<1> QED BY <1>1, <1>12, <1>14, <1>15, <1>17, <1>18, CallStep

(* A built-in function is run at once, and what is no function cannot be called. *)
LEMMA InvokeStep ==
    ASSUME VMInv, status = "running", Instruction[1] \in Straight, StackEffect(Instruction)[2] = 1,
           NEW U, NEW T, Typed(U, T, stack, cells, heap, globals),
           NEW callee \in U, NEW args \in Seq(U),
           Invoke(callee, args, Drop(stack, StackEffect(Instruction)[1]))
    PROVE  VMInv'
<1> DEFINE n == StackEffect(Instruction)[1]
           below == Drop(stack, n)
           BuiltIn == /\ out' = Append(out, Shown(args[1]))
                      /\ stack' = Append(below, None)
                      /\ Advance
                      /\ UNCHANGED <<program, jitVars, cells, heap, globals, status>>
<1>1. \/ BuiltIn
      \/ callee[1] = "fn" /\ Enter(callee, args, below)
      \/ Fail
  <2>1. CASE callee[1] = "builtin" /\ Len(frames) < MaxCallDepth
    <3>1. callee[1] # "fn"
      BY <2>1
    <3> QED BY <2>1, <3>1, Zenon DEF Invoke
  <2>2. CASE callee[1] = "fn" /\ Len(frames) < MaxCallDepth
    <3>1. callee[1] # "builtin"
      BY <2>2
    <3> QED BY <2>2, <3>1, Zenon DEF Invoke
  <2>3. CASE /\ ~(callee[1] = "builtin" /\ Len(frames) < MaxCallDepth)
             /\ ~(callee[1] = "fn" /\ Len(frames) < MaxCallDepth)
    BY <2>3, Zenon DEF Invoke
  <2> QED BY <2>1, <2>2, <2>3, Zenon
<1>2. CASE BuiltIn
  <2>1. Advance /\ UNCHANGED <<program, cells, heap, globals, status>> /\ ReplaceTop(n, None)
    BY <1>2 DEF ReplaceTop
  <2>2. n \in 0..Len(stack)
    BY OperandValues
  <2>3. StackEffect(Instruction)[2] - StackEffect(Instruction)[1] = 1 - n
    OBVIOUS
  <2>4. None \in U
    BY DEF Typed, GoodSet
  <2> HIDE DEF n
  <2> QED BY <2>1, <2>2, <2>3, <2>4, StackStep
<1>3. CASE callee[1] = "fn" /\ Enter(callee, args, below)
  BY <1>3, EnterStep
<1> QED BY <1>1, <1>2, <1>3, FailStep

LEMMA CallFunctionStep ==
    ASSUME VMInv, CallFunction
    PROVE  VMInv'
<1> DEFINE argc == Instruction[2]
           args == SubSeq(stack, Len(stack) - argc + 1, Len(stack))
           callee == Peek(argc)
<1>1. status = "running" /\ Instruction[1] = "CALL" /\ Invoke(callee, args, Drop(stack, argc + 1))
  BY DEF CallFunction, At
<1>2. Instruction[1] \in Straight /\ Instruction[1] # "JUMP_IF_FALSE"
  BY <1>1 DEF Straight, Opcodes, ConditionalJumps
<1>3. StackEffect(Instruction)[1] = argc + 1 /\ StackEffect(Instruction)[2] = 1
  BY <1>1, Effects
<1>4. PICK U, T : Typed(U, T, stack, cells, heap, globals)
  BY <1>1, TopFrame DEF Running
<1>5. argc \in Nat
  BY <1>1, <1>2, TopInstruction DEF Operands
<1>6. argc + 1 \in 0..Len(stack) /\ stack \in Seq(U) /\ Len(stack) \in Nat
  BY <1>1, <1>2, <1>3, <1>4, OperandValues, TopFrame DEF Typed, Hold
<1>7. callee \in U
  <2>1. argc < argc + 1
    BY <1>5
  <2> QED BY <1>1, <1>2, <1>3, <1>4, <1>5, <2>1, OperandValues
<1>8. args \in Seq(U)
  <2>1. argc \in 0..Len(stack)
    BY <1>5, <1>6
  <2> HIDE DEF argc
  <2> QED BY <1>6, <2>1, TopSeq
<1>9. Invoke(callee, args, Drop(stack, StackEffect(Instruction)[1]))
  BY <1>1, <1>3
<1> HIDE DEF args, callee, argc
<1> QED BY <1>1, <1>2, <1>3, <1>4, <1>7, <1>8, <1>9, InvokeStep

LEMMA CallSpreadStep ==
    ASSUME VMInv, CallSpread
    PROVE  VMInv'
<1> DEFINE args == Elements(Peek(0))
           callee == Peek(1)
<1>1. status = "running" /\ Instruction[1] = "CALL_SPREAD"
  BY DEF CallSpread, At
<1>2. CASE ~IsArray(Peek(0)) /\ Fail
  BY <1>2, FailStep
<1>3. CASE IsArray(Peek(0)) /\ Invoke(callee, args, Drop(stack, 2))
  <2>1. Instruction[1] \in Straight
    BY <1>1 DEF Straight, Opcodes, ConditionalJumps, Combines
  <2>2. StackEffect(Instruction)[1] = 2 /\ StackEffect(Instruction)[2] = 1
    BY <1>1, Effects DEF Combines
  <2>3. PICK U, T : Typed(U, T, stack, cells, heap, globals)
    BY <1>1, TopFrame DEF Running
  <2>4. callee \in U /\ Peek(0) \in U
    BY <1>1, <2>1, <2>2, <2>3, OperandValues
  <2>5. args \in Seq(U)
    BY <1>3, <2>3, <2>4, ArrayElements
  <2>6. Invoke(callee, args, Drop(stack, StackEffect(Instruction)[1]))
    BY <1>3, <2>2
  <2> HIDE DEF args, callee
  <2> QED BY <1>1, <2>1, <2>2, <2>3, <2>4, <2>5, <2>6, InvokeStep
<1> QED BY <1>2, <1>3 DEF CallSpread

(* The frame starts again, without operands. *)
LEMMA SelfTailCallStep ==
    ASSUME VMInv, SelfTailCall
    PROVE  VMInv'
<1> DEFINE argc == Instruction[2]
           args == SubSeq(stack, Len(stack) - argc + 1, Len(stack))
           top == Frame.base + LocalsOf(Frame)
           kept == Resize(stack, top)
           Value(i) == IF i - Frame.base \in 1..ThisFunction.params
                       THEN IF i - Frame.base <= argc THEN args[i - Frame.base] ELSE None
                       ELSE kept[i]
           fr == [Frame EXCEPT !.pc = 0]
<1>1. status = "running" /\ Instruction[1] = "SELF_TAIL_CALL" /\ Goto(0)
      /\ UNCHANGED <<program, cells, heap, globals, status>>
      /\ stack' = [i \in DOMAIN kept |-> Value(i)]
  BY DEF SelfTailCall, At, ThisFunction, LocalsOf
<1>2. /\ Frame \in FrameSet(Len(cells)) /\ Len(cells) \in Nat /\ HasCode(Frame) /\ program \in DOMAIN Programs
      /\ Frame = frames[Len(frames)] /\ Len(frames) \in DOMAIN frames
      /\ LocalsOf(Frame) \in Nat /\ Len(stack) \in Nat
  BY <1>1, TopFrame
<1>3. PICK U, T : Typed(U, T, stack, cells, heap, globals)
  BY <1>1, TopFrame DEF Running
<1>4. stack \in Seq(U) /\ None \in U
  BY <1>3 DEF Typed, Hold, GoodSet
<1>5. Instruction[1] # "JUMP_IF_FALSE"
  BY <1>1
<1>6. /\ Frame.base \in Nat /\ argc \in Nat /\ HeightsAt(Frame)[Frame.pc] \in Nat
      /\ Len(stack) = Frame.base + LocalsOf(Frame) + HeightsAt(Frame)[Frame.pc]
      /\ ~Underflows(CodeAt(Frame), Frame.pc, HeightsAt(Frame)[Frame.pc])
  BY <1>1, <1>5, TopInstruction DEF Operands
<1>7. argc \in 0..Len(stack)
  <2> DEFINE h == HeightsAt(Frame)[Frame.pc]
  <2>1. StackEffect(Instruction)[1] = argc
    BY <1>1, Effects
  <2>2. ~(h < argc)
    BY <1>1, <1>6, <2>1 DEF Underflows, Instruction
  <2>3. h \in Nat /\ Len(stack) = Frame.base + LocalsOf(Frame) + h
    BY <1>6
  <2> HIDE DEF h, argc
  <2> QED BY <1>2, <1>6, <2>2, <2>3
<1> HIDE DEF argc
<1>8. args \in Seq(U) /\ Len(args) = argc
  BY <1>4, <1>7, TopSeq
<1> HIDE DEF args
<1>9. top \in Nat
  BY <1>2, <1>6
<1> HIDE DEF top
<1>10. kept \in Seq(U) /\ Len(kept) = top /\ DOMAIN kept = 1..top
  <2>1. kept \in Seq(U) /\ Len(kept) = top
    BY <1>4, <1>9, ResizeSeq
  <2> HIDE DEF kept
  <2> QED BY <2>1, LenProperties
<1> HIDE DEF kept
<1>11. ASSUME NEW i \in 1..top PROVE Value(i) \in U
  <2>1. kept[i] \in U
    BY <1>10, ElementOfSeq
  <2>2. ASSUME i - Frame.base \in 1..ThisFunction.params, i - Frame.base <= argc
        PROVE  args[i - Frame.base] \in U
    <3>1. i - Frame.base \in 1..argc
      BY <1>6, <1>7, <2>2
    <3> QED BY <1>8, <3>1, ElementOfSeq
  <2> QED BY <1>4, <2>1, <2>2
<1> HIDE DEF Value
<1>12. stack' \in Seq(U) /\ Len(stack') = top
  <2>1. stack' \in [1..top -> U]
    BY <1>1, <1>10, <1>11
  <2>2. stack' \in Seq(U)
    BY <1>9, <2>1, SeqDef
  <2> QED BY <1>9, <2>1, <2>2, LenProperties
<1>13. /\ fr \in FrameSet(Len(cells)) /\ fr.pc = 0
       /\ fr.func = Frame.func /\ fr.base = Frame.base /\ fr.native = Frame.native
  BY <1>2, MovedFrame
<1>14. frames' = [frames EXCEPT ![Len(frames)] = fr]
  BY <1>1, <1>2 DEF Goto
<1> HIDE DEF fr
<1>15. Typed(U, T, stack', cells', heap', globals')
  BY <1>1, <1>3, <1>12 DEF Typed, Hold
<1>16. Settles(fr, stack')
  <2>1. HeightsAt(fr) = HeightsAt(Frame) /\ LocalsOf(fr) = LocalsOf(Frame)
    BY <1>13 DEF HeightsAt, LocalsOf
  <2>2. 0 \in DOMAIN HeightsAt(Frame) /\ HeightsAt(Frame)[0] = 0
    BY <1>2, FrameCode DEF Consistent, HeightsOver
  <2>3. top - Frame.base - LocalsOf(Frame) = 0
    BY <1>2, <1>6 DEF top
  <2> QED BY <1>12, <1>13, <2>1, <2>2, <2>3 DEF Settles, HeightOf
<1>17. fr \in FrameSet(Len(cells')) /\ Len(cells') \in Nat /\ Len(cells) <= Len(cells')
  BY <1>1, <1>2, <1>13
<1> QED BY <1>1, <1>13, <1>14, <1>15, <1>16, <1>17, StepInFrame

(* The caller gets its result where the frame began. *)
LEMMA ReturnStep ==
    ASSUME VMInv, ReturnToCaller
    PROVE  VMInv'
<1> DEFINE n == Len(frames)
           base == Frame.base
<1>1. /\ status = "running" /\ Instruction[1] = "RETURN"
      /\ stack' = Append(SubSeq(stack, 1, base), Peek(0)) /\ frames' = Front(frames)
      /\ status' = IF n = 1 THEN "done" ELSE status
      /\ UNCHANGED <<program, cells, heap, globals>>
  BY DEF ReturnToCaller, At
<1>2. CASE n = 1
  BY <1>1, <1>2 DEF VMInv
<1>3. CASE n # 1
  <2>1. /\ n \in Nat \ {0} /\ DOMAIN frames = 1..n /\ Frame = frames[n]
        /\ program \in DOMAIN Programs /\ Running /\ LocalsOf(Frame) \in Nat /\ Len(stack) \in Nat
        /\ Len(cells) \in Nat
    BY <1>1, TopFrame
  <2>2. frames \in Seq(FrameSet(Len(cells))) /\ FramesFit(frames, stack)
    BY <2>1 DEF Running
  <2>3. n - 1 \in 1..n /\ n - 1 \in Nat /\ n - 1 + 1 = n
    BY <1>3, <2>1
  <2> PICK fr : fr = frames[n - 1]
    OBVIOUS
  <2>4. PICK U, T : Typed(U, T, stack, cells, heap, globals)
    BY <2>1 DEF Running
  <2>5. Instruction[1] # "JUMP_IF_FALSE"
    BY <1>1
  <2>6. /\ base \in Nat /\ HeightsAt(Frame)[Frame.pc] \in Nat
        /\ Len(stack) = base + LocalsOf(Frame) + HeightsAt(Frame)[Frame.pc]
        /\ ~Underflows(CodeAt(Frame), Frame.pc, HeightsAt(Frame)[Frame.pc])
    BY <1>1, <2>5, TopInstruction
  <2>7. base \in 0..Len(stack) /\ Len(stack) \in 1..Len(stack)
    <3> DEFINE h == HeightsAt(Frame)[Frame.pc]
               l == LocalsOf(Frame)
    <3>1. StackEffect(Instruction)[1] = 1
      BY <1>1, Effects
    <3>2. ~(h < 1)
      BY <1>1, <2>6, <3>1 DEF Underflows, Instruction
    <3>3. h \in Nat /\ Len(stack) = base + l + h /\ l \in Nat
      BY <2>1, <2>6
    <3> HIDE DEF h, base, l
    <3> QED BY <2>6, <3>2, <3>3
  <2>8. Peek(0) \in U /\ stack \in Seq(U)
    <3>1. stack \in Seq(U) /\ Len(stack) - 0 = Len(stack)
      BY <2>1, <2>4 DEF Typed, Hold
    <3> QED BY <2>7, <3>1, ElementOfSeq DEF Peek
  <2> HIDE DEF base
  <2>9. stack' \in Seq(U) /\ Len(stack') = base + 1
    <3> DEFINE s == SubSeq(stack, 1, base)
               v == Peek(0)
    <3>1. s \in Seq(U) /\ Len(s) = base
      BY <2>7, <2>8, FirstSeq
    <3>2. stack' = Append(s, v) /\ v \in U
      BY <1>1, <2>8
    <3> HIDE DEF s, v
    <3> QED BY <3>1, <3>2, AppendProperties
  <2>10. Typed(U, T, stack', cells', heap', globals')
    BY <1>1, <2>4, <2>9 DEF Typed, Hold
  <2>11. /\ frames' \in Seq(FrameSet(Len(cells))) /\ Len(frames') = n - 1
         /\ DOMAIN frames' = 1..(n - 1) /\ \A k \in 1..(n - 1) : frames'[k] = frames[k]
    <3> HIDE DEF n
    <3>1. frames' = SubSeq(frames, 1, n - 1)
      BY <1>1 DEF Front, n
    <3> DEFINE m == n - 1
    <3>2. m \in Int /\ 1 \in Int /\ \A i \in 1..m : frames[i] \in FrameSet(Len(cells))
      <4>1. \A i \in 1..m : i \in 1..n
        BY <2>1, <2>3
      <4> QED BY <2>2, <2>3, <4>1, ElementOfSeq DEF n
    <3>3. 1 <= m /\ m - 1 + 1 = m /\ \A i \in 1..m : 1 + i - 1 = i
      BY <2>3
    <3> HIDE DEF m
    <3>4. /\ SubSeq(frames, 1, m) \in Seq(FrameSet(Len(cells))) /\ Len(SubSeq(frames, 1, m)) = m
          /\ \A i \in 1..m : SubSeq(frames, 1, m)[i] = frames[i]
      BY <3>2, <3>3, SubSeqProperties
    <3>5. DOMAIN SubSeq(frames, 1, m) = 1..m
      BY <3>4, LenProperties
    <3> QED BY <3>1, <3>4, <3>5 DEF m
  <2>12. \A f : HasCode(f)' = HasCode(f) /\ LocalsOf(f)' = LocalsOf(f) /\ HeightsAt(f)' = HeightsAt(f)
               /\ CodeAt(f)' = CodeAt(f)
    BY <1>1 DEF HasCode, LocalsOf, HeightsAt, CodeAt, Chunk
  <2>13. FrameSet(Len(cells))' = FrameSet(Len(cells))
    BY <1>1 DEF FrameSet, Chunk
  <2>14. \A f, m : Waits(f, m)' = Waits(f, m)
    BY <2>12 DEF Waits, HeightOf
  <2>15. Settles(fr, stack)'
    <3>1. Waits(fr, base)
      <4>1. n - 1 \in 1..(n - 1)
        BY <2>3
      <4> QED BY <2>1, <2>2, <2>3, <4>1 DEF FramesFit, base
    <3>2. fr.base \in Nat /\ LocalsOf(fr) \in Nat
      <4>1. fr \in FrameSet(Len(cells)) /\ HasCode(fr)
        BY <2>1, <2>2, <2>3, ElementOfSeq DEF FramesFit
      <4> QED BY <2>1, <4>1, FunctionShape DEF FrameSet, LocalsOf, HasCode
    <3> DEFINE b == fr.base
               l == LocalsOf(fr)
    <3>3. fr.pc \in DOMAIN HeightsAt(fr) /\ base - b - l + 1 = HeightsAt(fr)[fr.pc]
      BY <3>1 DEF Waits, HeightOf
    <3>4. b \in Nat /\ l \in Nat /\ base \in Nat
      BY <2>6, <3>2
    <3> HIDE DEF b, l
    <3>5. (base + 1) - b - l = base - b - l + 1
      BY <3>4
    <3>6. Len(stack') - b - l = HeightsAt(fr)[fr.pc]
      BY <2>9, <3>3, <3>5
    <3> QED BY <2>12, <3>3, <3>6 DEF Settles, HeightOf, b, l
  <2>16. FramesFit(frames, stack)'
    <3>1. \A k \in 1..(n - 1) : HasCode(frames'[k])
      <4>1. \A k \in 1..(n - 1) : k \in 1..n
        BY <2>3
      <4> QED BY <2>1, <2>2, <2>11, <4>1 DEF FramesFit
    <3>2. ASSUME NEW k \in 1..(n - 1 - 1) PROVE Waits(frames'[k], frames'[k + 1].base)
      <4>1. k \in 1..(n - 1) /\ k + 1 \in 1..(n - 1)
        BY <2>3
      <4> QED BY <2>2, <2>11, <4>1 DEF FramesFit
    <3>3. frames'[Len(frames')] = fr
      <4>1. n - 1 \in 1..(n - 1)
        BY <2>3
      <4> QED BY <2>11, <4>1
    <3> QED BY <2>11, <2>12, <2>14, <2>15, <3>1, <3>2, <3>3 DEF FramesFit
  <2>17. frames' # <<>>
    <3>1. n - 1 # 0
      BY <1>3, <2>1
    <3> QED BY <2>11, <3>1, EmptySeq
  <2>18. \E UU, TT : Typed(UU, TT, stack, cells, heap, globals)'
    BY <1>1, <2>10 DEF Typed, GoodSet, GoodValue, Hold, Objects, Chunk
  <2> QED BY <1>1, <2>1, <2>11, <2>13, <2>16, <2>17, <2>18 DEF VMInv, Running
<1> QED BY <1>2, <1>3

LEMMA ThrowStep ==
    ASSUME VMInv, Throw
    PROVE  VMInv'
BY FailStep DEF Throw

-----------------------------------------------------------------------------
(* Closures. *)

(* A step to the next instruction that changes the open cells of the frame too. *)
LEMMA FrameStep ==
    ASSUME VMInv, status = "running", Instruction[1] \in Straight, UNCHANGED <<program, status>>,
           NEW fr \in FrameSet(Len(cells')), fr.pc = Frame.pc + 1,
           fr.func = Frame.func, fr.base = Frame.base, fr.native = Frame.native,
           frames' = [frames EXCEPT ![Len(frames)] = fr],
           Len(cells') \in Nat, Len(cells) <= Len(cells'),
           \E U, T : Typed(U, T, stack', cells', heap', globals'),
           Len(stack') = Len(stack) - StackEffect(Instruction)[1] + StackEffect(Instruction)[2]
    PROVE  VMInv'
<1> DEFINE heights == HeightsAt(Frame)
           effect == StackEffect(Instruction)
           n == Len(stack)
           m == Len(stack')
           a == effect[1]
           b == effect[2]
           h == heights[Frame.pc]
           base == Frame.base
           l == LocalsOf(Frame)
<1>1. a \in Nat /\ b \in Nat /\ h \in Nat /\ n = base + l + h /\ Frame.pc + 1 \in DOMAIN heights
      /\ heights[Frame.pc + 1] = h - a + b
  BY StraightOn
<1>2. base \in Nat /\ l \in Nat
  BY TopFrame DEF FrameSet
<1>3. m = n - a + b
  OBVIOUS
<1>4. HeightsAt(fr) = heights /\ LocalsOf(fr) = LocalsOf(Frame)
  BY DEF HeightsAt, LocalsOf
<1> HIDE DEF n, m, a, b, h, base, l, heights
<1>5. m - base - l = heights[Frame.pc + 1]
  BY <1>1, <1>2, <1>3, NewHeight
<1>6. Settles(fr, stack')
  BY <1>1, <1>4, <1>5 DEF Settles, HeightOf, m, base, l
<1> QED BY <1>6, StepInFrame

LEMMA CloseUpvaluesStep ==
    ASSUME VMInv, CloseUpvalues
    PROVE  VMInv'
<1> DEFINE i == Instruction[2]
           inline == Below(Frame.inline, i)
           open == Below(Frame.open, i)
           fr == [Frame EXCEPT !.inline = inline, !.open = open, !.pc = Frame.pc + 1]
<1>1. /\ status = "running" /\ Instruction[1] = "CLOSE_UPVALUES"
      /\ frames' = [frames EXCEPT ![Len(frames)].inline = Below(@, i),
                                  ![Len(frames)].open = Below(@, i),
                                  ![Len(frames)].pc = @ + 1]
      /\ UNCHANGED <<program, stack, cells, heap, globals, status>>
  BY DEF CloseUpvalues, At
<1>2. Instruction[1] \in Straight
  BY <1>1 DEF Straight, Opcodes, ConditionalJumps
<1>3. StackEffect(Instruction)[1] = 0 /\ StackEffect(Instruction)[2] = 0
  BY <1>1, Effects
<1>4. /\ Frame \in FrameSet(Len(cells)) /\ Len(cells) \in Nat /\ Len(stack) \in Nat
      /\ Frame = frames[Len(frames)] /\ Len(frames) \in DOMAIN frames
  BY <1>1, TopFrame
<1>5. ASSUME NEW f \in PartialTo(Len(cells)) PROVE Below(f, i) \in PartialTo(Len(cells))
  <2>1. PICK D \in SUBSET Nat : f \in [D -> 1..Len(cells)]
    BY DEF PartialTo
  <2> DEFINE E == {j \in DOMAIN f : j < i}
  <2>2. E \in SUBSET Nat /\ Below(f, i) \in [E -> 1..Len(cells)]
    BY <2>1 DEF Below
  <2> HIDE DEF E
  <2> QED BY <2>2 DEF PartialTo
<1>6. inline \in PartialTo(Len(cells)) /\ open \in PartialTo(Len(cells)) /\ Frame.pc + 1 \in Nat
  BY <1>4, <1>5 DEF FrameSet
<1>7. frames' = [frames EXCEPT ![Len(frames)] = fr]
  BY <1>1, <1>4
<1> HIDE DEF inline, open
<1>8. /\ fr \in FrameSet(Len(cells)) /\ fr.pc = Frame.pc + 1
      /\ fr.func = Frame.func /\ fr.base = Frame.base /\ fr.native = Frame.native
  BY <1>4, <1>6 DEF FrameSet
<1> HIDE DEF fr
<1>9. fr \in FrameSet(Len(cells')) /\ Len(cells') \in Nat /\ Len(cells) <= Len(cells')
  BY <1>1, <1>4, <1>8
<1>10. \E U, T : Typed(U, T, stack', cells', heap', globals')
  BY <1>1, TopFrame DEF Running
<1>11. Len(stack') = Len(stack) - StackEffect(Instruction)[1] + StackEffect(Instruction)[2]
  BY <1>1, <1>3, <1>4
<1> QED BY <1>1, <1>2, <1>7, <1>8, <1>9, <1>10, <1>11, FrameStep

(* What the variables of a closure have in common while they are captured, one after the     *)
(* other.                                                                                    *)
Capturing(U, c) ==
    [frame : FrameSet(c), cells : Seq(U), stack : Seq(U), captures : Seq(1..c)]

Kept(U, m) ==
    /\ m \in Capturing(U, Len(m.cells)) /\ Len(cells) <= Len(m.cells) /\ Len(m.stack) = Len(stack)
    /\ m.frame.func = Frame.func /\ m.frame.base = Frame.base /\ m.frame.native = Frame.native
    /\ m.frame.pc = Frame.pc

LEMMA WithIsPartial ==
    ASSUME NEW c, NEW f \in PartialTo(c), NEW i \in Nat, NEW v \in 1..c
    PROVE  With(f, i, v) \in PartialTo(c) /\ With(f, i, v)[i] = v /\ i \in DOMAIN With(f, i, v)
<1>1. PICK D \in SUBSET Nat : f \in [D -> 1..c]
  BY DEF PartialTo
<1> DEFINE E == D \cup {i}
<1>2. E \in SUBSET Nat /\ With(f, i, v) \in [E -> 1..c]
  BY <1>1 DEF With
<1>3. With(f, i, v)[i] = v /\ i \in DOMAIN With(f, i, v)
  BY DEF With
<1> HIDE DEF E
<1> QED BY <1>2, <1>3 DEF PartialTo

LEMMA CellKept ==
    ASSUME NEW U, NEW m, Kept(U, m), Len(cells) \in Nat, NEW i \in Nat, Slot(i) \in 1..Len(stack)
    PROVE  LET got == GetOrCreateCell(m, i)
           IN /\ Kept(U, got) /\ OpenCells(got.frame)[i] \in 1..Len(got.cells)
              /\ got.captures = m.captures
<1> DEFINE c == Len(m.cells)
           v == m.stack[Slot(i)]
           made == [m EXCEPT !.cells = Append(@, v)]
           inl == [made EXCEPT !.frame.inline = With(@, i, Len(made.cells))]
           opn == [made EXCEPT !.frame.open = With(@, i, Len(made.cells))]
           got == GetOrCreateCell(m, i)
<1>1. m \in Capturing(U, c)
  BY DEF Kept
<1>2. /\ m.frame \in FrameSet(c) /\ m.cells \in Seq(U) /\ m.stack \in Seq(U) /\ m.captures \in Seq(1..c)
      /\ m.frame.inline \in PartialTo(c) /\ m.frame.open \in PartialTo(c)
  BY <1>1 DEF Capturing, FrameSet
<1>3. c \in Nat /\ v \in U
  BY <1>2, LenProperties, ElementOfSeq DEF Kept
<1> HIDE DEF v
<1> DEFINE cs == Append(m.cells, v)
<1>4. cs \in Seq(U) /\ Len(cs) = c + 1 /\ c + 1 \in Nat /\ c + 1 \in 1..(c + 1) /\ c <= c + 1
  BY <1>2, <1>3, AppendProperties
<1> HIDE DEF c, cs
<1>5. /\ m.frame \in FrameSet(c + 1) /\ m.captures \in Seq(1..(c + 1))
      /\ m.frame.inline \in PartialTo(c + 1) /\ m.frame.open \in PartialTo(c + 1)
  <2>1. 1..c \subseteq 1..(c + 1)
    BY <1>3
  <2> QED BY <1>2, <1>3, <1>4, <2>1, MoreFrames, SeqOfMore
<1>6. \/ got = m /\ i \in DOMAIN m.frame.inline
      \/ got = inl /\ m.frame.inline = <<>>
      \/ got = m /\ i \in DOMAIN m.frame.open
      \/ got = opn /\ i \notin DOMAIN m.frame.inline
  <2>1. CASE i \in DOMAIN m.frame.inline
    <3>1. m.frame.inline # <<>>
      BY <2>1
    <3> QED BY <2>1, <3>1, Zenon DEF GetOrCreateCell
  <2>2. CASE m.frame.inline = <<>>
    <3>1. i \notin DOMAIN m.frame.inline
      BY <2>2
    <3> QED BY <2>2, <3>1, Zenon DEF GetOrCreateCell, v
  <2>3. CASE i \notin DOMAIN m.frame.inline /\ m.frame.inline # <<>> /\ i \in DOMAIN m.frame.open
    BY <2>3, Zenon DEF GetOrCreateCell
  <2>4. CASE i \notin DOMAIN m.frame.inline /\ m.frame.inline # <<>> /\ i \notin DOMAIN m.frame.open
    BY <2>4, Zenon DEF GetOrCreateCell, v
  <2> QED BY <2>1, <2>2, <2>3, <2>4
<1> HIDE DEF got
<1>7. made.cells = cs /\ Len(made.cells) = c + 1 /\ made.frame = m.frame
  BY <1>1, <1>4 DEF Capturing, cs
<1> DEFINE w == With(m.frame.inline, i, c + 1)
           x == With(m.frame.open, i, c + 1)
<1>8. /\ w \in PartialTo(c + 1) /\ w[i] = c + 1 /\ i \in DOMAIN w
      /\ x \in PartialTo(c + 1) /\ x[i] = c + 1 /\ i \in DOMAIN x
  BY <1>4, <1>5, WithIsPartial
<1> DEFINE fi == [m.frame EXCEPT !.inline = w]
           fo == [m.frame EXCEPT !.open = x]
<1>9. inl = [m EXCEPT !.cells = cs, !.frame = fi] /\ opn = [m EXCEPT !.cells = cs, !.frame = fo]
  BY <1>1, <1>7 DEF Capturing, cs
<1> HIDE DEF made, inl, opn, w, x
<1>10. /\ fi \in FrameSet(c + 1) /\ fi.inline = w /\ fi.open = m.frame.open /\ fi.func = m.frame.func
       /\ fi.base = m.frame.base /\ fi.native = m.frame.native /\ fi.pc = m.frame.pc
  BY <1>5, <1>8 DEF FrameSet
<1>11. /\ fo \in FrameSet(c + 1) /\ fo.open = x /\ fo.inline = m.frame.inline /\ fo.func = m.frame.func
       /\ fo.base = m.frame.base /\ fo.native = m.frame.native /\ fo.pc = m.frame.pc
  BY <1>5, <1>8 DEF FrameSet
<1> HIDE DEF fi, fo
<1>12. /\ inl \in Capturing(U, c + 1) /\ inl.cells = cs /\ inl.frame = fi /\ inl.stack = m.stack
       /\ inl.captures = m.captures
  BY <1>1, <1>2, <1>4, <1>5, <1>9, <1>10 DEF Capturing
<1>13. /\ opn \in Capturing(U, c + 1) /\ opn.cells = cs /\ opn.frame = fo /\ opn.stack = m.stack
       /\ opn.captures = m.captures
  BY <1>1, <1>2, <1>4, <1>5, <1>9, <1>11 DEF Capturing
<1>14. CASE got = m /\ i \in DOMAIN m.frame.inline
  <2>1. m.frame.inline[i] \in 1..c
    BY <1>2, <1>14 DEF PartialTo
  <2>2. OpenCells(m.frame)[i] = m.frame.inline[i]
    BY <1>14 DEF OpenCells
  <2>3. OpenCells(m.frame)[i] \in 1..Len(m.cells)
    BY <2>1, <2>2 DEF c
  <2> QED BY <1>14, <2>3 DEF got
<1>15. CASE got = m /\ i \in DOMAIN m.frame.open
  <2>1. m.frame.open[i] \in 1..c /\ (i \in DOMAIN m.frame.inline => m.frame.inline[i] \in 1..c)
    BY <1>2, <1>15 DEF PartialTo
  <2>2. OpenCells(m.frame)[i] \in {m.frame.inline[i], m.frame.open[i]}
        /\ (i \notin DOMAIN m.frame.inline => OpenCells(m.frame)[i] = m.frame.open[i])
        /\ (i \in DOMAIN m.frame.inline => OpenCells(m.frame)[i] = m.frame.inline[i])
    BY <1>15 DEF OpenCells
  <2>3. OpenCells(m.frame)[i] \in 1..Len(m.cells)
    BY <2>1, <2>2 DEF c
  <2> QED BY <1>15, <2>3 DEF got
<1>16. Len(cells) <= c + 1
  <2>1. Len(cells) <= c /\ Len(cells) \in Nat
    BY DEF Kept, c
  <2> QED BY <1>3, <2>1
<1>17. /\ Len(m.stack) = Len(stack) /\ m.frame.func = Frame.func /\ m.frame.base = Frame.base
       /\ m.frame.native = Frame.native /\ m.frame.pc = Frame.pc
  BY DEF Kept
<1>18. CASE got = inl
  <2>1. Kept(U, inl)
    BY <1>4, <1>10, <1>12, <1>16, <1>17 DEF Kept
  <2>2. OpenCells(fi)[i] = c + 1
    BY <1>8, <1>10 DEF OpenCells
  <2>3. OpenCells(inl.frame)[i] \in 1..Len(inl.cells) /\ inl.captures = m.captures
    BY <1>4, <1>12, <2>2
  <2> QED BY <1>18, <2>1, <2>3 DEF got
<1>19. CASE got = opn /\ i \notin DOMAIN m.frame.inline
  <2>1. Kept(U, opn)
    BY <1>4, <1>11, <1>13, <1>16, <1>17 DEF Kept
  <2>2. OpenCells(fo)[i] = c + 1
    BY <1>8, <1>11, <1>19 DEF OpenCells
  <2>3. OpenCells(opn.frame)[i] \in 1..Len(opn.cells) /\ opn.captures = m.captures
    BY <1>4, <1>13, <2>2
  <2> QED BY <1>19, <2>1, <2>3 DEF got
<1> QED BY <1>6, <1>14, <1>15, <1>18, <1>19
(* One more variable of a closure. *)
LEMMA CapturedKept ==
    ASSUME NEW U, None \in U, NEW m, Kept(U, m), Len(cells) \in Nat, NEW source,
           source[1] = "local" => source[2] \in Nat /\ Slot(source[2]) \in 1..Len(stack)
    PROVE  Kept(U, Captured(m, source))
<1> DEFINE i == source[2]
           got == GetOrCreateCell(m, i)
           cell == OpenCells(got.frame)[i]
           c == Len(m.cells)
<1>1. CASE source[1] = "local"
  <2> DEFINE d == Len(got.cells)
             v == got.cells[cell]
             next == [got EXCEPT !.captures = Append(@, cell), !.stack[Slot(i)] = v]
  <2>1. Captured(m, source) = next
    BY <1>1, Zenon DEF Captured
  <2>2. Kept(U, got) /\ cell \in 1..d /\ i \in Nat /\ Slot(i) \in 1..Len(stack)
    BY <1>1, CellKept
  <2> HIDE DEF got, cell, i
  <2>3. /\ got \in Capturing(U, d) /\ got.cells \in Seq(U) /\ got.stack \in Seq(U)
        /\ got.captures \in Seq(1..d) /\ Len(got.stack) = Len(stack)
    BY <2>2 DEF Kept, Capturing
  <2>4. v \in U /\ Append(got.captures, cell) \in Seq(1..d)
    BY <2>2, <2>3, ElementOfSeq, AppendProperties
  <2> DEFINE s == [got.stack EXCEPT ![Slot(i)] = v]
  <2> HIDE DEF v, d
  <2>5. s \in Seq(U) /\ Len(s) = Len(got.stack)
    BY <2>2, <2>3, <2>4, ChangedSeq
  <2>6. next = [got EXCEPT !.captures = Append(got.captures, cell), !.stack = s]
    BY <2>3 DEF Capturing
  <2> HIDE DEF s, next
  <2>7. /\ next \in Capturing(U, d) /\ next.cells = got.cells /\ next.stack = s
        /\ next.frame = got.frame
    BY <2>3, <2>4, <2>5, <2>6 DEF Capturing
  <2>8. Kept(U, next)
    BY <2>2, <2>5, <2>7 DEF Kept, d
  <2> QED BY <2>1, <2>8
<1>2. CASE source[1] # "local" /\ i \in DOMAIN m.frame.captures
  <2> DEFINE x == m.frame.captures[i]
             next == [m EXCEPT !.captures = Append(@, x)]
  <2>1. Captured(m, source) = next
    BY <1>2, Zenon DEF Captured
  <2>2. m \in Capturing(U, c) /\ m.frame.captures \in Seq(1..c) /\ m.captures \in Seq(1..c)
    <3>1. m \in Capturing(U, c)
      BY DEF Kept
    <3> HIDE DEF c, next
    <3>2. m.frame \in FrameSet(c) /\ m.captures \in Seq(1..c)
      BY <3>1 DEF Capturing
    <3> QED BY <3>1, <3>2 DEF FrameSet
  <2>3. x \in 1..c
    BY <1>2, <2>2
  <2> HIDE DEF x
  <2>4. Append(m.captures, x) \in Seq(1..c)
    BY <2>2, <2>3, AppendProperties
  <2> HIDE DEF c
  <2>5. /\ next \in Capturing(U, c) /\ next.cells = m.cells /\ next.stack = m.stack
        /\ next.frame = m.frame
    BY <2>2, <2>4 DEF Capturing
  <2> HIDE DEF next
  <2> QED BY <2>1, <2>5 DEF Kept, c
<1>3. CASE source[1] # "local" /\ i \notin DOMAIN m.frame.captures
  <2> DEFINE ce == Append(m.cells, None)
             next == [m EXCEPT !.captures = Append(@, c + 1), !.cells = ce]
  <2>1. Captured(m, source) = [m EXCEPT !.captures = Append(@, Len(m.cells) + 1),
                                        !.cells = Append(@, None)]
    BY <1>3, Zenon DEF Captured
  <2>2. m \in Capturing(U, c) /\ m.frame \in FrameSet(c) /\ m.captures \in Seq(1..c) /\ m.cells \in Seq(U)
    BY DEF Kept, Capturing
  <2>3. Captured(m, source) = next
    BY <2>1, <2>2 DEF Capturing
  <2>4. c \in Nat /\ ce \in Seq(U) /\ Len(ce) = c + 1 /\ Len(cells) <= c
    BY <2>2, AppendProperties, LenProperties DEF Kept
  <2> HIDE DEF c, ce
  <2>5. c + 1 \in Nat /\ c + 1 \in 1..(c + 1) /\ c <= c + 1 /\ 1..c \subseteq 1..(c + 1)
        /\ Len(cells) <= c + 1
    BY <2>4
  <2>6. m.frame \in FrameSet(c + 1) /\ m.captures \in Seq(1..(c + 1))
    <3>1. FrameSet(c) \subseteq FrameSet(c + 1)
      BY <2>4, <2>5, MoreFrames
    <3>2. Seq(1..c) \subseteq Seq(1..(c + 1))
      BY <2>5, SeqOfMore
    <3> HIDE DEF next
    <3> QED BY <2>2, <3>1, <3>2
  <2>7. Append(m.captures, c + 1) \in Seq(1..(c + 1))
    BY <2>5, <2>6, AppendProperties
  <2>8. /\ next \in Capturing(U, c + 1) /\ next.cells = ce /\ next.stack = m.stack
        /\ next.frame = m.frame
    BY <2>2, <2>4, <2>6, <2>7 DEF Capturing
  <2> HIDE DEF next
  <2>9. Kept(U, next)
    BY <2>4, <2>5, <2>8 DEF Kept
  <2> QED BY <2>3, <2>9
<1> QED BY <1>1, <1>2, <1>3

(* ... and all of them: Closed is a recursive function of their number. *)
ClosedBody(sources, steps, g) ==
    [n \in 0..steps |->
        IF n = 0 THEN [frame |-> Frame, cells |-> cells, stack |-> stack, captures |-> <<>>]
        ELSE Captured(g[n - 1], sources[n])]
ClosedFcn(sources, steps) == CHOOSE g : g = ClosedBody(sources, steps, g)

LEMMA ClosedIs ==
    ASSUME NEW sources
    PROVE  Closed(sources) = ClosedFcn(sources, Len(sources))[Len(sources)]
BY DEF Closed, ClosedFcn, ClosedBody

LEMMA ClosedExists ==
    ASSUME NEW sources, NEW steps \in Nat
    PROVE  ClosedFcn(sources, steps) = ClosedBody(sources, steps, ClosedFcn(sources, steps))
<1> DEFINE Solved(n) == \E g : g = ClosedBody(sources, n, g)
           T == {n \in Nat : ~Solved(n)}
           start == [frame |-> Frame, cells |-> cells, stack |-> stack, captures |-> <<>>]
<1>1. Solved(steps)
  <2>1. SUFFICES ASSUME T # {} PROVE FALSE
    OBVIOUS
  <2>2. PICK m \in T : \A n \in T : ~(n < m)
    <3> HIDE DEF T
    <3>1. T \in SUBSET Nat
      BY DEF T
    <3> QED BY <2>1, <3>1, SmallestNat
  <2>3. CASE m = 0
    <3> DEFINE g == [n \in 0..0 |-> start]
    <3>1. g = ClosedBody(sources, 0, g)
      BY DEF ClosedBody
    <3> QED BY <2>2, <2>3, <3>1
  <2>4. CASE m # 0
    <3>1. m - 1 \in Nat /\ m \in Nat /\ Solved(m - 1)
      BY <2>2, <2>4
    <3>2. PICK h : h = ClosedBody(sources, m - 1, h)
      BY <3>1
    <3> DEFINE g == [n \in 0..m |-> IF n = m THEN Captured(h[m - 1], sources[m]) ELSE h[n]]
    <3>3. ASSUME NEW n \in 0..m PROVE g[n] = ClosedBody(sources, m, g)[n]
      <4>1. CASE n = 0
        BY <2>4, <3>1, <3>2, <4>1 DEF ClosedBody
      <4>2. CASE n = m
        <5>1. g[m - 1] = h[m - 1]
          BY <3>1
        <5> QED BY <2>4, <3>1, <4>2, <5>1 DEF ClosedBody
      <4>3. CASE n # 0 /\ n # m
        <5>1. n \in 0..(m - 1) /\ n - 1 \in 0..m /\ n - 1 # m
          BY <3>1, <4>3
        <5>2. g[n - 1] = h[n - 1] /\ g[n] = h[n]
          BY <4>3, <5>1
        <5>3. h[n] = Captured(h[n - 1], sources[n])
          BY <3>2, <4>3, <5>1 DEF ClosedBody
        <5>4. ClosedBody(sources, m, g)[n] = Captured(g[n - 1], sources[n])
          <6> HIDE DEF g
          <6> QED BY <4>3 DEF ClosedBody
        <5> HIDE DEF g
        <5> QED BY <5>2, <5>3, <5>4
      <4> QED BY <4>1, <4>2, <4>3
    <3>4. g = ClosedBody(sources, m, g)
      <4>1. g = [n \in 0..m |-> g[n]]
        OBVIOUS
      <4>2. ClosedBody(sources, m, g) = [n \in 0..m |-> ClosedBody(sources, m, g)[n]]
        <5> HIDE DEF g
        <5> QED BY DEF ClosedBody
      <4> HIDE DEF g
      <4> QED BY <3>3, <4>1, <4>2
    <3> HIDE DEF g
    <3> QED BY <2>2, <3>4
  <2> QED BY <2>3, <2>4
<1> QED BY <1>1 DEF ClosedFcn

LEMMA ClosedKept ==
    ASSUME NEW U, None \in U, NEW sources, Len(sources) \in Nat, Len(cells) \in Nat,
           Frame \in FrameSet(Len(cells)), cells \in Seq(U), stack \in Seq(U),
           \A j \in 1..Len(sources) : sources[j][1] = "local" =>
                sources[j][2] \in Nat /\ Slot(sources[j][2]) \in 1..Len(stack)
    PROVE  Kept(U, Closed(sources))
<1> DEFINE N == Len(sources)
           g == ClosedFcn(sources, N)
           T == {n \in 0..N : ~Kept(U, g[n])}
           start == [frame |-> Frame, cells |-> cells, stack |-> stack, captures |-> <<>>]
<1>1. g = ClosedBody(sources, N, g)
  BY ClosedExists
<1> HIDE DEF g
<1>2. g[0] = start /\ \A n \in 1..N : g[n] = Captured(g[n - 1], sources[n])
  <2> HIDE DEF N
  <2>1. N \in Nat
    BY DEF N
  <2> QED BY <1>1, <2>1 DEF ClosedBody
<1>3. Kept(U, start)
  <2>1. <<>> \in Seq(1..Len(cells))
    OBVIOUS
  <2>2. start \in Capturing(U, Len(cells))
    BY <2>1 DEF Capturing
  <2>3. start.cells = cells /\ start.frame = Frame /\ start.stack = stack
    OBVIOUS
  <2> HIDE DEF start
  <2> QED BY <2>2, <2>3 DEF Kept
<1>4. ASSUME NEW n \in 1..N, Kept(U, g[n - 1]) PROVE Kept(U, g[n])
  BY <1>2, <1>4, CapturedKept
<1>5. T = {}
  <2> SUFFICES ASSUME T # {} PROVE FALSE
    OBVIOUS
  <2>1. PICK m \in T : \A n \in T : ~(n < m)
    <3> HIDE DEF T
    <3>1. T \in SUBSET Nat
      BY DEF T
    <3> QED BY <3>1, SmallestNat
  <2> HIDE DEF start, N
  <2>2. N \in Nat
    BY DEF N
  <2>3. m # 0
    BY <1>2, <1>3, <2>1
  <2>4. m \in 1..N /\ m - 1 \in 0..N /\ m - 1 < m
    BY <2>1, <2>2, <2>3
  <2>5. Kept(U, g[m - 1])
    BY <2>1, <2>4
  <2> QED BY <1>4, <2>1, <2>4, <2>5
<1>6. N \in 0..N
  OBVIOUS
<1>7. Kept(U, g[N])
  BY <1>5, <1>6
<1> QED BY <1>7, ClosedIs DEF g

LEMMA MakeClosureStep ==
    ASSUME VMInv, MakeClosure
    PROVE  VMInv'
<1> DEFINE sources == Instruction[3]
           m == Closed(sources)
           fr == [m.frame EXCEPT !.pc = @ + 1]
           v == <<"fn", Instruction[2], m.captures>>
<1>1. /\ status = "running" /\ Instruction[1] = "MAKE_CLOSURE"
      /\ cells' = m.cells /\ frames' = [frames EXCEPT ![Len(frames)] = fr]
      /\ stack' = Append(m.stack, v)
      /\ UNCHANGED <<program, heap, globals, status>>
  BY DEF MakeClosure, At
<1>2. Instruction[1] \in Straight
  BY <1>1 DEF Straight, Opcodes, ConditionalJumps, Pushes
<1>3. StackEffect(Instruction)[1] = 0 /\ StackEffect(Instruction)[2] = 1
  BY <1>1, Effects DEF Pushes
<1>4. /\ Frame \in FrameSet(Len(cells)) /\ Len(cells) \in Nat /\ Len(stack) \in Nat /\ Len(heap) \in Nat
  BY <1>1, TopFrame
<1>5. PICK U, T : Typed(U, T, stack, cells, heap, globals)
  BY <1>1, TopFrame DEF Running
<1>6. /\ Instruction[2] \in DOMAIN Chunk /\ Len(sources) \in Nat
      /\ \A j \in 1..Len(sources) : sources[j][1] = "local" =>
            sources[j][2] \in Nat /\ Slot(sources[j][2]) \in 1..Len(stack)
  <2>1. Operands(Len(Chunk), LocalsOf(Frame), Instruction)
    BY <1>1, TopInstruction
  <2>2. Instruction[2] \in 1..Len(Chunk) /\ sources \in Seq(Range(sources))
        /\ \A j \in DOMAIN sources : sources[j][1] = "local" => sources[j][2] \in 0..(LocalsOf(Frame) - 1)
    BY <1>1, <2>1 DEF Operands
  <2>3. DOMAIN Chunk = 1..Len(Chunk)
    BY <1>1, FunctionShape, TopFrame
  <2>4. Len(sources) \in Nat /\ DOMAIN sources = 1..Len(sources)
    BY <2>2, LenProperties
  <2>5. ASSUME NEW j \in 1..Len(sources), sources[j][1] = "local"
        PROVE  sources[j][2] \in Nat /\ Slot(sources[j][2]) \in 1..Len(stack)
    <3> DEFINE k == sources[j][2]
    <3>1. k \in 0..(LocalsOf(Frame) - 1)
      BY <2>2, <2>4, <2>5
    <3> HIDE DEF k
    <3>2. Slot(k) \in 1..(Len(stack) - StackEffect(Instruction)[1])
      BY <1>1, <1>2, <1>5, <3>1, LocalValues
    <3>3. LocalsOf(Frame) \in Nat
      BY <1>1, TopFrame
    <3>4. k \in Nat /\ Slot(k) \in 1..Len(stack)
      BY <1>3, <1>4, <3>1, <3>2, <3>3
    <3> QED BY <3>4 DEF k
  <2> HIDE DEF sources
  <2> QED BY <2>2, <2>3, <2>4, <2>5
<1>7. Kept(U, m)
  BY <1>4, <1>5, <1>6, ClosedKept DEF Typed, Hold, GoodSet
<1> DEFINE c == Len(m.cells)
           W == {v}
<1>8. m \in Capturing(U, c) /\ Len(cells) <= c /\ Len(m.stack) = Len(stack)
      /\ m.frame.func = Frame.func /\ m.frame.base = Frame.base
      /\ m.frame.native = Frame.native /\ m.frame.pc = Frame.pc
  BY <1>7 DEF Kept
<1> HIDE DEF m, sources
<1>9. /\ m.frame \in FrameSet(c) /\ m.cells \in Seq(U) /\ m.stack \in Seq(U) /\ m.captures \in Seq(1..c)
      /\ c \in Nat
  BY <1>8, LenProperties DEF Capturing
<1>10. fr \in FrameSet(c) /\ fr.pc = Frame.pc + 1 /\ fr.func = Frame.func /\ fr.base = Frame.base
       /\ fr.native = Frame.native
  <2> DEFINE g == m.frame
  <2>1. g \in FrameSet(c)
    BY <1>9
  <2> HIDE DEF c
  <2>2. fr = [g EXCEPT !.pc = g.pc + 1] /\ g.pc \in Nat
    BY <2>1 DEF FrameSet
  <2> HIDE DEF g, fr
  <2>3. fr \in FrameSet(c) /\ fr.pc = g.pc + 1 /\ fr.func = g.func /\ fr.base = g.base
        /\ fr.native = g.native
    BY <2>1, <2>2 DEF FrameSet
  <2> QED BY <1>8, <2>3 DEF g
<1>11. Len(heap) \in Nat /\ Len(heap') = Len(heap) /\ Len(cells') = c
  BY <1>1, <1>4
<1>12. GoodValue(v, c, Len(heap))
  BY <1>6, <1>9 DEF GoodValue
<1>13. GoodSet(U \cup W, c, Len(heap))
  <2>1. \A w \in W : GoodValue(w, c, Len(heap))
    BY <1>12
  <2>2. GoodSet(U, Len(cells), Len(heap)) /\ Len(heap) <= Len(heap)
    BY <1>4, <1>5 DEF Typed
  <2> HIDE DEF W, c
  <2> QED BY <1>4, <1>8, <1>9, <2>1, <2>2, MoreIsGood
<1>15. Hold(U \cup W, T, stack', cells', heap', globals')
  <2> DEFINE V == U \cup W
  <2>1. Hold(V, T, stack, cells, heap, globals)
    BY <1>5, MoreHold DEF Typed
  <2>2. U \subseteq V /\ v \in V
    OBVIOUS
  <2> HIDE DEF V, v
  <2>3. m.cells \in Seq(V) /\ m.stack \in Seq(V)
    BY <1>9, <2>2, SeqOfMore
  <2>4. Append(m.stack, v) \in Seq(V)
    BY <2>2, <2>3, AppendProperties
  <2>5. Hold(V, T, stack', cells', heap', globals')
    BY <1>1, <2>1, <2>3, <2>4 DEF Hold
  <2> QED BY <2>5 DEF V
<1>16. Len(stack') = Len(stack) - StackEffect(Instruction)[1] + StackEffect(Instruction)[2]
  <2> HIDE DEF v
  <2>1. Len(stack') = Len(m.stack) + 1
    BY <1>1, <1>9, AppendProperties
  <2> QED BY <1>3, <1>4, <1>8, <2>1
<1>17. \E V, Z : Typed(V, Z, stack', cells', heap', globals')
  <2>1. Typed(U \cup W, T, stack', cells', heap', globals')
    BY <1>11, <1>13, <1>15 DEF Typed
  <2> QED BY <2>1
<1>18. fr \in FrameSet(Len(cells')) /\ Len(cells') \in Nat /\ Len(cells) <= Len(cells')
  BY <1>8, <1>9, <1>10, <1>11
<1> HIDE DEF fr, v, W, c
<1> QED BY <1>1, <1>2, <1>10, <1>16, <1>17, <1>18, FrameStep
----------------------------------------------------------------------------
(* The machine starts in the first frame of main, and every step keeps the invariant.        *)

LEMMA InitStep ==
    ASSUME Init
    PROVE  VMInv
<1> DEFINE main == Len(Chunk)
           n == Chunk[main].locals
           fr == NewFrame(main, 0, <<>>)
           U == {None} \cup {<<"fn", i, <<>>>> : i \in DOMAIN Chunk}
           verdict == Programs[program].verdict
<1>1. /\ program \in DOMAIN Programs /\ frames = <<fr>> /\ stack = Nones(n)
      /\ cells = <<>> /\ heap = <<>> /\ globals = FunctionGlobals(Chunk)
  BY DEF Init
<1>2. main \in DOMAIN Chunk /\ n \in Nat
  BY <1>1, FunctionShape
<1>3. /\ fr.func = main /\ fr.pc = 0 /\ fr.base = 0 /\ fr.native = FALSE
      /\ fr.inline = <<>> /\ fr.open = <<>> /\ fr.captures = <<>>
  BY DEF NewFrame
<1> HIDE DEF fr
<1>4. fr \in FrameSet(Len(cells))
  <2> DEFINE c == Len(cells)
  <2>1. <<>> \in PartialTo(c)
    <3>1. <<>> \in [{} -> 1..c] /\ {} \in SUBSET Nat
      OBVIOUS
    <3> HIDE DEF c
    <3>2. [{} -> 1..c] \in {[D -> 1..c] : D \in SUBSET Nat}
      BY <3>1
    <3> QED BY <3>1, <3>2 DEF PartialTo
  <2>2. <<>> \in Seq(1..c)
    OBVIOUS
  <2> HIDE DEF main, c
  <2>3. fr = [func |-> main, pc |-> 0, base |-> 0, inline |-> <<>>, open |-> <<>>,
              captures |-> <<>>, native |-> FALSE]
    BY DEF fr, NewFrame
  <2>4. FALSE \in BOOLEAN /\ 0 \in Nat
    OBVIOUS
  <2>5. fr \in FrameSet(c)
    BY <1>2, <2>1, <2>2, <2>3, <2>4, Zenon DEF FrameSet
  <2> QED BY <2>5 DEF c
<1>5. frames \in Seq(FrameSet(Len(cells))) /\ frames # <<>> /\ Len(frames) = 1 /\ frames[1] = fr
      /\ DOMAIN frames = 1..1
  <2> DEFINE S == FrameSet(Len(cells))
  <2>1. fr \in S
    BY <1>4
  <2> HIDE DEF S
  <2>2. <<fr>> \in Seq(S) /\ Len(<<fr>>) = 1 /\ <<fr>>[1] = fr /\ <<fr>> # <<>> /\ DOMAIN <<fr>> = 1..1
    BY <2>1
  <2> QED BY <1>1, <2>2 DEF S
<1>6. HasCode(fr)
  BY <1>2, <1>3 DEF HasCode
<1>7. 0 \in DOMAIN HeightsAt(fr) /\ HeightsAt(fr)[0] = 0
  BY <1>1, <1>6, FrameCode DEF Consistent, HeightsOver
<1>8. stack \in Seq({None}) /\ Len(stack) = n
  <2> HIDE DEF n
  <2>1. stack \in [1..n -> {None}]
    BY <1>1, <1>2 DEF Nones
  <2> QED BY <1>2, <2>1, SeqDef, LenProperties
<1>9. HeightOf(fr, Len(stack)) = 0
  <2>1. LocalsOf(fr) = n
    BY <1>3 DEF LocalsOf
  <2> HIDE DEF n
  <2> QED BY <1>2, <1>3, <1>8, <2>1 DEF HeightOf
<1>10. Settles(fr, stack)
  BY <1>3, <1>7, <1>9 DEF Settles
<1>11. FramesFit(frames, stack)
  BY <1>5, <1>6, <1>10 DEF FramesFit
<1>12. GoodSet(U, Len(cells), Len(heap))
  <2>1. GoodValue(None, 0, 0)
    BY DEF GoodValue, None
  <2>2. ASSUME NEW i \in DOMAIN Chunk PROVE GoodValue(<<"fn", i, <<>>>>, 0, 0)
    BY DEF GoodValue
  <2>3. Len(cells) = 0 /\ Len(heap) = 0
    BY <1>1
  <2> QED BY <2>1, <2>2, <2>3 DEF GoodSet
<1>13. \A x \in DOMAIN globals : globals[x] \in U
  <2>1. ASSUME NEW x \in {Chunk[i].name : i \in DOMAIN Chunk}
        PROVE  FunctionGlobals(Chunk)[x] \in U
    <3> DEFINE j == CHOOSE i \in DOMAIN Chunk : Chunk[i].name = x
    <3>1. j \in DOMAIN Chunk
      BY <2>1
    <3>2. FunctionGlobals(Chunk)[x] = <<"fn", j, <<>>>>
      BY <2>1 DEF FunctionGlobals
    <3> HIDE DEF j
    <3> QED BY <3>1, <3>2
  <2>2. DOMAIN FunctionGlobals(Chunk) = {Chunk[i].name : i \in DOMAIN Chunk}
    BY DEF FunctionGlobals
  <2> HIDE DEF U
  <2> QED BY <1>1, <2>1, <2>2
<1>14. None \in U
  OBVIOUS
<1> HIDE DEF U
<1>15. stack \in Seq(U) /\ cells \in Seq(U) /\ heap \in Seq(Objects(U, {}))
  <2>1. Seq({None}) \subseteq Seq(U)
    BY <1>14, SeqOfMore
  <2> QED BY <1>1, <1>8, <2>1
<1>16. Typed(U, {}, stack, cells, heap, globals)
  BY <1>12, <1>13, <1>15 DEF Typed, Hold
<1> QED BY <1>1, <1>5, <1>11, <1>16 DEF VMInv, Running

LEMMA NextStep ==
    ASSUME VMInv, [Execute \/ Jump]_vmVars
    PROVE  VMInv'
<1>1. CASE Jump
  BY <1>1, JumpStep
<1>2. CASE LoadConstant \/ LoadVariable \/ StoreVar \/ StoreCapture \/ StoreGlobal \/ Pop \/ Dup
  BY <1>2, LoadConstantStep, LoadVariableStep, StoreVarStep, StoreCaptureStep, StoreGlobalStep,
     PopStep, DupStep
<1>3. CASE Operate1 \/ Operate2 \/ Concatenate \/ AppendToVar \/ SetSlot \/ TestNone \/ ConcatenateInPlace
  BY <1>3, Operate1Step, Operate2Step, ConcatenateStep, AppendToVarStep, SetSlotStep, TestNoneStep,
     ConcatenateInPlaceStep
<1>4. CASE ConditionalJump \/ NativeJump
  BY <1>4, ConditionalJumpStep, NativeJumpStep
<1>5. CASE CallFunction \/ CallSpread \/ SelfTailCall \/ ReturnToCaller \/ Throw
  BY <1>5, CallFunctionStep, CallSpreadStep, SelfTailCallStep, ReturnStep, ThrowStep
<1>6. CASE MakeClosure \/ CloseUpvalues
  BY <1>6, MakeClosureStep, CloseUpvaluesStep
<1>7. CASE MakeArray \/ GrowArray \/ GetIndex \/ SetIndex \/ GetLength \/ IterArray \/ MakePairs \/ NextPair
  BY <1>7, MakeArrayStep, GrowArrayStep, GetIndexStep, SetIndexStep, GetLengthStep, IterArrayStep,
     MakePairsStep, NextPairStep
<1>8. CASE UNCHANGED vmVars
  <2>1. UNCHANGED <<program, frames, stack, cells, heap, globals, status>>
    BY <1>8 DEF vmVars
  <2> QED BY <2>1 DEF VMInv, Running, FramesFit, Waits, Settles, Branches, HeightOf, LocalsOf, HasCode,
                      HeightsAt, CodeAt, Chunk, FrameSet, Typed, GoodSet, GoodValue, Hold, Objects
<1> QED BY <1>1, <1>2, <1>3, <1>4, <1>5, <1>6, <1>7, <1>8, Zenon DEF Execute

(* The machine always has the frames that the verifier expects, of values that are there.    *)
THEOREM MachineInvariant == Interpreted => []VMInv
<1>1. Init => VMInv
  BY InitStep
<1>2. VMInv /\ [Execute \/ Jump]_vmVars => VMInv'
  BY NextStep
<1> QED BY <1>1, <1>2, PTL DEF Interpreted

LEMMA VerifiedByInvariant ==
    ASSUME VMInv
    PROVE  StackAsVerified
<1>1. program \in DOMAIN Programs
  BY DEF VMInv
<1>2. Programs[program].verdict.verified /\ Programs[program].nativeVerdict.verified
  <2>1. /\ MayRun(Programs[program].chunk, Programs[program].verdict)
        /\ MayRun(NativeForm(Programs[program].chunk, Programs[program].native),
                  Programs[program].nativeVerdict)
    BY <1>1, ProgramsAssumption
  <2> QED BY <2>1 DEF MayRun
<1>3. ASSUME status = "running", NEW k \in DOMAIN frames PROVE AsExpected(k) \/ Branching(k)
  <2> DEFINE fr == frames[k]
             top == IF k = Len(frames) THEN Len(stack) ELSE frames[k + 1].base
  <2>1. /\ frames \in Seq(FrameSet(Len(cells))) /\ FramesFit(frames, stack)
        /\ Len(frames) \in Nat /\ DOMAIN frames = 1..Len(frames)
    BY <1>3, TopFrame DEF Running
  <2>2. OperandsOf(k) = HeightOf(fr, top)
    BY DEF OperandsOf, HeightOf, LocalsOf
  <2>3. CASE k # Len(frames)
    <3>1. k \in 1..(Len(frames) - 1)
      BY <1>3, <2>1, <2>3
    <3>2. Waits(fr, frames[k + 1].base)
      BY <2>1, <3>1 DEF FramesFit
    <3> QED BY <2>2, <2>3, <3>2 DEF AsExpected, Waits
  <2>4. CASE k = Len(frames)
    <3>1. Settles(fr, stack) \/ Branches(fr, stack)
      BY <2>1, <2>4 DEF FramesFit
    <3>2. CASE Settles(fr, stack)
      <4>1. HeightOf(fr, top) + 0 = HeightOf(fr, top)
        <5>1. /\ fr \in FrameSet(Len(cells)) /\ Len(stack) \in Nat /\ LocalsOf(fr) \in Nat
          BY <1>3, <2>4, TopFrame
        <5>2. fr.base \in Nat
          BY <5>1 DEF FrameSet
        <5> QED BY <2>4, <5>1, <5>2 DEF HeightOf
      <4> QED BY <2>2, <2>4, <3>2, <4>1 DEF AsExpected, Settles
    <3>3. CASE Branches(fr, stack)
      <4>1. CodeAt(fr)[(fr.pc - 1) + 1] = CodeAt(fr)[fr.pc] /\ Peek(0) = stack[Len(stack)]
        <5>1. fr \in FrameSet(Len(cells)) /\ Len(stack) \in Nat
          BY <1>3, <2>4, TopFrame
        <5>2. fr.pc \in Nat
          BY <5>1 DEF FrameSet
        <5>3. (fr.pc - 1) + 1 = fr.pc /\ Len(stack) - 0 = Len(stack)
          BY <5>1, <5>2
        <5> QED BY <5>3 DEF Peek
      <4> QED BY <2>2, <2>4, <3>3, <4>1 DEF Branching, Branches
    <3> QED BY <3>1, <3>2, <3>3
  <2> QED BY <2>3, <2>4
<1> QED BY <1>2, <1>3 DEF StackAsVerified

(* The run checks it on programs: in every frame the interpreter and the native code have    *)
(* the operands that the verifier worked out, so no instruction takes what its frame has not *)
(* put on the stack.                                                                         *)
THEOREM StackHeights == Interpreted => []StackAsVerified
<1>1. VMInv => StackAsVerified
  BY VerifiedByInvariant
<1> QED BY <1>1, MachineInvariant, PTL

=============================================================================
