--------------------------- MODULE EventLoopProofs ---------------------------
(***************************************************************************)
(* Proofs about EventLoop, for any number of timeouts, operations and      *)
(* intervals and native calls nested to any depth: the count of pending    *)
(* timeouts is exact, callbacks are roots while they may be called, the    *)
(* program ends owing nothing, and ticks of an interval nest only by way   *)
(* of a yield.                                                             *)
(***************************************************************************)
EXTENDS EventLoop, FiniteSetTheorems, SequenceTheorems, TLAPS

(* Script code runs in a callback and in a tick only. *)
RunsScript(c) == c.at \in {"callback", "tick"}
Calls(c) == c.at = "callback"

CallOK(c) ==
    /\ c.at = "callback" => c.op \in Timer
    /\ c.at = "await" => c.op \in IO
    /\ c.at \notin {"callback", "await"} => c.op = NoOp
    /\ c.at = "tick" => c.id \in Interval
    /\ c.at # "tick" => c.id = NoInterval

(* What may lie on what: intervals are fired by the steps of a yield or of *)
(* the loop at the end of the program, never by those of an await.         *)
LinkOK(s, n) ==
    /\ s[n].at \in {"fire", "tick"} =>
           /\ n >= 2 /\ s[n - 1].at = "steps"
           /\ n = 2 \/ RunsScript(s[n - 2])
    /\ s[n].at = "steps" =>
           \/ n = 1
           \/ RunsScript(s[n - 1])
           \/ s[n - 1].at = "await" /\ "fire" \notin ToSet(s[n].steps)

StackOK(s) ==
    /\ s \in Seq(CallType)
    /\ \A n \in 1..Len(s) : CallOK(s[n]) /\ LinkOK(s, n)
    /\ \A m, n \in 1..Len(s) : Calls(s[m]) /\ Calls(s[n]) /\ s[m].op = s[n].op => m = n

(* The timeouts whose callbacks are under way. *)
Called(s) == {s[n].op : n \in {m \in 1..Len(s) : Calls(s[m])}}

(* An operation completes once, after it was submitted. *)
PoolOK ==
    /\ \A m, n \in 1..Len(completions) : completions[m] = completions[n] => m = n
    /\ Completed \subseteq submitted

(* The timeouts whose callback has not begun. *)
Owed == (submitted \cap Timer) \ Delivered

Rooted == async_roots = {o \in submitted \cap Timer : o \notin Delivered \/ o \in Called(stack)}

EndOK == program = "ended" => stack = <<>>

IInv ==
    /\ TypeOK /\ PoolOK /\ TimeoutsCounted
    /\ StackOK(stack) /\ Called(stack) \subseteq Delivered /\ Rooted
    /\ EndOK /\ NothingOwed

-----------------------------------------------------------------------------
(* The stack of native calls.                                              *)

LEMMA Lengths ==
    ASSUME NEW s \in Seq(CallType)
    PROVE  /\ Len(s) \in Nat /\ DOMAIN s = 1..Len(s)
           /\ s # <<>> <=> Len(s) >= 1
           /\ \A n \in 1..Len(s) : s[n] \in CallType
<1>1. Len(<<>>) = 0
  OBVIOUS
<1> QED BY <1>1, LenProperties, EmptySeq, ElementOfSeq

LEMMA Pushing ==
    ASSUME NEW s \in Seq(CallType), NEW c \in CallType
    PROVE  /\ Append(s, c) \in Seq(CallType) /\ Len(Append(s, c)) = Len(s) + 1
           /\ \A n \in 1..Len(s) : Append(s, c)[n] = s[n]
           /\ Append(s, c)[Len(s) + 1] = c
BY AppendProperties

LEMMA Popping ==
    ASSUME NEW s \in Seq(CallType), s # <<>>
    PROVE  /\ Front(s) \in Seq(CallType) /\ Len(Front(s)) = Len(s) - 1
           /\ \A n \in 1..Len(s) - 1 : Front(s)[n] = s[n]
           /\ Last(s) = s[Len(s)] /\ Last(s) \in CallType
<1>1. Len(s) \in Nat /\ Len(s) >= 1 /\ \A n \in 1..Len(s) : s[n] \in CallType
  BY Lengths
<1>2. \A n \in 1..Len(s) - 1 : s[n] \in CallType
  BY <1>1
<1>3. 1 \in Int /\ Len(s) - 1 \in Int
  BY <1>1
<1>4. /\ SubSeq(s, 1, Len(s) - 1) \in Seq(CallType)
      /\ Len(SubSeq(s, 1, Len(s) - 1)) = IF 1 <= Len(s) - 1 THEN Len(s) - 1 - 1 + 1 ELSE 0
      /\ \A i \in 1..(Len(s) - 1 - 1 + 1) : SubSeq(s, 1, Len(s) - 1)[i] = s[1 + i - 1]
  BY <1>2, <1>3, SubSeqProperties
<1>5. \A n \in 1..Len(s) - 1 : n \in 1..(Len(s) - 1 - 1 + 1) /\ 1 + n - 1 = n
  BY <1>1
<1>6. Len(SubSeq(s, 1, Len(s) - 1)) = Len(s) - 1
  <2>1. \A k \in Nat : k >= 1 => (IF 1 <= k - 1 THEN k - 1 - 1 + 1 ELSE 0) = k - 1
    OBVIOUS
  <2> QED BY <1>1, <1>4, <2>1
<1>7. s[Len(s)] \in CallType
  BY <1>1
<1> QED BY <1>4, <1>5, <1>6, <1>7 DEF Front, Last

LEMMA Replacing ==
    ASSUME NEW s \in Seq(CallType), s # <<>>, NEW c \in CallType
    PROVE  /\ Append(Front(s), c) \in Seq(CallType)
           /\ Len(Append(Front(s), c)) = Len(s)
           /\ \A n \in 1..Len(s) - 1 : Append(Front(s), c)[n] = s[n]
           /\ Append(Front(s), c)[Len(s)] = c
<1>1. /\ Front(s) \in Seq(CallType) /\ Len(Front(s)) = Len(s) - 1
      /\ \A n \in 1..Len(s) - 1 : Front(s)[n] = s[n]
  BY Popping
<1>2. Len(s) \in Nat /\ (Len(s) - 1) + 1 = Len(s)
  BY Lengths
<1> HIDE DEF Front
<1>3. /\ Append(Front(s), c) \in Seq(CallType) /\ Len(Append(Front(s), c)) = (Len(s) - 1) + 1
      /\ \A n \in 1..Len(s) - 1 : Append(Front(s), c)[n] = s[n]
      /\ Append(Front(s), c)[(Len(s) - 1) + 1] = c
  BY <1>1, Pushing
<1> QED BY <1>2, <1>3

(* What a call may lie on. *)
MayLieOn(s, c) ==
    /\ c.at \in {"fire", "tick"} =>
           /\ Len(s) >= 1 /\ s[Len(s)].at = "steps"
           /\ Len(s) = 1 \/ RunsScript(s[Len(s) - 1])
    /\ c.at = "steps" =>
           \/ Len(s) = 0
           \/ RunsScript(s[Len(s)])
           \/ s[Len(s)].at = "await" /\ "fire" \notin ToSet(c.steps)
    /\ Calls(c) => c.op \notin Called(s)

CalledBy(c) == IF Calls(c) THEN {c.op} ELSE {}

LEMMA Small ==
    \A k \in Nat : /\ k + 1 >= 2 <=> k >= 1
                   /\ k + 1 = 1 <=> k = 0
                   /\ k + 1 = 2 <=> k = 1
                   /\ k >= 1 /\ k # 1 => k > 1
                   /\ k = 0 \/ k >= 1
                   /\ (k + 1) - 1 = k /\ (k + 1) - 2 = k - 1
OBVIOUS

LEMMA PushedLinks ==
    ASSUME NEW s \in Seq(CallType), NEW c \in CallType, MayLieOn(s, c)
    PROVE  LinkOK(Append(s, c), Len(s) + 1)
<1> DEFINE t == Append(s, c)
           n == Len(s) + 1
<1>1. Len(s) \in Nat
  BY Lengths
<1>2. /\ \A i \in 1..Len(s) : t[i] = s[i]
      /\ t[Len(s) + 1] = c
  BY Pushing
<1> HIDE DEF t
<1>3. t[n] = c /\ n - 1 = Len(s) /\ n - 2 = Len(s) - 1
  BY <1>1, <1>2
<1>4. Len(s) >= 1 => t[n - 1] = s[Len(s)]
  BY <1>1, <1>2, <1>3
<1>5. Len(s) > 1 => t[n - 2] = s[Len(s) - 1]
  BY <1>1, <1>2, <1>3
<1>6. /\ n >= 2 <=> Len(s) >= 1
      /\ n = 1 <=> Len(s) = 0
      /\ n = 2 <=> Len(s) = 1
      /\ Len(s) >= 1 /\ Len(s) # 1 => Len(s) > 1
      /\ Len(s) = 0 \/ Len(s) >= 1
  BY <1>1, Small
<1> HIDE DEF n
<1>7. c.at \in {"fire", "tick"} => (n >= 2 /\ t[n - 1].at = "steps" /\ (n = 2 \/ RunsScript(t[n - 2])))
  BY <1>4, <1>5, <1>6 DEF MayLieOn
<1>8. c.at = "steps" => (\/ n = 1
                         \/ RunsScript(t[n - 1])
                         \/ t[n - 1].at = "await" /\ "fire" \notin ToSet(c.steps))
  BY <1>4, <1>6 DEF MayLieOn
<1> QED BY <1>3, <1>7, <1>8 DEF LinkOK, t, n

LEMMA LinksKept ==
    ASSUME NEW s, NEW t, NEW n \in Nat, n >= 1, \A i \in 1..n : t[i] = s[i], LinkOK(s, n)
    PROVE  LinkOK(t, n)
<1>1. t[n] = s[n]
  OBVIOUS
<1>2. n # 1 => t[n - 1] = s[n - 1]
  OBVIOUS
<1>3. n >= 2 => n # 1
  OBVIOUS
<1>4. n >= 2 /\ n # 2 => t[n - 2] = s[n - 2]
  OBVIOUS
<1> QED BY <1>1, <1>2, <1>3, <1>4 DEF LinkOK

LEMMA PushedOK ==
    ASSUME NEW s, StackOK(s), NEW c \in CallType, CallOK(c), MayLieOn(s, c)
    PROVE  StackOK(Append(s, c)) /\ Called(Append(s, c)) = Called(s) \cup CalledBy(c)
<1> DEFINE t == Append(s, c)
<1>1. s \in Seq(CallType) /\ Len(s) \in Nat
  BY Lengths DEF StackOK
<1>2. /\ t \in Seq(CallType) /\ Len(t) = Len(s) + 1
      /\ \A n \in 1..Len(s) : t[n] = s[n]
      /\ t[Len(s) + 1] = c
  BY <1>1, Pushing
<1>3. LinkOK(t, Len(s) + 1)
  BY <1>1, PushedLinks
<1> HIDE DEF t
<1>4. ASSUME NEW n \in 1..Len(t) PROVE n \in 1..Len(s) \/ n = Len(s) + 1
  BY <1>1, <1>2
<1>5. ASSUME NEW n \in 1..Len(t) PROVE CallOK(t[n])
  BY <1>2, <1>4 DEF StackOK
<1>6. ASSUME NEW n \in 1..Len(t) PROVE LinkOK(t, n)
  <2>1. CASE n \in 1..Len(s)
    <3>1. LinkOK(s, n) /\ n \in Nat /\ n >= 1
      BY <1>1, <2>1 DEF StackOK
    <3>2. \A i \in 1..n : t[i] = s[i]
      BY <1>1, <1>2, <2>1
    <3> QED BY <3>1, <3>2, LinksKept
  <2> QED BY <1>3, <1>4, <2>1
<1>7. ASSUME NEW m \in 1..Len(s), Calls(c) PROVE ~(Calls(s[m]) /\ s[m].op = c.op)
  BY <1>7 DEF MayLieOn, Called
<1>8. ASSUME NEW m \in 1..Len(t), NEW n \in 1..Len(t), Calls(t[m]), Calls(t[n]), t[m].op = t[n].op
      PROVE  m = n
  <2>1. CASE m \in 1..Len(s) /\ n \in 1..Len(s)
    BY <1>2, <1>8, <2>1 DEF StackOK
  <2>2. CASE m = Len(s) + 1 /\ n \in 1..Len(s)
    BY <1>2, <1>7, <1>8, <2>2
  <2>3. CASE m \in 1..Len(s) /\ n = Len(s) + 1
    BY <1>2, <1>7, <1>8, <2>3
  <2> QED BY <1>4, <2>1, <2>2, <2>3
<1>9. Called(t) = Called(s) \cup CalledBy(c)
  <2>1. ASSUME NEW n \in 1..Len(t), Calls(t[n]) PROVE t[n].op \in Called(s) \cup CalledBy(c)
    BY <1>2, <1>4, <2>1 DEF Called, CalledBy
  <2>2. ASSUME NEW n \in 1..Len(s), Calls(s[n]) PROVE s[n].op \in Called(t)
    <3>1. n \in 1..Len(t) /\ t[n] = s[n]
      BY <1>1, <1>2
    <3> QED BY <2>2, <3>1 DEF Called
  <2>3. Calls(c) => c.op \in Called(t)
    <3>1. Len(s) + 1 \in 1..Len(t)
      BY <1>1, <1>2
    <3> QED BY <1>2, <3>1 DEF Called
  <2> QED BY <2>1, <2>2, <2>3 DEF Called, CalledBy
<1> QED BY <1>2, <1>5, <1>6, <1>8, <1>9 DEF StackOK, t

LEMMA PoppedOK ==
    ASSUME NEW s, StackOK(s), s # <<>>
    PROVE  /\ StackOK(Front(s)) /\ Last(s) \in CallType /\ CallOK(Last(s))
           /\ Called(s) = Called(Front(s)) \cup CalledBy(Last(s))
           /\ MayLieOn(Front(s), Last(s))
<1> DEFINE t == Front(s)
           k == Len(s) - 1
<1>1. s \in Seq(CallType) /\ Len(s) \in Nat /\ Len(s) >= 1
  BY Lengths DEF StackOK
<1>2. /\ t \in Seq(CallType) /\ Len(t) = k
      /\ \A n \in 1..k : t[n] = s[n]
      /\ Last(s) = s[Len(s)] /\ Last(s) \in CallType
  BY <1>1, Popping
<1> HIDE DEF t
<1>3. k \in Nat /\ Len(s) = k + 1 /\ Len(s) \in 1..Len(s) /\ 1..k \subseteq 1..Len(s)
  BY <1>1
<1>4. CallOK(Last(s))
  BY <1>2, <1>3 DEF StackOK
<1>5. ASSUME NEW n \in 1..k PROVE CallOK(t[n]) /\ LinkOK(t, n)
  <2>1. CallOK(s[n]) /\ LinkOK(s, n) /\ n \in Nat /\ n >= 1
    BY <1>3 DEF StackOK
  <2>2. \A i \in 1..n : t[i] = s[i]
    BY <1>2, <1>3
  <2> QED BY <1>2, <2>1, <2>2, LinksKept
<1>6. \A m, n \in 1..k : Calls(t[m]) /\ Calls(t[n]) /\ t[m].op = t[n].op => m = n
  BY <1>2, <1>3 DEF StackOK
<1>7. StackOK(t)
  BY <1>2, <1>5, <1>6 DEF StackOK
<1>8. Called(s) = Called(t) \cup CalledBy(Last(s))
  <2>1. ASSUME NEW n \in 1..Len(s), Calls(s[n]) PROVE s[n].op \in Called(t) \cup CalledBy(Last(s))
    <3>1. \A j \in Nat : \A i \in 1..j : i \in 1..j - 1 \/ i = j
      OBVIOUS
    <3>2. n \in 1..k \/ n = Len(s)
      BY <1>1, <3>1
    <3> QED BY <1>2, <2>1, <3>2 DEF Called, CalledBy
  <2>2. ASSUME NEW n \in 1..k, Calls(t[n]) PROVE t[n].op \in Called(s)
    BY <1>2, <1>3, <2>2 DEF Called
  <2>3. Calls(Last(s)) => Last(s).op \in Called(s)
    BY <1>2, <1>3 DEF Called
  <2> QED BY <1>2, <2>1, <2>2, <2>3 DEF Called, CalledBy
<1>9. MayLieOn(t, Last(s))
  <2>1. LinkOK(s, k + 1) /\ s[k + 1] = Last(s)
    BY <1>2, <1>3 DEF StackOK
  <2>2. (k + 1) - 1 = k /\ (k + 1) - 2 = k - 1
    BY <1>3, Small
  <2>3. k >= 1 => t[k] = s[k]
    BY <1>2, <1>3
  <2>4. k > 1 => t[k - 1] = s[k - 1]
    BY <1>2, <1>3
  <2>5. /\ k + 1 >= 2 <=> k >= 1
        /\ k + 1 = 1 <=> k = 0
        /\ k + 1 = 2 <=> k = 1
        /\ k >= 1 /\ k # 1 => k > 1
        /\ k = 0 \/ k >= 1
    BY <1>3, Small
  <2>6. ASSUME NEW n \in 1..k, Calls(Last(s)), Calls(t[n]) PROVE t[n].op # Last(s).op
    BY <1>2, <1>3, <2>6 DEF StackOK
  <2>7. Calls(Last(s)) => Last(s).op \notin Called(t)
    BY <1>2, <2>6 DEF Called
  <2> HIDE DEF k
  <2>8. Last(s).at \in {"fire", "tick"} =>
            (k >= 1 /\ t[k].at = "steps" /\ (k = 1 \/ RunsScript(t[k - 1])))
    BY <2>1, <2>2, <2>3, <2>4, <2>5 DEF LinkOK
  <2>9. Last(s).at = "steps" => (\/ k = 0
                                 \/ RunsScript(t[k])
                                 \/ t[k].at = "await" /\ "fire" \notin ToSet(Last(s).steps))
    BY <2>1, <2>2, <2>3, <2>5 DEF LinkOK
  <2> QED BY <1>2, <2>7, <2>8, <2>9 DEF MayLieOn
<1> QED BY <1>2, <1>4, <1>7, <1>8, <1>9 DEF t

(* What a call may turn into: only its rest changes, or the callback that  *)
(* it was about to run begins or ends.                                     *)
Turns(b, c) ==
    \/ c.at = b.at /\ c.op = b.op /\ (c.at = "steps" => ToSet(c.steps) \subseteq ToSet(b.steps))
    \/ c.at \in {"fire", "tick"} /\ b.at \in {"fire", "tick"}
    \/ c.at = "process" /\ b.at = "callback"

LEMMA ReplacedOK ==
    ASSUME NEW s, StackOK(s), s # <<>>, NEW c \in CallType, CallOK(c),
           Turns(Last(s), c) \/ (Last(s).at = "process" /\ Calls(c) /\ c.op \notin Called(s))
    PROVE  /\ StackOK(Append(Front(s), c))
           /\ Called(Append(Front(s), c)) = Called(Front(s)) \cup CalledBy(c)
<1>1. /\ StackOK(Front(s)) /\ Called(s) = Called(Front(s)) \cup CalledBy(Last(s))
      /\ MayLieOn(Front(s), Last(s))
  BY PoppedOK
<1> HIDE DEF Front
<1>2. MayLieOn(Front(s), c)
  <2>1. CASE Turns(Last(s), c)
    <3>1. c.at \in {"fire", "tick"} => Last(s).at \in {"fire", "tick"}
      BY <2>1 DEF Turns
    <3>2. c.at = "steps" => Last(s).at = "steps" /\ ToSet(c.steps) \subseteq ToSet(Last(s).steps)
      BY <2>1 DEF Turns
    <3>3. Calls(c) => Calls(Last(s)) /\ c.op = Last(s).op
      BY <2>1 DEF Turns, Calls
    <3> QED BY <1>1, <3>1, <3>2, <3>3 DEF MayLieOn
  <2>2. CASE Last(s).at = "process" /\ Calls(c) /\ c.op \notin Called(s)
    BY <1>1, <2>2 DEF MayLieOn, Calls
  <2> QED BY <2>1, <2>2
<1> QED BY <1>1, <1>2, PushedOK

LEMMA MarkedOK ==
    ASSUME NEW s, StackOK(s), s # <<>>
    PROVE  /\ StackOK([s EXCEPT ![Len(s)].over = TRUE])
           /\ Called([s EXCEPT ![Len(s)].over = TRUE]) = Called(s)
           /\ [s EXCEPT ![Len(s)].over = TRUE] # <<>>
<1> DEFINE c == [Last(s) EXCEPT !.over = TRUE]
           t == [s EXCEPT ![Len(s)].over = TRUE]
<1>1. s \in Seq(CallType) /\ Len(s) \in Nat /\ Len(s) >= 1 /\ Len(s) \in 1..Len(s)
  BY Lengths DEF StackOK
<1>2. Last(s) = s[Len(s)] /\ Last(s) \in CallType /\ CallOK(Last(s))
  BY <1>1, PoppedOK, Popping
<1>3. /\ c \in CallType /\ c.at = Last(s).at /\ c.op = Last(s).op /\ c.steps = Last(s).steps
      /\ c.id = Last(s).id
  BY <1>2 DEF CallType
<1>4. t = [s EXCEPT ![Len(s)] = c]
  BY <1>2
<1> HIDE DEF c
<1>5. /\ [s EXCEPT ![Len(s)] = c] \in Seq(CallType) /\ Len([s EXCEPT ![Len(s)] = c]) = Len(s)
      /\ \A j \in 1..Len(s) : [s EXCEPT ![Len(s)] = c][j] = IF j = Len(s) THEN c ELSE s[j]
  BY <1>1, <1>3, ExceptSeq
<1> HIDE DEF t
<1>6. t \in Seq(CallType) /\ Len(t) = Len(s) /\ \A j \in 1..Len(s) : t[j] = IF j = Len(s) THEN c ELSE s[j]
  BY <1>4, <1>5
<1>7. /\ Append(Front(s), c) \in Seq(CallType)
      /\ Len(Append(Front(s), c)) = Len(s)
      /\ \A n \in 1..Len(s) - 1 : Append(Front(s), c)[n] = s[n]
      /\ Append(Front(s), c)[Len(s)] = c
  BY <1>1, <1>3, Replacing
<1>8. t = Append(Front(s), c)
  <2> HIDE DEF Front
  <2>1. ASSUME NEW i \in 1..Len(t) PROVE t[i] = Append(Front(s), c)[i]
    <3>1. i = Len(s) \/ i \in 1..Len(s) - 1
      BY <1>1, <1>6
    <3> QED BY <1>1, <1>6, <1>7, <3>1
  <2> QED BY <1>6, <1>7, <2>1, SeqEqual
<1>9. Turns(Last(s), c) /\ CallOK(c) /\ CalledBy(c) = CalledBy(Last(s))
  BY <1>2, <1>3 DEF Turns, CallOK, CalledBy, Calls
<1>10. StackOK(Append(Front(s), c)) /\ Called(Append(Front(s), c)) = Called(Front(s)) \cup CalledBy(c)
  BY <1>3, <1>9, ReplacedOK
<1>11. Called(s) = Called(Front(s)) \cup CalledBy(Last(s))
  BY PoppedOK
<1>12. t # <<>>
  BY <1>1, <1>6, Lengths
<1> QED BY <1>8, <1>9, <1>10, <1>11, <1>12 DEF t

-----------------------------------------------------------------------------
(* Calls.                                                                  *)

LEMMA StepLists ==
    /\ <<>> \in Seq({"stop", "process", "fire"})
    /\ YieldSteps \in Seq({"stop", "process", "fire"})
    /\ LoopSteps \in Seq({"stop", "process", "fire"})
    /\ AwaitTurn \in Seq({"stop", "process", "fire"})
    /\ "fire" \notin ToSet(AwaitTurn)
BY DEF YieldSteps, LoopSteps, AwaitTurn, ToSet

LEMMA NewCall ==
    ASSUME NEW at \in {"steps", "process", "callback", "fire", "tick", "await", "join"}
    PROVE  /\ Call(at) \in CallType /\ Call(at).at = at /\ Call(at).op = NoOp
           /\ Call(at).id = NoInterval
           /\ at \notin {"callback", "await", "tick"} => CallOK(Call(at))
<1>1. Call(at) \in CallType
  BY StepLists DEF Call, CallType
<1> QED BY <1>1 DEF Call, CallOK

LEMMA StepsCall ==
    ASSUME NEW l \in Seq({"stop", "process", "fire"})
    PROVE  /\ [Call("steps") EXCEPT !.steps = l] \in CallType
           /\ [Call("steps") EXCEPT !.steps = l].at = "steps"
           /\ [Call("steps") EXCEPT !.steps = l].steps = l
           /\ CallOK([Call("steps") EXCEPT !.steps = l])
<1>1. [Call("steps") EXCEPT !.steps = l] \in CallType
  BY DEF Call, CallType
<1> QED BY <1>1 DEF Call, CallOK

LEMMA AwaitCall ==
    ASSUME NEW o \in IO
    PROVE  /\ [Call("await") EXCEPT !.op = o] \in CallType
           /\ [Call("await") EXCEPT !.op = o].at = "await"
           /\ CallOK([Call("await") EXCEPT !.op = o])
<1>1. [Call("await") EXCEPT !.op = o] \in CallType
  BY StepLists DEF Call, CallType, Op
<1> QED BY <1>1 DEF Call, CallOK

LEMMA StepCall ==
    ASSUME TypeOK, NEW step \in {"stop", "process", "fire"}
    PROVE  /\ CallTo(step) \in CallType /\ CallOK(CallTo(step))
           /\ CallTo(step).at = IF step = "stop" THEN "join" ELSE step
<1>1. CASE step = "process"
  BY <1>1, NewCall DEF CallTo
<1>2. CASE step = "stop"
  BY <1>2, NewCall DEF CallTo
<1>3. CASE step = "fire"
  <2>1. Due \subseteq Interval
    BY DEF TypeOK, Due
  <2>2. [Call("fire") EXCEPT !.due = Due] \in CallType
    BY <2>1, StepLists DEF Call, CallType
  <2>3. CallTo(step) = [Call("fire") EXCEPT !.due = Due]
    BY <1>3 DEF CallTo
  <2>4. CallOK(CallTo(step)) /\ CallTo(step).at = "fire"
    BY <2>3 DEF Call, CallOK
  <2> QED BY <1>3, <2>2, <2>3, <2>4
<1> QED BY <1>1, <1>2, <1>3

(* What is called or given back to the script keeps the stack in order.    *)

LEMMA BackOK ==
    ASSUME NEW s, StackOK(s), BackFromBuiltin(s)
    PROVE  StackOK(stack') /\ Called(stack') = Called(s) /\ (stack' = <<>> <=> s = <<>>)
<1>1. CASE stack' = s
  BY <1>1
<1>2. CASE s # <<>> /\ stack' = [s EXCEPT ![Len(s)].over = TRUE]
  BY <1>2, MarkedOK
<1> QED BY <1>1, <1>2 DEF BackFromBuiltin

Pushes(c) == /\ stack' = Append(stack, c) /\ c \in CallType /\ CallOK(c) /\ ~Calls(c)
             /\ MayLieOn(stack, c)

LEMMA PushesOK ==
    ASSUME StackOK(stack), NEW c, Pushes(c)
    PROVE  StackOK(stack') /\ Called(stack') = Called(stack)
<1>1. CalledBy(c) = {}
  BY DEF Pushes, CalledBy
<1> QED BY <1>1, PushedOK DEF Pushes

LEMMA PopsOK ==
    ASSUME StackOK(stack), stack # <<>>, ~Calls(Top)
    PROVE  StackOK(Returned) /\ Called(Returned) = Called(stack)
<1>1. CalledBy(Top) = {}
  BY DEF CalledBy
<1> QED BY <1>1, PoppedOK DEF Returned, Top

LEMMA TurnsOK ==
    ASSUME StackOK(stack), stack # <<>>, ~Calls(Top), NEW c \in CallType, CallOK(c), ~Calls(c),
           Turns(Top, c)
    PROVE  StackOK(Replaced(c)) /\ Called(Replaced(c)) = Called(stack)
<1>1. CalledBy(Top) = {} /\ CalledBy(c) = {}
  BY DEF CalledBy
<1> QED BY <1>1, PoppedOK, ReplacedOK DEF Replaced, Top

LEMMA TopCall ==
    ASSUME StackOK(stack), NEW at, Within(at)
    PROVE  /\ stack # <<>> /\ Top \in CallType /\ CallOK(Top) /\ Top.at = at
           /\ Len(stack) >= 1 /\ stack[Len(stack)] = Top
<1>1. stack # <<>> /\ Top.at = at
  BY DEF Within, Top
<1>2. Top \in CallType /\ CallOK(Top)
  BY <1>1, PoppedOK DEF Top
<1>3. Len(stack) >= 1 /\ stack[Len(stack)] = Top
  BY <1>1, Lengths, Popping DEF Top, StackOK
<1> QED BY <1>1, <1>2, <1>3

(* The script is the main program or a callback at the top of the stack. *)
LEMMA ScriptOnTop ==
    ASSUME StackOK(stack), InScript
    PROVE  Len(stack) = 0 \/ RunsScript(stack[Len(stack)])
<1>1. CASE stack = <<>>
  BY <1>1
<1>2. CASE Within("callback")
  BY <1>2, TopCall DEF RunsScript
<1>3. CASE Within("tick")
  BY <1>3, TopCall DEF RunsScript
<1> QED BY <1>1, <1>2, <1>3 DEF InScript

-----------------------------------------------------------------------------
(* The stack, action by action.  All but two leave the callbacks under way *)
(* as they are.                                                            *)

StackKept == StackOK(stack') /\ Called(stack') = Called(stack)

LEMMA ScriptStack == ASSUME TypeOK, StackOK(stack), Script PROVE StackKept
<1> USE DEF StackKept
<1>1. CASE \E o \in Op : SetTimeout(o) \/ StartIO(o)
  BY <1>1, BackOK DEF SetTimeout, StartIO
<1>2. CASE \E i \in Interval : SetInterval(i) \/ ClearInterval(i)
  BY <1>2, BackOK DEF SetInterval, ClearInterval
<1>3. CASE \E o \in IO : ForgetHandle(o)
  BY <1>3 DEF ForgetHandle
<1>4. ASSUME NEW o \in IO, Await(o) PROVE StackKept
  <2>1. Pushes([Call("await") EXCEPT !.op = o])
    <3> DEFINE c == [Call("await") EXCEPT !.op = o]
    <3>1. stack' = Append(stack, c)
      BY <1>4 DEF Await, Entered
    <3>2. c \in CallType /\ c.at = "await" /\ CallOK(c)
      BY AwaitCall
    <3> HIDE DEF c
    <3>3. ~Calls(c) /\ MayLieOn(stack, c)
      BY <3>2 DEF Calls, MayLieOn
    <3> QED BY <3>1, <3>2, <3>3 DEF Pushes, c
  <2> QED BY <2>1, PushesOK
<1>5. CASE ReadReady
  <2>1. stack' = Append(stack, Call("process"))
    BY <1>5 DEF ReadReady, Entered
  <2>2. Call("process") \in CallType /\ Call("process").at = "process" /\ CallOK(Call("process"))
    BY NewCall
  <2>3. ~Calls(Call("process")) /\ MayLieOn(stack, Call("process"))
    BY <2>2 DEF Calls, MayLieOn
  <2>4. Pushes(Call("process"))
    BY <2>1, <2>2, <2>3 DEF Pushes
  <2> QED BY <2>4, PushesOK
<1>6. CASE Yield
  <2> DEFINE c == [Call("steps") EXCEPT !.steps = YieldSteps]
  <2>1. stack' = Append(stack, c)
    BY <1>6 DEF Yield, Entered
  <2>2. c \in CallType /\ c.at = "steps" /\ CallOK(c)
    BY StepsCall, StepLists
  <2>3. Len(stack) = 0 \/ RunsScript(stack[Len(stack)])
    BY <1>6, ScriptOnTop DEF Yield
  <2> HIDE DEF c
  <2>4. ~Calls(c) /\ MayLieOn(stack, c)
    BY <2>2, <2>3 DEF Calls, MayLieOn
  <2>5. Pushes(c)
    BY <2>1, <2>2, <2>4 DEF Pushes
  <2> QED BY <2>5, PushesOK
<1>7. CASE Safepoint
  BY <1>7 DEF Safepoint
<1>8. CASE Panic
  <2>1. CASE stack = <<>>
    BY <1>8, <2>1 DEF Panic
  <2>2. CASE stack # <<>>
    <3> DEFINE c == [Top EXCEPT !.over = TRUE]
    <3>1. stack' = Append(Front(stack), c)
      BY <1>8, <2>2 DEF Panic, Replaced
    <3>2. /\ Top \in CallType /\ CallOK(Top) /\ StackOK(Front(stack))
          /\ Called(stack) = Called(Front(stack)) \cup CalledBy(Top)
      BY <2>2, PoppedOK DEF Top
    <3>3. /\ c \in CallType /\ c.at = Top.at /\ c.op = Top.op /\ c.steps = Top.steps
          /\ c.id = Top.id
      BY <3>2 DEF CallType
    <3> HIDE DEF c
    <3>4. Turns(Top, c) /\ CallOK(c) /\ CalledBy(c) = CalledBy(Top)
      BY <3>2, <3>3 DEF Turns, CallOK, CalledBy, Calls
    <3>5. StackOK(Append(Front(stack), c)) /\ Called(Append(Front(stack), c)) = Called(Front(stack)) \cup CalledBy(c)
      BY <2>2, <3>3, <3>4, ReplacedOK DEF Top
    <3> QED BY <3>1, <3>2, <3>4, <3>5
  <2> QED BY <2>1, <2>2
<1> QED BY <1>1, <1>2, <1>3, <1>4, <1>5, <1>6, <1>7, <1>8 DEF Script

(* A native call returns to what it was called from. *)
LEMMA PoppedStack ==
    ASSUME StackOK(stack), NEW at \in {"process", "fire", "tick", "await", "join", "steps"},
           Within(at)
    PROVE  StackOK(Returned) /\ Called(Returned) = Called(stack)
<1>1. stack # <<>> /\ ~Calls(Top)
  BY TopCall DEF Calls
<1> QED BY <1>1, PopsOK

LEMMA TickOrSkipStack == ASSUME TypeOK, StackOK(stack), TickOrSkip PROVE StackKept
<1>1. /\ stack # <<>> /\ Top \in CallType /\ CallOK(Top) /\ Top.at = "fire"
  BY TopCall DEF TickOrSkip
<1>2. PICK i \in Top.due : stack' = Replaced(IF StillActive(i)
               THEN [Top EXCEPT !.at = "tick", !.id = i, !.due = @ \ {i}]
               ELSE [Top EXCEPT !.due = @ \ {i}])
  BY DEF TickOrSkip
<1>3. i \in Interval /\ Top.due \ {i} \subseteq Interval
  BY <1>1, <1>2 DEF CallType
<1>4. PICK c : /\ c = [Top EXCEPT !.at = "tick", !.id = i, !.due = @ \ {i}]
                  \/ c = [Top EXCEPT !.due = @ \ {i}]
               /\ stack' = Replaced(c)
  BY <1>2
<1>5. /\ c \in CallType /\ c.op = Top.op
      /\ \/ c.at = "tick" /\ c.id = i
         \/ c.at = "fire" /\ c.id = Top.id
  BY <1>1, <1>3, <1>4 DEF CallType
<1>6. CallOK(c) /\ ~Calls(c) /\ ~Calls(Top) /\ Turns(Top, c)
  BY <1>1, <1>3, <1>5 DEF CallOK, Calls, Turns
<1> QED BY <1>1, <1>4, <1>5, <1>6, TurnsOK DEF StackKept

LEMMA EndTickStack == ASSUME TypeOK, StackOK(stack), EndTick PROVE StackKept
<1> DEFINE c == [Top EXCEPT !.at = "fire", !.id = NoInterval, !.over = FALSE]
<1>1. /\ stack # <<>> /\ Top \in CallType /\ CallOK(Top) /\ Top.at = "tick"
  BY TopCall DEF EndTick
<1>2. CASE stack' = Returned
  BY <1>2, PoppedStack DEF EndTick, StackKept
<1>3. CASE stack' = Replaced(c)
  <2>1. c \in CallType /\ c.at = "fire" /\ c.op = Top.op /\ c.id = NoInterval
    BY <1>1 DEF CallType
  <2> HIDE DEF c
  <2>2. CallOK(c) /\ ~Calls(c) /\ ~Calls(Top) /\ Turns(Top, c)
    BY <1>1, <2>1 DEF CallOK, Calls, Turns
  <2> QED BY <1>1, <1>3, <2>1, <2>2, TurnsOK DEF StackKept
<1> QED BY <1>2, <1>3 DEF EndTick

LEMMA NextStepStack == ASSUME TypeOK, StackOK(stack), NextStep PROVE StackKept
<1> DEFINE step == Head(Top.steps)
           b == [Top EXCEPT !.steps = Tail(@)]
           rest == Replaced(b)
           c == CallTo(step)
<1>1. /\ stack # <<>> /\ Top \in CallType /\ CallOK(Top) /\ Top.at = "steps" /\ Top.steps # <<>>
  BY TopCall DEF NextStep
<1>2. stack' = rest \/ (stack' = Append(rest, c))
  BY DEF NextStep
<1>3. Top.steps \in Seq({"stop", "process", "fire"})
  BY <1>1 DEF CallType
<1>4. /\ step \in {"stop", "process", "fire"} /\ step \in ToSet(Top.steps)
      /\ Tail(Top.steps) \in Seq({"stop", "process", "fire"})
      /\ ToSet(Tail(Top.steps)) \subseteq ToSet(Top.steps)
  <2> DEFINE l == Top.steps
  <2> HIDE DEF l
  <2>0. l \in Seq({"stop", "process", "fire"}) /\ l # <<>>
    BY <1>1, <1>3 DEF l
  <2>1. /\ Head(l) \in {"stop", "process", "fire"} /\ Tail(l) \in Seq({"stop", "process", "fire"})
        /\ Len(Tail(l)) = Len(l) - 1
        /\ \A i \in 1..Len(Tail(l)) : Tail(l)[i] = l[i + 1]
    BY <2>0, HeadTailProperties
  <2>2. Len(l) \in Nat /\ Len(l) >= 1 /\ DOMAIN l = 1..Len(l)
    BY <2>0, LenProperties, EmptySeq
  <2>3. DOMAIN Tail(l) = 1..Len(l) - 1
    BY <2>1, LenProperties
  <2>4. Head(l) = l[1] /\ 1 \in DOMAIN l
    BY <2>2
  <2>5. ASSUME NEW i \in DOMAIN Tail(l) PROVE Tail(l)[i] \in ToSet(l)
    <3>1. i + 1 \in DOMAIN l
      BY <2>2, <2>3
    <3> QED BY <2>1, <2>3, <3>1 DEF ToSet
  <2>6. Head(l) \in ToSet(l) /\ ToSet(Tail(l)) \subseteq ToSet(l)
    BY <2>4, <2>5 DEF ToSet
  <2> QED BY <2>1, <2>6 DEF l
<1>5. /\ b \in CallType /\ b.at = "steps" /\ b.op = Top.op /\ b.id = Top.id
      /\ b.steps = Tail(Top.steps)
  BY <1>1, <1>4 DEF CallType
<1> HIDE DEF b
<1>6. CallOK(b) /\ ~Calls(b) /\ ~Calls(Top) /\ Turns(Top, b)
  BY <1>1, <1>4, <1>5 DEF CallOK, Calls, Turns
<1>7. StackOK(rest) /\ Called(rest) = Called(stack)
  BY <1>1, <1>5, <1>6, TurnsOK
<1>8. /\ stack \in Seq(CallType) /\ Len(rest) = Len(stack) /\ Len(stack) >= 1 /\ Len(stack) \in Nat
      /\ \A n \in 1..Len(stack) - 1 : rest[n] = stack[n]
      /\ rest[Len(stack)] = b
  BY <1>1, <1>5, Replacing, Lengths DEF StackOK, Replaced
<1>9. /\ Len(stack) = 1 \/ RunsScript(stack[Len(stack) - 1])
         \/ "fire" \notin ToSet(Top.steps)
  <2>1. MayLieOn(Front(stack), Top)
    BY <1>1, PoppedOK DEF Top
  <2>2. /\ Len(Front(stack)) = Len(stack) - 1
        /\ \A n \in 1..Len(stack) - 1 : Front(stack)[n] = stack[n]
    BY <1>1, <1>8, Popping
  <2> HIDE DEF Front
  <2>3. Len(stack) # 1 => Front(stack)[Len(stack) - 1] = stack[Len(stack) - 1]
    BY <1>8, <2>2
  <2>4. Len(stack) - 1 = 0 <=> Len(stack) = 1
    BY <1>8
  <2> QED BY <1>1, <2>1, <2>2, <2>3, <2>4 DEF MayLieOn
<1>10. CASE stack' = rest
  BY <1>7, <1>10 DEF StackKept
<1>11. CASE stack' = Append(rest, c)
  <2>1. c \in CallType /\ CallOK(c) /\ c.at = IF step = "stop" THEN "join" ELSE step
    BY <1>4, StepCall
  <2>2. c.at \notin {"callback", "tick", "steps"} /\ (c.at = "fire" => step = "fire")
    BY <1>4, <2>1
  <2>3. c.at = "fire" => Len(rest) = 1 \/ RunsScript(rest[Len(rest) - 1])
    <3>1. ASSUME c.at = "fire", Len(stack) # 1 PROVE RunsScript(rest[Len(stack) - 1])
      <4>1. RunsScript(stack[Len(stack) - 1])
        BY <1>4, <1>9, <2>2, <3>1
      <4>2. rest[Len(stack) - 1] = stack[Len(stack) - 1]
        BY <1>8, <3>1
      <4> QED BY <4>1, <4>2
    <3> QED BY <1>8, <3>1
  <2> HIDE DEF c, rest, step
  <2>4. rest[Len(rest)].at = "steps"
    BY <1>5, <1>8
  <2>5. MayLieOn(rest, c) /\ CalledBy(c) = {}
    BY <1>8, <2>2, <2>3, <2>4 DEF MayLieOn, CalledBy, Calls
  <2>6. StackOK(Append(rest, c)) /\ Called(Append(rest, c)) = Called(rest) \cup CalledBy(c)
    BY <1>7, <2>1, <2>5, PushedOK
  <2> QED BY <1>7, <1>11, <2>5, <2>6 DEF StackKept
<1> QED BY <1>2, <1>10, <1>11

LEMMA NativeStack ==
    ASSUME TypeOK, StackOK(stack), Native, ~TakeCompleted
    PROVE  StackKept
<1>1. CASE ProcessReturns
  BY <1>1, PoppedStack DEF ProcessReturns, StackKept
<1>2. CASE TickOrSkip
  BY <1>2, TickOrSkipStack
<1>3. CASE FireReturns
  BY <1>3, PoppedStack DEF FireReturns, StackKept
<1>4. CASE NextStep
  BY <1>4, NextStepStack
<1>5. CASE StepsReturn
  <2>1. StackOK(Returned) /\ Called(Returned) = Called(stack)
    BY <1>5, PoppedStack DEF StepsReturn
  <2>2. stack' = Returned \/ BackFromBuiltin(Returned)
    BY <1>5 DEF StepsReturn
  <2> QED BY <2>1, <2>2, BackOK DEF StackKept
<1>6. CASE PoolJoined
  BY <1>6, PoppedStack DEF PoolJoined, StackKept
<1>7. CASE AwaitAgain
  <2> DEFINE c == [Call("steps") EXCEPT !.steps = AwaitTurn]
  <2>1. stack' = Append(stack, c)
    BY <1>7 DEF AwaitAgain, Entered
  <2>2. c \in CallType /\ c.at = "steps" /\ CallOK(c) /\ c.steps = AwaitTurn
    BY StepsCall, StepLists
  <2>3. stack[Len(stack)].at = "await"
    BY <1>7, TopCall DEF AwaitAgain
  <2> HIDE DEF c
  <2>4. ~Calls(c) /\ MayLieOn(stack, c)
    BY <2>2, <2>3, StepLists DEF Calls, MayLieOn
  <2>5. Pushes(c)
    BY <2>1, <2>2, <2>4 DEF Pushes
  <2> QED BY <2>5, PushesOK DEF StackKept
<1>8. CASE AwaitReturns
  BY <1>8, PoppedStack DEF AwaitReturns, StackKept
<1>9. CASE LoopTurn
  <2> DEFINE c == [Call("steps") EXCEPT !.steps = LoopSteps]
  <2>1. stack' = Append(stack, c)
    BY <1>9 DEF LoopTurn, Entered
  <2>2. c \in CallType /\ c.at = "steps" /\ CallOK(c)
    BY StepsCall, StepLists
  <2>3. Len(stack) = 0
    BY <1>9 DEF LoopTurn
  <2> HIDE DEF c
  <2>4. ~Calls(c) /\ MayLieOn(stack, c)
    BY <2>2, <2>3 DEF Calls, MayLieOn
  <2>5. Pushes(c)
    BY <2>1, <2>2, <2>4 DEF Pushes
  <2> QED BY <2>5, PushesOK DEF StackKept
<1>10. CASE LoopEnds
  BY <1>10 DEF LoopEnds, StackKept
<1> QED BY <1>1, <1>2, <1>3, <1>4, <1>5, <1>6, <1>7, <1>8, <1>9, <1>10 DEF Native

(* The callback of a timeout begins: it is under way now. *)
LEMMA TakeStack ==
    ASSUME StackOK(stack), TakeCompleted, completions[delivered + 1] \in Op,
           completions[delivered + 1] \notin Called(stack)
    PROVE  /\ StackOK(stack')
           /\ Called(stack') = Called(stack)
                  \cup ({completions[delivered + 1]} \cap Timer)
<1> DEFINE o == completions[delivered + 1]
<1>1. stack # <<>> /\ Top \in CallType /\ CallOK(Top) /\ Top.at = "process"
  BY TopCall DEF TakeCompleted
<1>2. Called(stack) = Called(Front(stack))
  BY <1>1, PoppedOK DEF CalledBy, Calls, Top
<1>3. CASE o \in Timer
  <2> DEFINE c == [Top EXCEPT !.at = "callback", !.op = o]
  <2>1. stack' = Append(Front(stack), c)
    BY <1>3 DEF TakeCompleted, TakenTimer, Replaced
  <2>2. c \in CallType /\ c.at = "callback" /\ c.op = o /\ c.id = Top.id
    BY <1>1, <1>3 DEF CallType, Op
  <2> HIDE DEF c
  <2>3. CallOK(c) /\ Calls(c)
    BY <1>1, <1>3, <2>2 DEF CallOK, Calls
  <2>4. StackOK(Append(Front(stack), c)) /\ Called(Append(Front(stack), c)) = Called(Front(stack)) \cup CalledBy(c)
    BY <1>1, <2>2, <2>3, ReplacedOK DEF Top
  <2> QED BY <1>2, <1>3, <2>1, <2>2, <2>3, <2>4 DEF CalledBy
<1>4. CASE o \notin Timer
  <2> DEFINE c == [Top EXCEPT !.did = TRUE]
  <2>1. stack' = Replaced(c)
    BY <1>4 DEF TakeCompleted, TakenIO
  <2>2. c \in CallType /\ c.at = "process" /\ c.op = Top.op /\ c.id = Top.id
    BY <1>1 DEF CallType
  <2> HIDE DEF c
  <2>3. CallOK(c) /\ ~Calls(c) /\ ~Calls(Top) /\ Turns(Top, c)
    BY <1>1, <2>2 DEF CallOK, Calls, Turns
  <2> QED BY <1>1, <1>4, <2>1, <2>2, <2>3, TurnsOK
<1> QED BY <1>3, <1>4

(* It ends: it was under way once. *)
LEMMA EndCallbackStack ==
    ASSUME StackOK(stack), EndCallback
    PROVE  /\ StackOK(stack') /\ Top.op \in Called(stack)
           /\ Called(stack') = Called(stack) \ {Top.op}
<1> DEFINE c == [Top EXCEPT !.at = "process", !.op = NoOp, !.did = TRUE, !.over = FALSE]
<1>1. stack # <<>> /\ Top \in CallType /\ CallOK(Top) /\ Top.at = "callback"
  BY TopCall DEF EndCallback
<1>2. /\ Called(stack) = Called(Front(stack)) \cup {Top.op}
      /\ Top.op \notin Called(Front(stack))
  BY <1>1, PoppedOK DEF CalledBy, Calls, Top, MayLieOn
<1>3. stack' = Append(Front(stack), c)
  BY DEF EndCallback, Replaced
<1>4. c \in CallType /\ c.at = "process" /\ c.op = NoOp /\ c.id = Top.id
  BY <1>1 DEF CallType
<1> HIDE DEF c
<1>5. CallOK(c) /\ ~Calls(c) /\ Turns(Top, c)
  BY <1>1, <1>4 DEF CallOK, Calls, Turns
<1>6. StackOK(Append(Front(stack), c)) /\ Called(Append(Front(stack), c)) = Called(Front(stack)) \cup CalledBy(c)
  BY <1>1, <1>4, <1>5, ReplacedOK DEF Top
<1> QED BY <1>2, <1>3, <1>5, <1>6 DEF CalledBy

-----------------------------------------------------------------------------
(* The pool and the count of pending timeouts.                             *)

LEMMA DeliveredSubmitted ==
    ASSUME TypeOK, PoolOK
    PROVE  /\ completions \in Seq(Op) /\ Len(completions) \in Nat /\ DOMAIN completions = 1..Len(completions)
           /\ delivered \in 0..Len(completions)
           /\ Delivered \subseteq Completed /\ Delivered \subseteq submitted /\ submitted \subseteq Op
<1>1. /\ completions \in Seq(Op) /\ Len(completions) \in Nat /\ DOMAIN completions = 1..Len(completions)
      /\ delivered \in 0..Len(completions) /\ submitted \subseteq Op
  BY LenProperties DEF TypeOK
<1>2. 1..delivered \subseteq 1..Len(completions)
  BY <1>1
<1>3. Delivered \subseteq Completed
  BY <1>1, <1>2 DEF Delivered, Completed, ToSet
<1> QED BY <1>1, <1>3 DEF PoolOK

LEMMA OwedFinite ==
    /\ IsFiniteSet(Owed) /\ Cardinality(Owed) \in Nat
    /\ Cardinality(Owed) = 0 <=> Owed = {}
<1>1. Owed \subseteq Timer
  BY DEF Owed
<1>2. IsFiniteSet(Owed)
  BY <1>1, LoopAssumption, FS_Subset
<1> QED BY <1>2, FS_CardinalityType, FS_EmptySet

LEMMA SubmitStep ==
    ASSUME TypeOK, PoolOK, NEW o \in Op, Pool!Submit(o)
    PROVE  /\ PoolOK' /\ Delivered' = Delivered
           /\ submitted' = submitted \cup {o} /\ o \notin submitted
           /\ completions' = completions /\ delivered' = delivered
BY DEF Pool!Submit, PoolOK, Delivered, Completed

LEMMA CompleteStep ==
    ASSUME TypeOK, PoolOK, NEW o \in Op, Pool!Complete(o)
    PROVE  /\ PoolOK' /\ Delivered' = Delivered /\ submitted' = submitted
           /\ completions' \in Seq(Op) /\ delivered' \in 0..Len(completions')
<1>1. /\ o \in submitted \ Completed
      /\ completions' = Append(completions, o)
      /\ submitted' = submitted /\ delivered' = delivered
  <2>1. o \in submitted \ ToSet(completions)
    BY DEF Pool!Complete, Pool!ToSet, ToSet
  <2>2. completions' = Append(completions, o) /\ UNCHANGED <<submitted, delivered>>
    BY DEF Pool!Complete
  <2> QED BY <2>1, <2>2 DEF Completed
<1>2. /\ completions \in Seq(Op) /\ Len(completions) \in Nat /\ DOMAIN completions = 1..Len(completions)
      /\ delivered \in 0..Len(completions)
  BY DeliveredSubmitted
<1>3. /\ completions' \in Seq(Op) /\ Len(completions') = Len(completions) + 1
      /\ \A i \in 1..Len(completions) : completions'[i] = completions[i]
      /\ completions'[Len(completions) + 1] = o
  BY <1>1, <1>2, AppendProperties
<1>4. DOMAIN completions' = 1..Len(completions) + 1
  BY <1>3, LenProperties
<1>5. \A i \in 1..Len(completions) + 1 : i \in 1..Len(completions) \/ i = Len(completions) + 1
  BY <1>2
<1>6. \A i \in 1..Len(completions) : completions[i] \in Completed
  BY <1>2 DEF Completed, ToSet
<1>7. \A m, n \in 1..Len(completions') : completions'[m] = completions'[n] => m = n
  BY <1>1, <1>3, <1>5, <1>6 DEF PoolOK
<1>8. Completed' \subseteq submitted'
  <2>1. ASSUME NEW i \in DOMAIN completions' PROVE completions'[i] \in submitted
    BY <1>1, <1>3, <1>4, <1>5, <1>6 DEF PoolOK
  <2> QED BY <1>1, <2>1 DEF Completed, ToSet
<1>9. Delivered' = Delivered
  <2>1. \A n \in 1..delivered : n \in 1..Len(completions)
    BY <1>2
  <2> QED BY <1>1, <1>3, <2>1 DEF Delivered
<1>10. delivered' \in 0..Len(completions')
  BY <1>1, <1>2, <1>3
<1> QED BY <1>1, <1>3, <1>7, <1>8, <1>9, <1>10 DEF PoolOK

LEMMA DeliverStep ==
    ASSUME TypeOK, PoolOK, Pool!Deliver
    PROVE  /\ PoolOK' /\ submitted' = submitted /\ completions' = completions
           /\ completions[delivered + 1] \in submitted \ Delivered
           /\ Delivered' = Delivered \cup {completions[delivered + 1]}
           /\ delivered' \in 0..Len(completions)
<1>1. /\ delivered < Len(completions) /\ delivered' = delivered + 1
      /\ submitted' = submitted /\ completions' = completions
  BY DEF Pool!Deliver
<1>2. /\ completions \in Seq(Op) /\ Len(completions) \in Nat /\ DOMAIN completions = 1..Len(completions)
      /\ delivered \in 0..Len(completions)
  BY DeliveredSubmitted
<1>3. /\ delivered + 1 \in 1..Len(completions) /\ delivered \in Nat
      /\ \A n \in 1..delivered : n \in 1..Len(completions) /\ n # delivered + 1
      /\ \A n \in 1..delivered + 1 : n \in 1..delivered \/ n = delivered + 1
      /\ \A n \in 1..delivered : n \in 1..delivered + 1
      /\ delivered + 1 \in 1..delivered + 1
  BY <1>1, <1>2
<1>4. completions[delivered + 1] \in submitted
  BY <1>2, <1>3 DEF PoolOK, Completed, ToSet
<1>5. completions[delivered + 1] \notin Delivered
  BY <1>3 DEF PoolOK, Delivered
<1>6. Delivered' = Delivered \cup {completions[delivered + 1]}
  BY <1>1, <1>3 DEF Delivered
<1>7. PoolOK'
  BY <1>1 DEF PoolOK, Completed
<1>8. delivered' \in 0..Len(completions)
  BY <1>1, <1>2
<1> QED BY <1>1, <1>4, <1>5, <1>6, <1>7, <1>8

-----------------------------------------------------------------------------
(* Pool, count, stack and roots, action by action.                         *)

Books == /\ PoolOK /\ TimeoutsCounted
         /\ StackOK(stack) /\ Called(stack) \subseteq Delivered /\ Rooted

CountsAndRoots == <<pending_timeouts, async_roots>>

LEMMA QuietBooks ==
    ASSUME TypeOK, Books, UNCHANGED poolVars, UNCHANGED timerVars, StackKept
    PROVE  Books'
<1>1. Delivered' = Delivered /\ PoolOK' /\ submitted' = submitted
  BY DEF poolVars, Delivered, Books, PoolOK, Completed
<1>2. pending_timeouts' = pending_timeouts /\ async_roots' = async_roots
  BY DEF timerVars
<1> QED BY <1>1, <1>2 DEF Books, StackKept, TimeoutsCounted, Rooted

LEMMA SetTimeoutBooks ==
    ASSUME TypeOK, Books, NEW o \in Op, SetTimeout(o)
    PROVE  Books' /\ pending_timeouts' \in Nat
<1>1. /\ o \in Timer /\ Pool!Submit(o)
      /\ async_roots' = async_roots \cup {o} /\ pending_timeouts' = pending_timeouts + 1
  BY DEF SetTimeout, Handed
<1>2. /\ PoolOK' /\ Delivered' = Delivered /\ submitted' = submitted \cup {o} /\ o \notin submitted
  BY <1>1, SubmitStep DEF Books
<1>3. StackOK(stack') /\ Called(stack') = Called(stack)
  BY BackOK DEF SetTimeout, Books
<1>4. o \notin Delivered
  BY <1>2, DeliveredSubmitted DEF Books
<1>5. Owed' = Owed \cup {o} /\ o \notin Owed
  BY <1>1, <1>2, <1>4 DEF Owed
<1>6. Cardinality(Owed \cup {o}) = Cardinality(Owed) + 1
  BY <1>5, OwedFinite, FS_AddElement
<1>7. TimeoutsCounted'
  BY <1>1, <1>5, <1>6 DEF Books, TimeoutsCounted, Owed
<1>8. Rooted'
  <2>1. o \notin Called(stack)
    BY <1>4 DEF Books
  <2> QED BY <1>1, <1>2, <1>3, <1>4 DEF Books, Rooted
<1> QED BY <1>1, <1>2, <1>3, <1>7, <1>8 DEF Books, TypeOK

LEMMA StartIOBooks ==
    ASSUME TypeOK, Books, NEW o \in Op, StartIO(o)
    PROVE  Books'
<1>1. o \in IO /\ Pool!Submit(o) /\ async_roots' = async_roots /\ pending_timeouts' = pending_timeouts
  BY DEF StartIO, Handed, timerVars
<1>2. /\ PoolOK' /\ Delivered' = Delivered /\ submitted' = submitted \cup {o} /\ o \notin submitted
  BY <1>1, SubmitStep DEF Books
<1>3. StackOK(stack') /\ Called(stack') = Called(stack)
  BY BackOK DEF StartIO, Books
<1>4. submitted' \cap Timer = submitted \cap Timer
  BY <1>1, <1>2, LoopAssumption
<1> QED BY <1>1, <1>2, <1>3, <1>4 DEF Books, TimeoutsCounted, Rooted

LEMMA CompletesBooks ==
    ASSUME TypeOK, Books, NEW o \in Op, PoolCompletes(o)
    PROVE  Books'
<1>1. Pool!Complete(o) /\ stack' = stack /\ async_roots' = async_roots /\ pending_timeouts' = pending_timeouts
  BY DEF PoolCompletes, timerVars
<1>2. PoolOK' /\ Delivered' = Delivered /\ submitted' = submitted
  BY <1>1, CompleteStep DEF Books
<1> QED BY <1>1, <1>2 DEF Books, TimeoutsCounted, Rooted

LEMMA TakeBooks ==
    ASSUME TypeOK, Books, TakeCompleted
    PROVE  Books' /\ pending_timeouts' \in Nat
<1> DEFINE o == completions[delivered + 1]
<1>1. Pool!Deliver /\ async_roots' = async_roots
  BY DEF TakeCompleted
<1>2. /\ PoolOK' /\ submitted' = submitted /\ o \in submitted \ Delivered
      /\ Delivered' = Delivered \cup {o} /\ o \in Op
  BY <1>1, DeliverStep DEF Books, TypeOK
<1>3. o \notin Called(stack)
  BY <1>2 DEF Books
<1>4. StackOK(stack') /\ Called(stack') = Called(stack) \cup ({o} \cap Timer)
  BY <1>2, <1>3, TakeStack DEF Books
<1>5. CASE o \in Timer
  <2>1. pending_timeouts' = pending_timeouts - 1
    BY <1>5 DEF TakeCompleted, TakenTimer
  <2>2. Owed' = Owed \ {o} /\ o \in Owed
    BY <1>2, <1>5 DEF Owed
  <2>3. Cardinality(Owed \ {o}) = Cardinality(Owed) - 1
    BY <2>2, OwedFinite, FS_RemoveElement
  <2>4. Cardinality(Owed) \in Nat /\ Cardinality(Owed) # 0
    BY <2>2, OwedFinite
  <2>5. pending_timeouts = Cardinality(Owed)
    BY DEF Books, TimeoutsCounted, Owed
  <2>6. pending_timeouts' = Cardinality(Owed')
    BY <2>1, <2>2, <2>3, <2>5
  <2>7. TimeoutsCounted'
    BY <2>6 DEF TimeoutsCounted, Owed
  <2>8. pending_timeouts' \in Nat
    BY <2>1, <2>4, <2>5
  <2>9. Rooted'
    BY <1>1, <1>2, <1>4, <1>5 DEF Books, Rooted
  <2> QED BY <1>2, <1>4, <2>7, <2>8, <2>9 DEF Books
<1>6. CASE o \notin Timer
  <2>1. pending_timeouts' = pending_timeouts
    BY <1>6 DEF TakeCompleted, TakenIO
  <2>2. (submitted' \cap Timer) \ Delivered' = (submitted \cap Timer) \ Delivered
    BY <1>2, <1>6
  <2>3. TimeoutsCounted'
    BY <2>1, <2>2 DEF Books, TimeoutsCounted
  <2>4. Called(stack') = Called(stack)
    BY <1>4, <1>6
  <2>5. Rooted'
    BY <1>1, <1>2, <1>6, <2>4 DEF Books, Rooted
  <2> QED BY <1>2, <1>4, <2>1, <2>3, <2>4, <2>5 DEF Books, TypeOK
<1> QED BY <1>5, <1>6

LEMMA EndCallbackBooks ==
    ASSUME TypeOK, Books, EndCallback
    PROVE  Books' /\ async_roots' \subseteq Timer
<1>1. /\ UNCHANGED poolVars /\ pending_timeouts' = pending_timeouts
      /\ async_roots' = async_roots \ {Top.op}
  BY DEF EndCallback, RootsCleared
<1>2. Delivered' = Delivered /\ PoolOK' /\ submitted' = submitted
  BY <1>1 DEF poolVars, Delivered, Books, PoolOK, Completed
<1>3. StackOK(stack') /\ Top.op \in Called(stack) /\ Called(stack') = Called(stack) \ {Top.op}
  BY EndCallbackStack DEF Books
<1> QED BY <1>1, <1>2, <1>3 DEF Books, TimeoutsCounted, Rooted, TypeOK

(* Every other step leaves the pool, the count and the roots alone. *)
LEMMA QuietActions ==
    ASSUME TypeOK, StackOK(stack), [Next]_vars,
           ~TakeCompleted, ~EndCallback,
           \A o \in Op : ~SetTimeout(o) /\ ~StartIO(o) /\ ~PoolCompletes(o)
    PROVE  UNCHANGED poolVars /\ UNCHANGED timerVars /\ StackKept
<1>1. CASE Script
  <2>1. UNCHANGED poolVars /\ UNCHANGED timerVars
    BY <1>1 DEF Script, SetInterval, ClearInterval, ForgetHandle, Await, ReadReady, Yield,
                Safepoint, Panic
  <2> QED BY <1>1, <2>1, ScriptStack
<1>2. CASE Native
  <2>1. UNCHANGED poolVars /\ UNCHANGED timerVars
    BY <1>2 DEF Native, ProcessReturns, TickOrSkip, FireReturns, NextStep, StepsReturn, PoolJoined,
                AwaitAgain, AwaitReturns, LoopTurn, LoopEnds
  <2> QED BY <1>2, <2>1, NativeStack
<1>3. CASE EndTick
  <2>1. UNCHANGED poolVars /\ UNCHANGED timerVars
    BY <1>3 DEF EndTick
  <2> QED BY <1>3, <2>1, EndTickStack
<1>4. CASE ScriptEnds
  BY <1>4 DEF ScriptEnds, StackKept
<1>5. CASE \E i \in Interval : Deadline(i)
  BY <1>5 DEF Deadline, StackKept
<1>6. CASE Signal
  BY <1>6 DEF Signal, StackKept
<1>7. CASE UNCHANGED vars
  BY <1>7 DEF vars, StackKept
<1> QED BY <1>1, <1>2, <1>3, <1>4, <1>5, <1>6, <1>7 DEF Next, CallbackReturns, Outside

LEMMA BooksStep ==
    ASSUME TypeOK, Books, [Next]_vars
    PROVE  Books' /\ pending_timeouts' \in Nat /\ async_roots' \subseteq Timer
<1>1. Rooted' => async_roots' \subseteq Timer
  BY DEF Rooted
<1>2. UNCHANGED timerVars => pending_timeouts' \in Nat
  BY DEF timerVars, TypeOK
<1>3. ASSUME NEW o \in Op, StartIO(o)
      PROVE  Books' /\ pending_timeouts' \in Nat /\ async_roots' \subseteq Timer
  <2>1. UNCHANGED timerVars
    BY <1>3 DEF StartIO
  <2> QED BY <1>1, <1>2, <1>3, <2>1, StartIOBooks DEF Books
<1>4. ASSUME NEW o \in Op, PoolCompletes(o)
      PROVE  Books' /\ pending_timeouts' \in Nat /\ async_roots' \subseteq Timer
  <2>1. UNCHANGED timerVars
    BY <1>4 DEF PoolCompletes
  <2> QED BY <1>1, <1>2, <1>4, <2>1, CompletesBooks DEF Books
<1>5. ASSUME NEW o \in Op, SetTimeout(o)
      PROVE  Books' /\ pending_timeouts' \in Nat /\ async_roots' \subseteq Timer
  BY <1>1, <1>5, SetTimeoutBooks DEF Books
<1>6. CASE TakeCompleted
  BY <1>1, <1>6, TakeBooks DEF Books
<1>7. CASE EndCallback
  <2>1. pending_timeouts' \in Nat
    BY <1>7 DEF EndCallback, TypeOK
  <2> QED BY <1>7, <2>1, EndCallbackBooks
<1>8. CASE ~TakeCompleted /\ ~EndCallback
           /\ \A o \in Op : ~SetTimeout(o) /\ ~StartIO(o) /\ ~PoolCompletes(o)
  <2>1. UNCHANGED poolVars /\ UNCHANGED timerVars /\ StackKept
    BY <1>8, QuietActions DEF Books
  <2> QED BY <1>1, <1>2, <2>1, QuietBooks DEF Books
<1> QED BY <1>3, <1>4, <1>5, <1>6, <1>7, <1>8

-----------------------------------------------------------------------------
(* Types.                                                                  *)

LEMMA HandleTypes ==
    ASSUME TypeOK, [Next]_vars
    PROVE  /\ handle' \in [IO -> {"none", "Running", "Completed", "freed"}]
           /\ known' \subseteq {o \in IO : handle'[o] \in {"Running", "Completed"}}
<1> DEFINE States == {"none", "Running", "Completed", "freed"}
           Goal == handle' \in [IO -> States]
                   /\ known' \subseteq {o \in IO : handle'[o] \in {"Running", "Completed"}}
<1>1. handle \in [IO -> States] /\ known \subseteq {o \in IO : handle[o] \in {"Running", "Completed"}}
  BY DEF TypeOK
<1>2. CASE handle' = handle /\ known' \subseteq known
  BY <1>1, <1>2
<1>3. ASSUME Collected, known' = known PROVE Goal
  <2>1. handle' = [o \in IO |-> IF handle[o] # "none" /\ o \notin known THEN "freed" ELSE handle[o]]
    BY <1>3 DEF Collected
  <2> QED BY <1>1, <1>3, <2>1
<1>4. ASSUME NEW o \in Op, StartIO(o) PROVE Goal
  <2>1. o \in IO /\ handle' = [handle EXCEPT ![o] = "Running"] /\ known' = known \cup {o}
    BY <1>4 DEF StartIO
  <2> QED BY <1>1, <2>1
<1>5. CASE TakeCompleted
  <2>1. known' = known
    BY <1>5 DEF TakeCompleted
  <2>2. \/ handle' = handle
        \/ \E o : handle' = [handle EXCEPT ![o] = IF @ = "Running" THEN "Completed" ELSE @]
    BY <1>5 DEF TakeCompleted, TakenTimer, TakenIO
  <2> QED BY <1>1, <2>1, <2>2
<1>6. CASE ProcessReturns
  <2>1. known' = known /\ (Collected \/ handle' = handle)
    BY <1>6 DEF ProcessReturns
  <2> QED BY <1>2, <1>3, <2>1
<1>7. CASE Safepoint
  <2>1. known' = known /\ Collected
    BY <1>7 DEF Safepoint
  <2> QED BY <1>3, <2>1
<1>8. CASE Script /\ ~Safepoint /\ \A o \in Op : ~StartIO(o)
  <2>1. handle' = handle /\ known' \subseteq known
    BY <1>8 DEF Script, SetTimeout, SetInterval, ClearInterval, ForgetHandle, Await, ReadReady,
                Yield, Panic, heapVars
  <2> QED BY <1>2, <2>1
<1>9. CASE Native /\ ~TakeCompleted /\ ~ProcessReturns
  <2>1. handle' = handle /\ known' = known
    BY <1>9 DEF Native, TickOrSkip, FireReturns, NextStep, StepsReturn, PoolJoined, AwaitAgain,
                AwaitReturns, LoopTurn, LoopEnds, heapVars
  <2> QED BY <1>2, <2>1
<1>10. CASE CallbackReturns \/ ScriptEnds \/ Outside \/ UNCHANGED vars
  <2>1. handle' = handle /\ known' = known
    BY <1>10 DEF CallbackReturns, EndCallback, EndTick, ScriptEnds, Outside, PoolCompletes, Deadline,
                 Signal, heapVars, vars
  <2> QED BY <1>2, <2>1
<1> QED BY <1>4, <1>5, <1>6, <1>7, <1>8, <1>9, <1>10 DEF Next, Native

LEMMA PoolTypes ==
    ASSUME TypeOK, PoolOK, [Next]_vars
    PROVE  /\ submitted' \subseteq Op /\ completions' \in Seq(Op)
           /\ delivered' \in 0..Len(completions') /\ late' \subseteq submitted'
<1>1. /\ submitted \subseteq Op /\ completions \in Seq(Op)
      /\ delivered \in 0..Len(completions) /\ late \subseteq submitted
  BY DEF TypeOK
<1>2. CASE submitted' = submitted /\ completions' = completions /\ delivered' = delivered /\ late' = late
  BY <1>1, <1>2
<1>3. ASSUME NEW o \in Op, SetTimeout(o) \/ StartIO(o)
      PROVE  /\ submitted' \subseteq Op /\ completions' \in Seq(Op)
             /\ delivered' \in 0..Len(completions') /\ late' \subseteq submitted'
  <2>1. Pool!Submit(o) /\ (late' = late \/ late' = late \cup {o})
    BY <1>3 DEF SetTimeout, StartIO, Handed
  <2> QED BY <1>1, <2>1, SubmitStep
<1>4. ASSUME NEW o \in Op, PoolCompletes(o)
      PROVE  /\ submitted' \subseteq Op /\ completions' \in Seq(Op)
             /\ delivered' \in 0..Len(completions') /\ late' \subseteq submitted'
  <2>1. Pool!Complete(o) /\ late' = late
    BY <1>4 DEF PoolCompletes, stopVars
  <2> QED BY <1>1, <2>1, CompleteStep
<1>5. CASE TakeCompleted
  <2>1. Pool!Deliver /\ late' = late
    BY <1>5 DEF TakeCompleted, stopVars
  <2> QED BY <1>1, <2>1, DeliverStep
<1>6. CASE Script /\ \A o \in Op : ~SetTimeout(o) /\ ~StartIO(o)
  <2>1. UNCHANGED poolVars /\ late' = late
    BY <1>6 DEF Script, SetInterval, ClearInterval, ForgetHandle, Await, ReadReady, Yield, Safepoint,
                Panic, stopVars
  <2> QED BY <1>2, <2>1 DEF poolVars
<1>7. CASE Native /\ ~TakeCompleted
  <2>1. UNCHANGED poolVars /\ late' = late
    BY <1>7 DEF Native, ProcessReturns, TickOrSkip, FireReturns, NextStep, StepsReturn, PoolJoined,
                AwaitAgain, AwaitReturns, LoopTurn, LoopEnds, stopVars
  <2> QED BY <1>2, <2>1 DEF poolVars
<1>8. CASE CallbackReturns \/ ScriptEnds \/ (\E i \in Interval : Deadline(i)) \/ Signal \/ UNCHANGED vars
  <2>1. UNCHANGED poolVars /\ late' = late
    BY <1>8 DEF CallbackReturns, EndCallback, EndTick, ScriptEnds, Deadline, Signal, stopVars, vars
  <2> QED BY <1>2, <2>1 DEF poolVars
<1> QED BY <1>3, <1>4, <1>5, <1>6, <1>7, <1>8 DEF Next, Outside

LEMMA IntervalTypes ==
    ASSUME TypeOK, [Next]_vars
    PROVE  active_intervals' \subseteq armed' /\ armed' \subseteq Interval /\ past' \subseteq Interval
<1>1. active_intervals \subseteq armed /\ armed \subseteq Interval /\ past \subseteq Interval
  BY DEF TypeOK
<1>2. CASE UNCHANGED intervalVars
  BY <1>1, <1>2 DEF intervalVars
<1>3. ASSUME NEW i \in Interval, SetInterval(i) \/ ClearInterval(i)
      PROVE  active_intervals' \subseteq armed' /\ armed' \subseteq Interval /\ past' \subseteq Interval
  BY <1>1, <1>3 DEF SetInterval, ClearInterval
<1>4. CASE Script /\ \A i \in Interval : ~SetInterval(i) /\ ~ClearInterval(i)
  <2>1. UNCHANGED intervalVars
    BY <1>4 DEF Script, SetTimeout, StartIO, ForgetHandle, Await, ReadReady, Yield, Safepoint, Panic
  <2> QED BY <1>2, <2>1
<1>5. CASE Native
  <2>1. UNCHANGED intervalVars
    BY <1>5 DEF Native, TakeCompleted, ProcessReturns, TickOrSkip, FireReturns, NextStep, StepsReturn,
                PoolJoined, AwaitAgain, AwaitReturns, LoopTurn, LoopEnds
  <2> QED BY <1>2, <2>1
<1>6. CASE EndTick
  BY <1>1, <1>6 DEF EndTick
<1>7. ASSUME NEW i \in Interval, Deadline(i)
      PROVE  active_intervals' \subseteq armed' /\ armed' \subseteq Interval /\ past' \subseteq Interval
  BY <1>1, <1>7 DEF Deadline
<1>8. CASE EndCallback \/ ScriptEnds \/ (\E o \in Op : PoolCompletes(o)) \/ Signal \/ UNCHANGED vars
  <2>1. UNCHANGED intervalVars
    BY <1>8 DEF EndCallback, ScriptEnds, PoolCompletes, Signal, vars
  <2> QED BY <1>2, <2>1
<1> QED BY <1>3, <1>4, <1>5, <1>6, <1>7, <1>8 DEF Next, CallbackReturns, Outside

LEMMA FlagTypes ==
    ASSUME TypeOK, [Next]_vars
    PROVE  stopped' \in BOOLEAN /\ has_error' \in BOOLEAN /\ g_shutdown_requested' \in BOOLEAN
<1>1. stopped \in BOOLEAN /\ has_error \in BOOLEAN /\ g_shutdown_requested \in BOOLEAN
  BY DEF TypeOK
<1>2. stopped' \in BOOLEAN
  <2>1. CASE NextStep
    <3>1. stopped' = stopped \/ (stopped' = (stopped \/ (g_shutdown_requested /\ ~stopped)))
      BY <2>1 DEF NextStep
    <3> QED BY <1>1, <3>1
  <2>2. CASE Script
    BY <1>1, <2>2 DEF Script, SetTimeout, StartIO, SetInterval, ClearInterval, ForgetHandle, Await,
                      ReadReady, Yield, Safepoint, Panic, stopVars
  <2>3. CASE Native /\ ~NextStep
    BY <1>1, <2>3 DEF Native, TakeCompleted, ProcessReturns, TickOrSkip, FireReturns, StepsReturn,
                      PoolJoined, AwaitAgain, AwaitReturns, LoopTurn, LoopEnds, stopVars
  <2>4. CASE CallbackReturns \/ ScriptEnds \/ Outside \/ UNCHANGED vars
    BY <1>1, <2>4 DEF CallbackReturns, EndCallback, EndTick, ScriptEnds, Outside, PoolCompletes,
                      Deadline, Signal, stopVars, vars
  <2> QED BY <2>1, <2>2, <2>3, <2>4 DEF Next
<1>3. (has_error' = has_error \/ has_error' = TRUE)
      /\ (g_shutdown_requested' = g_shutdown_requested \/ g_shutdown_requested' = TRUE)
  <2>1. CASE Script
    BY <2>1 DEF Script, SetTimeout, StartIO, SetInterval, ClearInterval, ForgetHandle, Await,
                ReadReady, Yield, Safepoint, Panic, endVars
  <2>2. CASE Native
    BY <2>2 DEF Native, TakeCompleted, ProcessReturns, TickOrSkip, FireReturns, NextStep, StepsReturn,
                PoolJoined, AwaitAgain, AwaitReturns, LoopTurn, LoopEnds, endVars
  <2>3. CASE CallbackReturns \/ ScriptEnds \/ Outside \/ UNCHANGED vars
    BY <2>3 DEF CallbackReturns, EndCallback, EndTick, ScriptEnds, Outside, PoolCompletes,
                Deadline, Signal, endVars, vars
  <2> QED BY <2>1, <2>2, <2>3 DEF Next
<1> QED BY <1>1, <1>2, <1>3

LEMMA ProgramType ==
    ASSUME TypeOK, [Next]_vars PROVE program' \in {"script", "loop", "ended"}
<1>1. program \in {"script", "loop", "ended"}
  BY DEF TypeOK
<1>2. CASE Script
  BY <1>1, <1>2 DEF Script, SetTimeout, StartIO, SetInterval, ClearInterval, ForgetHandle, Await,
                    ReadReady, Yield, Safepoint, Panic, BackFromBuiltin, endVars
<1>3. CASE Native
  BY <1>1, <1>3 DEF Native, TakeCompleted, ProcessReturns, TickOrSkip, FireReturns, NextStep,
                    StepsReturn, PoolJoined, AwaitAgain, AwaitReturns, LoopTurn, LoopEnds,
                    BackFromBuiltin, endVars
<1>4. CASE CallbackReturns \/ ScriptEnds \/ Outside \/ UNCHANGED vars
  BY <1>1, <1>4 DEF CallbackReturns, EndCallback, EndTick, ScriptEnds, Outside, PoolCompletes,
                    Deadline, Signal, endVars, vars
<1> QED BY <1>2, <1>3, <1>4 DEF Next

LEMMA TypeStep == ASSUME TypeOK, Books, [Next]_vars PROVE TypeOK'
<1>1. /\ pending_timeouts' \in Nat /\ async_roots' \subseteq Timer
      /\ StackOK(stack')
  BY BooksStep DEF Books
<1>2. stack' \in Seq(CallType)
  BY <1>1 DEF StackOK
<1> QED BY <1>1, <1>2, HandleTypes, PoolTypes, IntervalTypes, FlagTypes, ProgramType DEF TypeOK, Books

-----------------------------------------------------------------------------
(* The end of the program.                                                 *)

(* Once it has ended only the world outside moves on. *)
LEMMA EndedStays ==
    ASSUME EndOK, program = "ended", [Next]_vars
    PROVE  Outside \/ UNCHANGED vars
<1>1. \A at : ~Within(at)
  BY DEF EndOK, Within
<1>2. ~InScript
  BY <1>1 DEF InScript
<1>3. ~Script
  BY <1>2 DEF Script, SetTimeout, StartIO, SetInterval, ClearInterval, ForgetHandle, Await, ReadReady,
              Yield, Safepoint, Panic
<1>4. ~Native
  BY <1>1 DEF Native, TakeCompleted, ProcessReturns, TickOrSkip, FireReturns, NextStep, StepsReturn,
              PoolJoined, AwaitAgain, AwaitReturns, LoopTurn, LoopEnds
<1>5. ~CallbackReturns /\ ~ScriptEnds
  BY <1>1 DEF CallbackReturns, EndCallback, EndTick, ScriptEnds
<1> QED BY <1>3, <1>4, <1>5 DEF Next

(* It ends in its loop, or by an error; there is no call under way then.   *)
LEMMA EndsOnce ==
    ASSUME TypeOK, program # "ended", [Next]_vars, program' = "ended"
    PROVE  stack' = <<>> /\ (LoopEnds \/ has_error')
<1>1. \A s : BackFromBuiltin(s) => stack' = <<>> /\ has_error
  BY DEF BackFromBuiltin
<1>2. CASE Script
  <2>1. ASSUME NEW o \in Op, SetTimeout(o) \/ StartIO(o) PROVE stack' = <<>> /\ has_error'
    BY <1>1, <2>1 DEF SetTimeout, StartIO
  <2>2. ASSUME NEW i \in Interval, SetInterval(i) \/ ClearInterval(i) PROVE stack' = <<>> /\ has_error'
    BY <1>1, <2>2 DEF SetInterval, ClearInterval
  <2>3. CASE Panic
    BY <2>3 DEF Panic
  <2>4. CASE ReadReady \/ Yield \/ Safepoint \/ \E o \in IO : ForgetHandle(o) \/ Await(o)
    BY <2>4 DEF ForgetHandle, Await, ReadReady, Yield, Safepoint, endVars
  <2> QED BY <1>2, <2>1, <2>2, <2>3, <2>4 DEF Script
<1>3. CASE StepsReturn
  BY <1>1, <1>3 DEF StepsReturn
<1>4. CASE LoopEnds
  BY <1>4 DEF LoopEnds
<1>5. CASE Native /\ ~StepsReturn /\ ~LoopEnds
  BY <1>5 DEF Native, TakeCompleted, ProcessReturns, TickOrSkip, FireReturns, NextStep,
              PoolJoined, AwaitAgain, AwaitReturns, LoopTurn, endVars
<1>6. CASE CallbackReturns \/ ScriptEnds \/ Outside \/ UNCHANGED vars
  BY <1>6 DEF CallbackReturns, EndCallback, EndTick, ScriptEnds, Outside, PoolCompletes,
              Deadline, Signal, endVars, vars
<1> QED BY <1>2, <1>3, <1>4, <1>5, <1>6 DEF Next

LEMMA EndingStep ==
    ASSUME TypeOK, Books, EndOK, NothingOwed, [Next]_vars
    PROVE  EndOK' /\ NothingOwed'
<1>1. CASE program = "ended"
  <2>1. CASE UNCHANGED vars
    <3>1. UNCHANGED <<poolVars, intervalVars, stack, endVars>>
      BY <2>1 DEF vars
    <3> QED BY <3>1 DEF EndOK, NothingOwed, Delivered, poolVars, intervalVars, endVars
  <2>2. ASSUME NEW o \in Op, PoolCompletes(o) PROVE EndOK' /\ NothingOwed'
    <3>1. Pool!Complete(o) /\ UNCHANGED <<intervalVars, stack, endVars>>
      BY <2>2 DEF PoolCompletes
    <3>2. Delivered' = Delivered /\ submitted' = submitted
      BY <3>1, CompleteStep DEF Books
    <3> QED BY <3>1, <3>2 DEF EndOK, NothingOwed, intervalVars, endVars
  <2>3. ASSUME NEW i \in Interval, Deadline(i) PROVE EndOK' /\ NothingOwed'
    <3>1. UNCHANGED <<poolVars, active_intervals, stack, endVars>>
      BY <2>3 DEF Deadline
    <3> QED BY <3>1 DEF EndOK, NothingOwed, Delivered, poolVars, endVars
  <2>4. CASE Signal
    BY <2>4 DEF Signal, EndOK, NothingOwed
  <2> QED BY <1>1, <2>1, <2>2, <2>3, <2>4, EndedStays DEF Outside
<1>2. CASE program # "ended" /\ program' = "ended"
  <2>1. stack' = <<>> /\ (LoopEnds \/ has_error')
    BY <1>2, EndsOnce
  <2>2. CASE has_error'
    BY <2>1, <2>2 DEF EndOK, NothingOwed
  <2>3. CASE LoopEnds
    <3>1. /\ ~HasPendingTimers \/ has_error \/ g_shutdown_requested
          /\ UNCHANGED <<poolVars, intervalVars, has_error, g_shutdown_requested>>
      BY <2>3 DEF LoopEnds
    <3>2. ASSUME ~HasPendingTimers PROVE Owed = {} /\ active_intervals = {}
      <4>1. pending_timeouts \in Nat /\ ~(pending_timeouts > 0) /\ active_intervals = {}
        BY <3>2 DEF HasPendingTimers, TypeOK
      <4>2. Cardinality(Owed) = 0
        BY <4>1 DEF Books, TimeoutsCounted, Owed
      <4> QED BY <4>1, <4>2, OwedFinite
    <3>3. Delivered' = Delivered /\ submitted' = submitted /\ active_intervals' = active_intervals
      BY <3>1 DEF poolVars, intervalVars, Delivered
    <3> QED BY <2>1, <3>1, <3>2, <3>3 DEF EndOK, NothingOwed, Owed
  <2> QED BY <2>1, <2>2, <2>3
<1>3. CASE program' # "ended"
  BY <1>3 DEF EndOK, NothingOwed
<1> QED BY <1>1, <1>2, <1>3

-----------------------------------------------------------------------------
(* Theorems.                                                               *)

LEMMA Starts == Init => IInv
<1> SUFFICES ASSUME Init PROVE IInv
  OBVIOUS
<1>1. submitted = {} /\ completions = <<>> /\ delivered = 0
  BY DEF Init, Pool!Init
<1>2. TypeOK
  <2>1. <<>> \in Seq(Op) /\ <<>> \in Seq(CallType) /\ 0 \in 0..Len(<<>>) /\ 0 \in Nat
    OBVIOUS
  <2>2. handle \in [IO -> {"none", "Running", "Completed", "freed"}] /\ known = {}
    BY DEF Init
  <2>3. /\ stopped \in BOOLEAN /\ has_error \in BOOLEAN /\ g_shutdown_requested \in BOOLEAN
    BY DEF Init
  <2>4. /\ late = {} /\ pending_timeouts = 0 /\ async_roots = {} /\ active_intervals = {} /\ armed = {}
        /\ past = {} /\ stack = <<>> /\ program = "script"
    BY DEF Init
  <2> QED BY <1>1, <2>1, <2>2, <2>3, <2>4 DEF TypeOK
<1>3. stack = <<>> /\ Len(<<>>) = 0 /\ stack \in Seq(CallType)
  BY DEF Init
<1>4. PoolOK
  BY <1>1 DEF PoolOK, Completed, ToSet
<1>5. Delivered = {}
  BY <1>1 DEF Delivered
<1>6. StackOK(stack) /\ Called(stack) = {}
  BY <1>3 DEF StackOK, Called
<1>7. TimeoutsCounted
  <2>1. (submitted \cap Timer) \ Delivered = {}
    BY <1>1
  <2> QED BY <2>1, FS_EmptySet DEF TimeoutsCounted, Init
<1>8. Rooted
  BY <1>1 DEF Rooted, Init
<1>9. EndOK /\ NothingOwed
  BY DEF EndOK, NothingOwed, Init
<1> QED BY <1>2, <1>4, <1>5, <1>6, <1>7, <1>8, <1>9 DEF IInv

LEMMA Steps == ASSUME IInv, [Next]_vars PROVE IInv'
<1>1. TypeOK /\ Books /\ EndOK /\ NothingOwed
  BY DEF IInv, Books
<1>2. TypeOK' /\ Books' /\ EndOK' /\ NothingOwed'
  BY <1>1, TypeStep, BooksStep, EndingStep
<1> QED BY <1>2 DEF IInv, Books

(* The stack of native calls, the pool, the count of pending timeouts, the *)
(* roots and the end of the program belong together in every state         *)
(* (process_completed_io, fire_due_intervals, run_timer_loop).             *)
THEOREM LoopInvariant == Spec => []IInv
BY Starts, Steps, PTL DEF Spec

(* Every variable keeps its type; pending_timeouts never falls below zero. *)
THEOREM TypeCorrect == Spec => []TypeOK
<1>1. IInv => TypeOK
  BY DEF IInv
<1> QED BY <1>1, LoopInvariant, PTL

(* pending_timeouts is the number of timeouts whose callback has not begun *)
(* (builtin_setTimeout, process_completed_io).                             *)
THEOREM CountedExactly == Spec => []TimeoutsCounted
<1>1. IInv => TimeoutsCounted
  BY DEF IInv
<1> QED BY <1>1, LoopInvariant, PTL

(* The callback of a timeout is a root from set_timeout to the end of its  *)
(* call, and no longer (async_root_set, async_root_clear).                 *)
THEOREM RootedWhileNeeded == Spec => []CallbackRooted
<1>1. ASSUME IInv PROVE CallbackRooted
  <2>1. StackOK(stack) /\ Rooted /\ DOMAIN stack = 1..Len(stack) /\ submitted \subseteq Op
    BY <1>1, Lengths DEF IInv, StackOK, TypeOK
  <2>2. ASSUME NEW o \in Timer PROVE CallsOf(o) # {} <=> o \in Called(stack)
    <3>1. ASSUME NEW n \in CallsOf(o) PROVE o \in Called(stack)
      <4>1. /\ n \in 1..Len(stack) /\ stack[n].at \in {"callback", "tick"} /\ stack[n].op = o
        BY <2>1, <3>1 DEF CallsOf, Running
      <4>2. CallOK(stack[n]) /\ o # NoOp
        BY <2>1, <4>1, LoopAssumption DEF StackOK
      <4>3. stack[n].at = "callback"
        BY <4>1, <4>2 DEF CallOK
      <4> QED BY <4>1, <4>3 DEF Called, Calls
    <3>2. ASSUME o \in Called(stack) PROVE CallsOf(o) # {}
      <4>1. PICK n \in 1..Len(stack) : Calls(stack[n]) /\ stack[n].op = o
        BY <3>2 DEF Called
      <4>2. n \in CallsOf(o)
        BY <2>1, <4>1 DEF CallsOf, Running, Calls
      <4> QED BY <4>2
    <3> QED BY <3>1, <3>2
  <2> QED BY <2>1, <2>2 DEF Rooted, CallbackRooted
<1> QED BY <1>1, LoopInvariant, PTL

(* The program does not end owing the script a timer, unless it was told   *)
(* to stop or failed (has_pending_timers, run_timer_loop).                 *)
THEOREM EndsOwingNothing == Spec => []NothingOwed
<1>1. IInv => NothingOwed
  BY DEF IInv
<1> QED BY <1>1, LoopInvariant, PTL

(* A callback of an interval is run within another one of the same         *)
(* interval only if that one yields (fire_due_intervals, .await).          *)
THEOREM TicksNest == Spec => []TicksNestByYield
<1>1. ASSUME IInv PROVE TicksNestByYield
  <2>1. StackOK(stack) /\ DOMAIN stack = 1..Len(stack) /\ Len(stack) \in Nat
    BY <1>1, Lengths DEF IInv, StackOK
  <2>2. ASSUME NEW i \in Interval, NEW m \in TicksOf(i), NEW n \in TicksOf(i), m < n
        PROVE  YieldedWithin(m, n)
    <3>1. /\ m \in 1..Len(stack) /\ stack[m].at \in {"callback", "tick"} /\ stack[m].id = i
          /\ n \in 1..Len(stack) /\ stack[n].at \in {"callback", "tick"} /\ stack[n].id = i
      BY <2>1 DEF TicksOf, Running
    <3>2. stack[m].at = "tick" /\ stack[n].at = "tick"
      BY <2>1, <3>1, LoopAssumption DEF StackOK, CallOK
    <3>3. n >= 2 /\ stack[n - 1].at = "steps" /\ (n = 2 \/ RunsScript(stack[n - 2]))
      BY <2>1, <3>1, <3>2 DEF StackOK, LinkOK
    <3>4. m # n - 1
      BY <3>2, <3>3
    <3>5. n - 1 \in m + 1..n - 1 /\ (n - 1) - 1 = n - 2 /\ n - 2 \in 1..Len(stack) /\ n # 2
      BY <2>1, <2>2, <3>1, <3>4
    <3>6. n - 2 \in Running
      BY <2>1, <3>3, <3>5 DEF Running, RunsScript
    <3> QED BY <3>3, <3>5, <3>6 DEF YieldedWithin
  <2> QED BY <2>2 DEF TicksNestByYield
<1> QED BY <1>1, LoopInvariant, PTL

-----------------------------------------------------------------------------
(* Ticks.  The id of a call says whether it is a tick, and of what.        *)

Ticks(s, i) == {n \in 1..Len(s) : s[n].id = i}

LEMMA TicksAre ==
    ASSUME NEW i \in Interval
    PROVE  /\ StackOK(stack) => TicksOf(i) = Ticks(stack, i)
           /\ StackOK(stack') => TicksOf(i)' = Ticks(stack', i)
<1>1. ASSUME NEW s, StackOK(s)
      PROVE  {n \in {m \in DOMAIN s : s[m].at \in {"callback", "tick"}} : s[n].id = i} = Ticks(s, i)
  <2>1. DOMAIN s = 1..Len(s)
    BY <1>1, Lengths DEF StackOK
  <2>2. \A n \in 1..Len(s) : s[n].id = i => s[n].at = "tick"
    BY <1>1, LoopAssumption DEF StackOK, CallOK
  <2> QED BY <2>1, <2>2 DEF Ticks
<1> QED BY <1>1 DEF TicksOf, Running

LEMMA TicksMoved ==
    ASSUME NEW s, StackOK(s), NEW c \in CallType, NEW i \in Interval
    PROVE  /\ c.id = NoInterval => Ticks(Append(s, c), i) = Ticks(s, i)
           /\ s # <<>> => Ticks(Front(s), i) \subseteq Ticks(s, i)
           /\ s # <<>> /\ c.id \in {Last(s).id, NoInterval} =>
                  Ticks(Append(Front(s), c), i) \subseteq Ticks(s, i)
<1>1. s \in Seq(CallType) /\ Len(s) \in Nat /\ i # NoInterval
  BY Lengths, LoopAssumption DEF StackOK
<1>2. ASSUME c.id = NoInterval PROVE Ticks(Append(s, c), i) = Ticks(s, i)
  <2> DEFINE t == Append(s, c)
  <2>1. /\ Len(t) = Len(s) + 1 /\ \A n \in 1..Len(s) : t[n] = s[n]
        /\ t[Len(s) + 1] = c
    BY <1>1, Pushing
  <2> HIDE DEF t
  <2>2. \A n \in 1..Len(t) : n \in 1..Len(s) \/ n = Len(s) + 1
    BY <1>1, <2>1
  <2>3. \A n \in 1..Len(s) : n \in 1..Len(t)
    BY <1>1, <2>1
  <2>4. Ticks(t, i) = Ticks(s, i)
    BY <1>1, <1>2, <2>1, <2>2, <2>3 DEF Ticks
  <2> QED BY <2>4 DEF t
<1>3. ASSUME s # <<>> PROVE Ticks(Front(s), i) \subseteq Ticks(s, i)
  <2>1. /\ Len(Front(s)) = Len(s) - 1
        /\ \A n \in 1..Len(s) - 1 : Front(s)[n] = s[n] /\ n \in 1..Len(s)
    BY <1>1, <1>3, Popping
  <2> HIDE DEF Front
  <2> QED BY <2>1 DEF Ticks
<1>4. ASSUME s # <<>>, c.id \in {Last(s).id, NoInterval}
      PROVE  Ticks(Append(Front(s), c), i) \subseteq Ticks(s, i)
  <2> DEFINE t == Append(Front(s), c)
  <2>1. /\ Len(t) = Len(s) /\ \A n \in 1..Len(s) - 1 : t[n] = s[n]
        /\ t[Len(s)] = c /\ Last(s) = s[Len(s)]
    BY <1>1, <1>4, Replacing, Popping
  <2> HIDE DEF t
  <2>2. \A n \in 1..Len(s) : n \in 1..Len(s) - 1 \/ n = Len(s)
    BY <1>1
  <2>3. Ticks(t, i) \subseteq Ticks(s, i)
    BY <1>1, <1>4, <2>1, <2>2 DEF Ticks
  <2> QED BY <2>3 DEF t
<1> QED BY <1>2, <1>3, <1>4

NoNewTick(i) == Ticks(stack', i) \subseteq Ticks(stack, i)

LEMMA BackTicks ==
    ASSUME NEW s, StackOK(s), NEW i \in Interval, Ticks(s, i) \subseteq Ticks(stack, i),
           BackFromBuiltin(s)
    PROVE  NoNewTick(i)
<1>1. CASE stack' = s
  BY <1>1 DEF NoNewTick
<1>2. CASE s # <<>> /\ stack' = [s EXCEPT ![Len(s)].over = TRUE]
  <2> DEFINE c == [s[Len(s)] EXCEPT !.over = TRUE]
  <2>1. s \in Seq(CallType) /\ Len(s) \in 1..Len(s) /\ s[Len(s)] \in CallType
    BY <1>2, Lengths DEF StackOK
  <2>2. c \in CallType /\ c.id = s[Len(s)].id
    BY <2>1 DEF CallType
  <2>3. stack' = [s EXCEPT ![Len(s)] = c]
    BY <1>2
  <2> HIDE DEF c
  <2>4. Len(stack') = Len(s) /\ \A j \in 1..Len(s) : stack'[j] = IF j = Len(s) THEN c ELSE s[j]
    BY <2>1, <2>2, <2>3, ExceptSeq
  <2>5. Ticks(stack', i) \subseteq Ticks(s, i)
    BY <2>2, <2>4 DEF Ticks
  <2> QED BY <2>5 DEF NoNewTick
<1> QED BY <1>1, <1>2 DEF BackFromBuiltin

LEMMA PushedNoTick ==
    ASSUME StackOK(stack), NEW c \in CallType, c.id = NoInterval, stack' = Append(stack, c),
           NEW i \in Interval
    PROVE  NoNewTick(i)
BY TicksMoved DEF NoNewTick

LEMMA PoppedNoTick ==
    ASSUME StackOK(stack), stack # <<>>, stack' = Returned, NEW i \in Interval
    PROVE  NoNewTick(i)
<1>1. Call("process") \in CallType
  BY NewCall
<1> QED BY <1>1, TicksMoved DEF NoNewTick, Returned

LEMMA ReplacedNoTick ==
    ASSUME StackOK(stack), stack # <<>>, NEW c \in CallType, c.id \in {Top.id, NoInterval},
           stack' = Replaced(c), NEW i \in Interval
    PROVE  NoNewTick(i)
BY TicksMoved DEF NoNewTick, Replaced, Top

LEMMA ScriptTicks ==
    ASSUME TypeOK, StackOK(stack), NEW i \in Interval, Script
    PROVE  NoNewTick(i)
<1>1. CASE \/ \E o \in Op : SetTimeout(o) \/ StartIO(o)
           \/ \E j \in Interval : SetInterval(j) \/ ClearInterval(j)
  BY <1>1, BackTicks DEF SetTimeout, StartIO, SetInterval, ClearInterval
<1>2. CASE Safepoint \/ \E o \in IO : ForgetHandle(o)
  BY <1>2 DEF Safepoint, ForgetHandle, NoNewTick
<1>3. ASSUME NEW o \in IO, Await(o) PROVE NoNewTick(i)
  <2>1. stack' = Append(stack, [Call("await") EXCEPT !.op = o])
    BY <1>3 DEF Await, Entered
  <2>2. CallOK([Call("await") EXCEPT !.op = o]) /\ [Call("await") EXCEPT !.op = o] \in CallType
        /\ [Call("await") EXCEPT !.op = o].at = "await"
    BY AwaitCall
  <2> QED BY <2>1, <2>2, PushedNoTick DEF CallOK
<1>4. CASE ReadReady
  <2>1. stack' = Append(stack, Call("process"))
    BY <1>4 DEF ReadReady, Entered
  <2> QED BY <2>1, NewCall, PushedNoTick
<1>5. CASE Yield
  <2>1. stack' = Append(stack, [Call("steps") EXCEPT !.steps = YieldSteps])
    BY <1>5 DEF Yield, Entered
  <2> QED BY <2>1, StepsCall, StepLists, PushedNoTick DEF CallOK
<1>6. CASE Panic
  <2>1. CASE stack = <<>>
    BY <1>6, <2>1 DEF Panic, NoNewTick
  <2>2. CASE stack # <<>>
    <3> DEFINE c == [Top EXCEPT !.over = TRUE]
    <3>1. stack' = Replaced(c) /\ Top \in CallType
      BY <1>6, <2>2, PoppedOK DEF Panic, Top
    <3>2. c \in CallType /\ c.id = Top.id
      BY <3>1 DEF CallType
    <3> HIDE DEF c
    <3> QED BY <2>2, <3>1, <3>2, ReplacedNoTick
  <2> QED BY <2>1, <2>2
<1> QED BY <1>1, <1>2, <1>3, <1>4, <1>5, <1>6 DEF Script

LEMMA NextStepTicks ==
    ASSUME TypeOK, StackOK(stack), NEW i \in Interval, NextStep
    PROVE  NoNewTick(i)
<1> DEFINE step == Head(Top.steps)
           b == [Top EXCEPT !.steps = Tail(@)]
           c == CallTo(step)
<1>1. /\ stack # <<>> /\ Top \in CallType /\ CallOK(Top) /\ Top.at = "steps" /\ Top.steps # <<>>
  BY TopCall DEF NextStep
<1>2. stack' = Replaced(b) \/ stack' = Append(Replaced(b), c)
  BY DEF NextStep
<1>3. Top.steps \in Seq({"stop", "process", "fire"})
  BY <1>1 DEF CallType
<1>4. step \in {"stop", "process", "fire"} /\ Tail(Top.steps) \in Seq({"stop", "process", "fire"})
  BY <1>1, <1>3, HeadTailProperties
<1>5. b \in CallType /\ b.id = Top.id
  BY <1>1, <1>4 DEF CallType
<1>6. c \in CallType /\ c.id = NoInterval
  BY <1>4, StepCall DEF CallOK
<1>7. Ticks(Replaced(b), i) \subseteq Ticks(stack, i)
  BY <1>1, <1>5, TicksMoved DEF Replaced, Top
<1>8. StackOK(stack') /\ Replaced(b) \in Seq(CallType)
  BY <1>1, <1>5, NextStepStack, Replacing DEF StackKept, Replaced, StackOK
<1> HIDE DEF b, c
<1>9. CASE stack' = Replaced(b)
  BY <1>7, <1>9 DEF NoNewTick
<1>10. CASE stack' = Append(Replaced(b), c)
  <2> DEFINE t == Replaced(b)
  <2> HIDE DEF t
  <2>1. t \in Seq(CallType) /\ Len(t) \in Nat
    BY <1>8, Lengths DEF t
  <2>2. /\ Len(Append(t, c)) = Len(t) + 1 /\ \A n \in 1..Len(t) : Append(t, c)[n] = t[n]
        /\ Append(t, c)[Len(t) + 1] = c
    BY <1>6, <2>1, Pushing
  <2>3. \A n \in 1..Len(t) + 1 : n \in 1..Len(t) \/ n = Len(t) + 1
    BY <2>1
  <2>4. i # NoInterval
    BY LoopAssumption
  <2>5. Ticks(Append(t, c), i) \subseteq Ticks(t, i)
    BY <1>6, <2>2, <2>3, <2>4 DEF Ticks
  <2> QED BY <1>7, <1>10, <2>5 DEF NoNewTick, t
<1> QED BY <1>2, <1>9, <1>10

(* A tick begins only of an interval that is active. *)
LEMMA TickOrSkipTicks ==
    ASSUME TypeOK, StackOK(stack), NEW i \in Interval, TickOrSkip, i \notin active_intervals
    PROVE  NoNewTick(i)
<1>1. /\ stack # <<>> /\ Top \in CallType /\ CallOK(Top) /\ Top.at = "fire"
  BY TopCall DEF TickOrSkip
<1>2. PICK j \in Top.due : stack' = Replaced(IF StillActive(j)
               THEN [Top EXCEPT !.at = "tick", !.id = j, !.due = @ \ {j}]
               ELSE [Top EXCEPT !.due = @ \ {j}])
  BY DEF TickOrSkip
<1>3. j \in Interval /\ Top.due \ {j} \subseteq Interval
  BY <1>1, <1>2 DEF CallType
<1>4. CASE ~StillActive(j)
  <2> DEFINE c == [Top EXCEPT !.due = @ \ {j}]
  <2>1. stack' = Replaced(c)
    BY <1>2, <1>4
  <2>2. c \in CallType /\ c.id = Top.id
    BY <1>1, <1>3 DEF CallType
  <2> HIDE DEF c
  <2> QED BY <1>1, <2>1, <2>2, ReplacedNoTick
<1>5. CASE StillActive(j)
  <2> DEFINE c == [Top EXCEPT !.at = "tick", !.id = j, !.due = @ \ {j}]
  <2>1. stack' = Append(Front(stack), c) /\ j # i
    BY <1>2, <1>5 DEF Replaced, StillActive
  <2>2. c \in CallType /\ c.id = j
    BY <1>1, <1>3 DEF CallType
  <2> HIDE DEF c
  <2>3. /\ stack \in Seq(CallType) /\ Len(stack) \in Nat
    BY Lengths DEF StackOK
  <2>4. /\ Len(stack') = Len(stack) /\ \A n \in 1..Len(stack) - 1 : stack'[n] = stack[n]
        /\ stack'[Len(stack)] = c
    BY <1>1, <2>1, <2>2, <2>3, Replacing
  <2>5. \A n \in 1..Len(stack) : n \in 1..Len(stack) - 1 \/ n = Len(stack)
    BY <2>3
  <2> QED BY <2>1, <2>2, <2>4, <2>5 DEF NoNewTick, Ticks
<1> QED BY <1>4, <1>5

LEMMA NativeTicks ==
    ASSUME TypeOK, Books, NEW i \in Interval, Native, i \notin active_intervals
    PROVE  NoNewTick(i)
<1>0. StackOK(stack)
  BY DEF Books
<1>1. CASE TakeCompleted
  <2> DEFINE o == completions[delivered + 1]
             c == [Top EXCEPT !.at = "callback", !.op = o]
             d == [Top EXCEPT !.did = TRUE]
  <2>1. stack # <<>> /\ Top \in CallType
    BY <1>0, <1>1, TopCall DEF TakeCompleted
  <2>2. o \in Op
    BY <1>1, DeliverStep DEF TakeCompleted, Books, TypeOK
  <2>3. stack' = Replaced(c) \/ stack' = Replaced(d)
    BY <1>1 DEF TakeCompleted, TakenTimer, TakenIO
  <2>4. c \in CallType /\ c.id = Top.id /\ d \in CallType /\ d.id = Top.id
    BY <2>1, <2>2 DEF CallType
  <2> HIDE DEF c, d
  <2> QED BY <1>0, <2>1, <2>3, <2>4, ReplacedNoTick
<1>2. CASE ProcessReturns \/ FireReturns \/ PoolJoined \/ AwaitReturns
  <2>1. stack # <<>> /\ stack' = Returned
    BY <1>2 DEF ProcessReturns, FireReturns, PoolJoined, AwaitReturns, Within
  <2> QED BY <1>0, <2>1, PoppedNoTick
<1>3. CASE TickOrSkip
  BY <1>0, <1>3, TickOrSkipTicks
<1>4. CASE NextStep
  BY <1>0, <1>4, NextStepTicks
<1>5. CASE StepsReturn
  <2>1. stack # <<>> /\ (stack' = Returned \/ BackFromBuiltin(Returned)) /\ StackOK(Returned)
    BY <1>0, <1>5, PoppedStack DEF StepsReturn, Within
  <2>2. Ticks(Returned, i) \subseteq Ticks(stack, i)
    <3>1. Call("process") \in CallType
      BY NewCall
    <3> QED BY <1>0, <2>1, <3>1, TicksMoved DEF Returned
  <2> QED BY <2>1, <2>2, BackTicks DEF NoNewTick
<1>6. CASE AwaitAgain
  <2>1. stack' = Append(stack, [Call("steps") EXCEPT !.steps = AwaitTurn])
    BY <1>6 DEF AwaitAgain, Entered
  <2> QED BY <1>0, <2>1, StepsCall, StepLists, PushedNoTick DEF CallOK
<1>7. CASE LoopTurn
  <2>1. stack' = Append(stack, [Call("steps") EXCEPT !.steps = LoopSteps])
    BY <1>7 DEF LoopTurn, Entered
  <2> QED BY <1>0, <2>1, StepsCall, StepLists, PushedNoTick DEF CallOK
<1>8. CASE LoopEnds
  BY <1>8 DEF LoopEnds, NoNewTick
<1> QED BY <1>1, <1>2, <1>3, <1>4, <1>5, <1>6, <1>7, <1>8 DEF Native

LEMMA CallbackTicks ==
    ASSUME TypeOK, StackOK(stack), NEW i \in Interval, CallbackReturns
    PROVE  NoNewTick(i)
<1>1. CASE EndCallback
  <2> DEFINE c == [Top EXCEPT !.at = "process", !.op = NoOp, !.did = TRUE, !.over = FALSE]
  <2>1. stack # <<>> /\ Top \in CallType /\ stack' = Replaced(c)
    BY <1>1, TopCall DEF EndCallback
  <2>2. c \in CallType /\ c.id = Top.id
    BY <2>1 DEF CallType
  <2> HIDE DEF c
  <2> QED BY <2>1, <2>2, ReplacedNoTick
<1>2. CASE EndTick
  <2> DEFINE c == [Top EXCEPT !.at = "fire", !.id = NoInterval, !.over = FALSE]
  <2>1. stack # <<>> /\ Top \in CallType /\ (stack' = Returned \/ stack' = Replaced(c))
    BY <1>2, TopCall DEF EndTick
  <2>2. c \in CallType /\ c.id = NoInterval
    BY <2>1 DEF CallType
  <2> HIDE DEF c
  <2> QED BY <2>1, <2>2, PoppedNoTick, ReplacedNoTick
<1> QED BY <1>1, <1>2 DEF CallbackReturns

LEMMA TicksFinite ==
    ASSUME NEW i \in Interval, StackOK(stack)
    PROVE  IsFiniteSet(Ticks(stack, i))
<1>1. Len(stack) \in Nat
  BY Lengths DEF StackOK
<1>2. IsFiniteSet(1..Len(stack))
  BY <1>1, FS_Interval
<1> QED BY <1>2, FS_Subset DEF Ticks

(* No callback of an interval begins after the interval was cleared, also  *)
(* not when an earlier callback of the same batch cleared it               *)
(* (fire_due_intervals).                                                   *)
THEOREM ClearedIsSilent == Spec => ClearedNeverTicks
<1>1. ASSUME IInv, [Next]_vars, NEW i \in Interval, i \notin active_intervals
      PROVE  ~(Cardinality(TicksOf(i)') > Cardinality(TicksOf(i)))
  <2>1. TypeOK /\ Books /\ StackOK(stack)
    BY <1>1 DEF IInv, Books
  <2>2. NoNewTick(i)
    <3>1. CASE Script
      BY <2>1, <3>1, ScriptTicks
    <3>2. CASE Native
      BY <1>1, <2>1, <3>2, NativeTicks
    <3>3. CASE CallbackReturns
      BY <2>1, <3>3, CallbackTicks
    <3>4. CASE ScriptEnds \/ Outside \/ UNCHANGED vars
      BY <3>4 DEF ScriptEnds, Outside, PoolCompletes, Deadline, Signal, vars, NoNewTick
    <3> QED BY <1>1, <3>1, <3>2, <3>3, <3>4 DEF Next
  <2>3. StackOK(stack')
    BY <2>1, <1>1, BooksStep DEF Books
  <2>4. TicksOf(i) = Ticks(stack, i) /\ TicksOf(i)' = Ticks(stack', i)
    BY <2>1, <2>3, TicksAre
  <2>5. IsFiniteSet(Ticks(stack, i))
    BY <2>1, TicksFinite
  <2>6. /\ Cardinality(Ticks(stack', i)) <= Cardinality(Ticks(stack, i))
        /\ Cardinality(Ticks(stack', i)) \in Nat /\ Cardinality(Ticks(stack, i)) \in Nat
    BY <2>2, <2>5, FS_Subset, FS_CardinalityType DEF NoNewTick
  <2> QED BY <2>4, <2>6
<1>2. IInv /\ [Next]_vars =>
        [\A i \in Interval : Cardinality(TicksOf(i)') > Cardinality(TicksOf(i))
             => i \in active_intervals]_vars
  BY <1>1
<1> QED BY <1>2, LoopInvariant, PTL DEF Spec, ClearedNeverTicks
=============================================================================
