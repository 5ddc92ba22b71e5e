------------------------ MODULE DebugControllerProofs ------------------------
(***************************************************************************)
(* Proofs about DebugController, for any number of lines, frames and       *)
(* instructions: what the client was shown holds until its next command,   *)
(* and stops come where the step modes say.                                *)
(***************************************************************************)
EXTENDS DebugController, TLAPS

(* The state keeps its types: a step count, a place, a mode of the debugger. *)
THEOREM TypeCorrect == Spec => []TypeOK
<1>1. Init => TypeOK
  <2> SUFFICES ASSUME Init PROVE TypeOK
    OBVIOUS
  <2>1. at \in Place /\ last = Nowhere
    BY DEF Init
  <2>2. step_anchor_depth \in 0..MaxDepth /\ left \in 0..MaxInstructions
    BY DebuggerAssumption DEF Init
  <2>3. /\ is_enabled \in BOOLEAN /\ stop_on_entry \in BOOLEAN /\ entry_stop_done \in BOOLEAN
        /\ stopped \in BOOLEAN /\ exited \in BOOLEAN /\ told \in BOOLEAN
        /\ step_mode \in StepMode /\ breakpoints \subseteq Line
        /\ vm = "none" /\ dap = "loop"
    BY DEF Init, StepMode
  <2> QED BY <2>1, <2>2, <2>3 DEF TypeOK
<1>2. TypeOK /\ [Next]_vars => TypeOK'
  <2> SUFFICES ASSUME TypeOK, [Next]_vars PROVE TypeOK'
    OBVIOUS
  <2> USE DEF TypeOK
  <2>1. CASE TestEnabled
    BY <2>1 DEF TestEnabled, entryVars, stepVars, placeVars
  <2>2. CASE ShouldStop
    <3>1. vm' \in {"publish", "execute"} /\ entry_stop_done' \in BOOLEAN
      BY <2>2 DEF ShouldStop
    <3> QED BY <2>2, <3>1 DEF ShouldStop, stepVars, placeVars
  <2>3. CASE PublishStop \/ Announce \/ Resume
    BY <2>3 DEF PublishStop, LastHere, Announce, Resume, entryVars, stepVars, placeVars
  <2>4. CASE Execute
    <3>1. left' \in 0..MaxInstructions
      BY <2>4, DebuggerAssumption DEF Execute
    <3>2. at' \in Place /\ vm' = "hook"
      BY <2>4 DEF Execute
    <3> QED BY <2>4, <3>1, <3>2 DEF Execute, entryVars, stepVars
  <2>5. CASE EndProgram \/ NotifyExited \/ ConfigurationDone
    BY <2>5 DEF EndProgram, NotifyExited, ConfigurationDone, entryVars, stepVars, placeVars
  <2>6. ASSUME NEW S \in SUBSET Line, SetBreakpoints(S) PROVE TypeOK'
    <3>1. breakpoints' \subseteq Line
      BY <2>6 DEF SetBreakpoints
    <3> QED BY <2>6, <3>1 DEF SetBreakpoints, entryVars, stepVars, placeVars
  <2>7. ASSUME Continue, UNCHANGED is_enabled,
               dap' \in {"loop", "released", "closing", "disabled", "join", "gone"}
        PROVE  TypeOK'
    BY <2>7 DEF Continue, Resumed, StepMode, entryVars, placeVars
  <2>8. CASE CmdContinue \/ WindDown \/ Disconnect
    <3>1. ASSUME NEW next \in {"released", "disabled"}, Disable(next) PROVE TypeOK'
      BY <3>1 DEF Disable, entryVars, stepVars, placeVars
    <3> QED BY <2>7, <2>8, <3>1 DEF CmdContinue, WindDown, LetGo, Disconnect
  <2>9. ASSUME NEW mode \in {"Over", "In", "Out"}, CmdStep(mode) PROVE TypeOK'
    <3>1. last.depth \in 0..MaxDepth
      BY DebuggerAssumption DEF Place, Nowhere
    <3>2. step_anchor_depth' \in 0..MaxDepth /\ step_mode' \in StepMode
      BY <2>9, <3>1 DEF CmdStep, AnchorHere, StepMode
    <3>3. stopped' \in BOOLEAN /\ told' \in BOOLEAN
      BY <2>9 DEF CmdStep, Resumed
    <3> QED BY <2>9, <3>2, <3>3 DEF CmdStep, entryVars, placeVars
  <2>10. CASE CmdPause \/ HangUp \/ JoinVM
    BY <2>10 DEF CmdPause, HangUp, JoinVM, StepMode, entryVars, stepVars, placeVars
  <2>11. CASE UNCHANGED vars
    BY <2>11 DEF vars, entryVars, stepVars, placeVars
  <2> QED BY <2>1, <2>2, <2>3, <2>4, <2>5, <2>6, <2>8, <2>9, <2>10, <2>11
          DEF Next, Hook, Running, Client
<1> QED BY <1>1, <1>2, PTL DEF Spec

-----------------------------------------------------------------------------
Stopping == {"publish", "announce", "wait"}

(* The handshake.  A stop that is being announced has been published; only *)
(* the client's command, or its leaving, takes it back.  The anchor of a   *)
(* step is the depth of the last stop as long as the step is under way;    *)
(* nothing has stopped, and nothing steps, before the entry stop.          *)
Handshake ==
    /\ exited => vm = "ended"
    /\ vm \in {"announce", "wait"} => last = at
    /\ vm = "announce" /\ dap = "loop" => stopped /\ ~told
    /\ told /\ dap = "loop" => stopped /\ vm = "wait"
    /\ EntryStop =>
        /\ last = Nowhere /\ vm \notin Stopping
        /\ step_mode \notin {"Over", "Out"}
    /\ step_mode \in {"Over", "Out"} =>
        \/ step_anchor_depth = last.depth
        \/ vm \in {"announce", "wait"} /\ stopped

LEMMA HandshakeStep == ASSUME TypeOK, Handshake, [Next]_vars PROVE Handshake'
<1> USE DEF Handshake, EntryStop, Stopping
<1>1. CASE TestEnabled
  BY <1>1 DEF TestEnabled, entryVars, stepVars, placeVars, TypeOK
<1>2. CASE ShouldStop
  BY <1>2 DEF ShouldStop, Stops, stepVars, placeVars, TypeOK
<1>3. CASE PublishStop
  BY <1>3 DEF PublishStop, LastHere, entryVars, stepVars, placeVars, TypeOK
<1>4. CASE Announce
  BY <1>4 DEF Announce, entryVars, stepVars, placeVars, TypeOK
<1>5. CASE Resume
  BY <1>5 DEF Resume, Wakes, entryVars, stepVars, placeVars, TypeOK
<1>6. CASE Running
  BY <1>6 DEF Running, Execute, EndProgram, NotifyExited, entryVars, stepVars, placeVars, TypeOK
<1>7. CASE ConfigurationDone
  BY <1>7 DEF ConfigurationDone, entryVars, stepVars, placeVars, TypeOK
<1>8. ASSUME NEW S \in SUBSET Line, SetBreakpoints(S) PROVE Handshake'
  BY <1>8 DEF SetBreakpoints, entryVars, stepVars, placeVars
<1>9. CASE CmdContinue
  BY <1>9 DEF CmdContinue, Continue, Resumed, entryVars, placeVars, TypeOK
<1>10. ASSUME NEW mode \in {"Over", "In", "Out"}, CmdStep(mode) PROVE Handshake'
  BY <1>10 DEF CmdStep, AnchorHere, Resumed, entryVars, placeVars, TypeOK
<1>11. CASE CmdPause
  BY <1>11 DEF CmdPause, entryVars, placeVars, TypeOK
<1>12. CASE Disconnect \/ HangUp \/ JoinVM
  BY <1>12 DEF Disconnect, Disable, HangUp, JoinVM, entryVars, stepVars, placeVars, TypeOK
<1>13. CASE WindDown
  BY <1>13 DEF WindDown, LetGo, Continue, Resumed, Disable, entryVars, stepVars, placeVars, TypeOK
<1>14. CASE UNCHANGED vars
  BY <1>14 DEF vars, entryVars, stepVars, placeVars
<1> QED BY <1>1, <1>2, <1>3, <1>4, <1>5, <1>6, <1>7, <1>8, <1>9, <1>10, <1>11, <1>12, <1>13, <1>14
        DEF Next, Hook, Client

THEOREM HandshakeHolds == Spec => []Handshake
<1>1. Init => Handshake
  BY DEF Init, Handshake, EntryStop, Stopping
<1> QED BY <1>1, HandshakeStep, TypeCorrect, PTL DEF Spec

(* From the stopped event to the client's next command the program stays   *)
(* where the client was shown it.                                          *)
THEOREM StopHolds == Spec => []AnnouncedStopHolds
<1>1. Handshake => AnnouncedStopHolds
  BY DEF Handshake, AnnouncedStopHolds
<1> QED BY <1>1, HandshakeHolds, PTL

LEMMA OnlyShouldStop ==
    ASSUME [Next]_vars, vm = "ask", vm' = "publish"
    PROVE  ShouldStop /\ Stops
BY DEF Next, Hook, Running, Client, TestEnabled, ShouldStop, PublishStop, Announce, Resume, Execute,
       EndProgram, NotifyExited, ConfigurationDone, SetBreakpoints, CmdContinue, Continue, CmdStep,
       CmdPause, Disconnect, Disable, HangUp, WindDown, LetGo, JoinVM, vars, placeVars

(* A stop that is not a pause is at a new place.                           *)
THEOREM NoStopIsRepeated == Spec => NoStopTwice
<1>1. ASSUME TypeOK, Handshake, [Next]_vars, vm = "ask", vm' = "publish", step_mode # "Pause"
      PROVE  at # last
  <2>1. Stops
    BY <1>1, OnlyShouldStop
  <2>2. at \in Place
    BY <1>1 DEF TypeOK
  <2>3. CASE EntryStop
    <3>1. last.depth = 0
      BY <1>1, <2>3 DEF Handshake, Nowhere
    <3> QED BY <2>2, <3>1 DEF Place
  <2>4. CASE ~EntryStop
    <3>1. ModeStops
      BY <2>1, <2>4 DEF Stops
    <3>2. CASE step_mode \in {"In", "None"}
      BY <3>1, <3>2 DEF ModeStops, SamePos
    <3>3. CASE step_mode \in {"Over", "Out"}
      <4>1. step_anchor_depth = last.depth
        BY <1>1, <3>3 DEF Handshake
      <4>2. CASE step_mode = "Over"
        BY <3>1, <4>1, <4>2 DEF ModeStops, OverStops, SamePos
      <4>3. CASE step_mode = "Out"
        BY <2>2, <3>1, <4>1, <4>3 DEF ModeStops, OutStops, Place
      <4> QED BY <3>3, <4>2, <4>3
    <3> QED BY <1>1, <3>2, <3>3 DEF TypeOK, StepMode
  <2> QED BY <2>3, <2>4
<1>2. TypeOK /\ Handshake /\ [Next]_vars =>
        [vm = "ask" /\ vm' = "publish" /\ step_mode # "Pause" => at # last]_vars
  BY <1>1
<1> QED BY <1>2, HandshakeHolds, TypeCorrect, PTL DEF Spec, NoStopTwice

(* Step over and step out land where they should.                          *)
THEOREM StepsLand == Spec => StepsLandOutside
<1>1. ASSUME TypeOK, Handshake, [Next]_vars, vm = "ask", vm' = "publish"
      PROVE  /\ step_mode = "Over" => at.depth <= last.depth
             /\ step_mode = "Out" => at.depth < last.depth
  <2>1. Stops
    BY <1>1, OnlyShouldStop
  <2>2. ASSUME step_mode \in {"Over", "Out"}
        PROVE  ModeStops /\ step_anchor_depth = last.depth
    BY <1>1, <2>1, <2>2 DEF Stops, Handshake
  <2>3. CASE step_mode = "Over"
    BY <2>2, <2>3 DEF ModeStops, OverStops
  <2>4. CASE step_mode = "Out"
    BY <2>2, <2>4 DEF ModeStops, OutStops
  <2> QED BY <2>3, <2>4
<1>2. TypeOK /\ Handshake /\ [Next]_vars =>
        [vm = "ask" /\ vm' = "publish" =>
           /\ step_mode = "Over" => at.depth <= last.depth
           /\ step_mode = "Out" => at.depth < last.depth]_vars
  BY <1>1
<1> QED BY <1>2, HandshakeHolds, TypeCorrect, PTL DEF Spec, StepsLandOutside

=============================================================================
