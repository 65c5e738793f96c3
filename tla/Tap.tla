--------------------------------- MODULE Tap ---------------------------------
(***************************************************************************)
(* The far end of the pins: the TAP controller of IEEE 1149.1, which every *)
(* core of the chain follows in step.  The firmware has no code for it; it *)
(* is what the sequences of cmdimpl.c and the bit loop of lsejtag_port.c   *)
(* are written for.  The registers between TDI and TDO are left out: a     *)
(* scan is the string of bits shifted in between a Capture and an Update   *)
(* state, and what it shifts out is given by Answer.                       *)
(***************************************************************************)
EXTENDS Integers, Sequences

CONSTANT Answer   \* for the k-th scan of a command, the ones it shifts out

VARIABLES tap,    \* the controller's state
          scan,   \* the scan under way: its number of bits and its ones
          scans   \* history: the scans the command has completed

\* Successor of each state for TMS low and high.
Walk == [
  TestLogicReset |-> [low |-> "RunTestIdle", high |-> "TestLogicReset"],
  RunTestIdle    |-> [low |-> "RunTestIdle", high |-> "SelectDR"],
  SelectDR       |-> [low |-> "CaptureDR",   high |-> "SelectIR"],
  CaptureDR      |-> [low |-> "ShiftDR",     high |-> "Exit1DR"],
  ShiftDR        |-> [low |-> "ShiftDR",     high |-> "Exit1DR"],
  Exit1DR        |-> [low |-> "PauseDR",     high |-> "UpdateDR"],
  PauseDR        |-> [low |-> "PauseDR",     high |-> "Exit2DR"],
  Exit2DR        |-> [low |-> "ShiftDR",     high |-> "UpdateDR"],
  UpdateDR       |-> [low |-> "RunTestIdle", high |-> "SelectDR"],
  SelectIR       |-> [low |-> "CaptureIR",   high |-> "TestLogicReset"],
  CaptureIR      |-> [low |-> "ShiftIR",     high |-> "Exit1IR"],
  ShiftIR        |-> [low |-> "ShiftIR",     high |-> "Exit1IR"],
  Exit1IR        |-> [low |-> "PauseIR",     high |-> "UpdateIR"],
  PauseIR        |-> [low |-> "PauseIR",     high |-> "Exit2IR"],
  Exit2IR        |-> [low |-> "ShiftIR",     high |-> "UpdateIR"],
  UpdateIR       |-> [low |-> "RunTestIdle", high |-> "SelectDR"]]
TapState == DOMAIN Walk

EmptyScan == [len |-> 0, ones |-> {}]
Scan(reg, len, ones) == [reg |-> reg, len |-> len, ones |-> ones]

\* The levels TDO may have: only a shifting TAP drives it.
Tdo == IF tap \in {"ShiftDR", "ShiftIR"}
       THEN {scan.len \in Answer[Len(scans) + 1]} ELSE BOOLEAN

\* A pulse of TCK with these levels of TMS and TDI.
Clock(tms, tdi) ==
  LET next == IF tms THEN Walk[tap].high ELSE Walk[tap].low
  IN  /\ tap' = next
      /\ scan' = CASE tap \in {"CaptureDR", "CaptureIR"} -> EmptyScan
                   [] tap \in {"ShiftDR", "ShiftIR"} ->
                        [len |-> scan.len + 1,
                         ones |-> scan.ones \cup (IF tdi THEN {scan.len} ELSE {})]
                   [] OTHER -> scan
      /\ scans' = CASE next = "UpdateDR" -> Append(scans, Scan("DR", scan.len, scan.ones))
                    [] next = "UpdateIR" -> Append(scans, Scan("IR", scan.len, scan.ones))
                    [] OTHER -> scans
=============================================================================
