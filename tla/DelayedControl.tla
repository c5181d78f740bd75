--------------------------- MODULE DelayedControl ---------------------------
(***************************************************************************)
(* What the mixer promises of a set of controls: each period is played with*)
(* settings the user did make, and never goes back to an older one.        *)
(*                                                                         *)
(* A setting is the number of the change that made it.                     *)
(***************************************************************************)
EXTENDS Integers

CONSTANT Knobs      \* the controls

VARIABLES
    setting,        \* the user's setting of each control
    used            \* the setting the last period was played with

controlVars == <<setting, used>>

ControlInit ==
    /\ setting = [k \in Knobs |-> 0]
    /\ used = [k \in Knobs |-> 0]

Turn(k) ==
    /\ setting' = [setting EXCEPT ![k] = @ + 1]
    /\ UNCHANGED used

Catch(k) ==
    /\ \E v \in used[k]..setting[k] : used' = [used EXCEPT ![k] = v]
    /\ UNCHANGED setting

ControlNext == \E k \in Knobs : Turn(k) \/ Catch(k)

ControlSpec == ControlInit /\ [][ControlNext]_controlVars
=============================================================================
