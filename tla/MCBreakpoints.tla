---------------------------- MODULE MCBreakpoints ----------------------------
(***************************************************************************)
(* Two branches that join, with a breakpoint on each; two replicas.        *)
(***************************************************************************)
EXTENDS Breakpoints

TwoBranches == {<<1, 3>>, <<2, 4>>, <<3, 5>>, <<4, 5>>}
==============================================================================
