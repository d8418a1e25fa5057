----------------------------- MODULE AccessMap -----------------------------
(***************************************************************************)
(* What an analysis of an instruction's accesses promises: there is a set  *)
(* of facts due, each saying that a register or a memory location is read  *)
(* or that it is written.  The analysis only ever learns facts that are    *)
(* due, forgets none, and comes to know all of them; it can then be asked  *)
(* about another instruction.  There is no order and no limit.             *)
(***************************************************************************)

VARIABLES due,    \* the facts that hold of the instruction
          known   \* the facts reported so far

mapVars == <<due, known>>

MapInit == known = {}

Learn ==
  /\ known \subseteq known'
  /\ known' \subseteq due
  /\ UNCHANGED due

Ask == known = due /\ known' = {}

MapSpec == MapInit /\ [][Learn \/ Ask]_mapVars /\ []<>(known = due)
=============================================================================
