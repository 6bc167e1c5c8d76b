------------------------------- MODULE Values -------------------------------
(* The values that the runtime computes with: integers, strings and words.  *)
(* A behaviour is a program that uses one kind of them.                     *)
EXTENDS IntegerOps, TextOps, WordOps

IntIdle == x = Small(0) /\ val = 0 /\ steps = MAX_STEPS

ValuesInit == \/ Init /\ TextIdle /\ WordIdle
              \/ IntIdle /\ TextInit /\ WordIdle
              \/ IntIdle /\ TextIdle /\ WordInit
ValuesNext == \/ Next /\ UNCHANGED textVars /\ UNCHANGED wordVars
              \/ TextNext /\ UNCHANGED vars /\ UNCHANGED wordVars
              \/ WordNext /\ UNCHANGED vars /\ UNCHANGED textVars
ValuesSpec == ValuesInit /\ [][ValuesNext]_<<vars, textVars, wordVars>>
=============================================================================
