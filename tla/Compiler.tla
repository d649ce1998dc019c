------------------------------ MODULE Compiler ------------------------------
(***************************************************************************)
(* The compiler from its input to the LLVM module (main, BIRFileReader::   *)
(* deserialize, CodeGenerator::generateLLVMIR): the constant pool is read, *)
(* then the module, then its code is generated.                            *)
(***************************************************************************)
EXTENDS CodeGen

vars == <<file, phase, poolVars, at, counters, readerVars, codeVars>>

Init == InitPool /\ InitModule /\ InitCode
Next ==
  \/ PoolNext /\ UNCHANGED <<at, counters, readerVars, codeVars>>
  \/ ReaderNext /\ UNCHANGED codeVars
  \/ GenNext

\* The compiler runs on one thread, to its end or until it aborts.
Spec == Init /\ [][Next]_vars
FairSpec == Spec /\ WF_vars(Next)
=============================================================================
