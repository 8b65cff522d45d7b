------------------------------ MODULE MCTools ------------------------------
(* The program's tools, one at a time; those that do not run stay in one    *)
(* state.  MCTools.cfg checks them all, MCRemap.cfg the trace comparison    *)
(* with a register whose ABI name is not a letter and a digit, MCCsrr.cfg   *)
(* the pseudo instructions with csrr among them.                            *)
EXTENDS Images, SpikeTrace, Reports, PseudoOps

CONSTANT Tools
VARIABLE tool

MCBodies == {<< >>, <<1>>, <<2, 3, 4>>}
MCNop == [i \in 0..3 |-> 9]
MCReadings == {0, 1, Missing}

mvars == <<tool, ivars, svars, rvars, pvars>>

ImagesIdle ==
  /\ hex = << >> /\ end = NoElf /\ idepth = 1 /\ ddepth = 1
  /\ mem = NoBytes /\ imem = << >> /\ dmem = << >> /\ step = "read"
PseudoIdle ==
  asm = I("nop", << >>) /\ rs = 0 /\ rt = 0 /\ csr = 0 /\ converted = << >>
Init ==
  /\ tool \in Tools
  /\ \/ tool = "images" /\ ImagesInit
     \/ tool # "images" /\ ImagesIdle
  /\ LogInit /\ (tool # "trace" => full)
  /\ ReportsInit
  /\ \/ tool = "pseudo" /\ PseudoInit
     \/ tool # "pseudo" /\ PseudoIdle
Next ==
  \/ tool = "images" /\ ImagesNext /\ UNCHANGED <<tool, svars, rvars, pvars>>
  \/ tool = "trace" /\ LogNext /\ UNCHANGED <<tool, ivars, rvars, pvars>>
  \/ tool = "reports" /\ ReportsNext /\ UNCHANGED <<tool, ivars, svars, pvars>>
  \/ tool = "pseudo" /\ PseudoNext /\ UNCHANGED <<tool, ivars, svars, rvars>>
Spec == Init /\ [][Next]_mvars
============================================================================
