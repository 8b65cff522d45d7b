----------------------------- MODULE MCFrontend -----------------------------
(* A finite instance of Frontend: three fetch blocks with a branch in each *)
(* slot, a JAL, a return and a plain JALR.                                 *)
EXTENDS Frontend, TLC

I(kind, target, ret) == [kind |-> kind, target |-> target, ret |-> ret]
MCProgram ==
  (0 :> I("seq", 0, FALSE)  @@ 2 :> I("branch", 8, FALSE) @@
   4 :> I("branch", 10, FALSE) @@ 6 :> I("jal", 2, FALSE) @@
   8 :> I("jalr", 0, TRUE)  @@ 10 :> I("jalr", 0, FALSE))
=============================================================================
