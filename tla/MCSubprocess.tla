----------------------------- MODULE MCSubprocess -----------------------------
(***************************************************************************)
(* Subprocess with pipes of two symbols; standard error gets fewer.           *)
(***************************************************************************)
EXTENDS Subprocess

MCMaxData == [p \in Pipe |-> IF p = "out" THEN 3 ELSE 2]
=============================================================================
