------------------------------ MODULE MCRuntime ------------------------------
(***************************************************************************)
(* A small instance of Runtime for TLC.                                    *)
(***************************************************************************)
EXTENDS Runtime

\* A second open after one that failed or raced a close, more uses than
\* connections, and a close that meets another.
MCMaxCalls == [op \in Operations |-> IF op = "use" THEN 3 ELSE 2]
=============================================================================
