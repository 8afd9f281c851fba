-------------------------- MODULE MCJudgeProtocol --------------------------
(* Model checking of JudgeProtocol: two invocations of client.py, the second of
   which may meet a session that the first has given up. *)
EXTENDS JudgeProtocol
=============================================================================
