--------------------------- MODULE MCControlWorker ---------------------------
(***************************************************************************)
(* Instances of ControlWorker for TLC: one or two requests, one of several *)
(* chunks in all scenarios but Ending, and a request id that wraps after   *)
(* one or two transactions, so that it is used again at once.              *)
(***************************************************************************)
EXTENDS ControlService, TLC

CONSTANTS r1, r2

Scenario(kind, units, concatenation, data_size_max, retries, max_id, odd_answers, stops, errors) ==
  [kind |-> kind, units |-> units, concatenation |-> concatenation, data_size_max |-> data_size_max,
   retries |-> retries, max_id |-> max_id, odd_answers |-> odd_answers, owner_stops |-> stops, send_errors |-> errors]

\* A register read and a memory write of two chunks each.
Transactions ==
  Scenario(r1 :> "ReadRegs" @@ r2 :> "WriteMem", r1 :> 2 @@ r2 :> 2, FALSE, 1, 1, 2, {}, FALSE, FALSE)

\* A memory read that may be answered wrongly, or with too little or too much.
Answers == Scenario(r1 :> "ReadMem", r1 :> 3, TRUE, 2, 0, 2, {"wrong", "empty", "length"}, FALSE, FALSE)

\* A memory write of two chunks, the second shorter, that may be refused.
Writes == Scenario(r1 :> "WriteMem", r1 :> 3, TRUE, 2, 1, 1, {"nak"}, FALSE, FALSE)

\* Two requests of a single transaction; the owner stops the worker.
Ending == Scenario(r1 :> "ReadReg" @@ r2 :> "WriteRegs", r1 :> 1 @@ r2 :> 1, FALSE, 1, 0, 1, {}, TRUE, FALSE)

\* One read of two chunks, over a socket that may refuse datagrams.
Refused == Scenario(r1 :> "ReadRegs", r1 :> 2, FALSE, 1, 1, 1, {}, TRUE, TRUE)

\* The same over one that does not; nobody stops the worker.
OneRead == Scenario(r1 :> "ReadRegs", r1 :> 2, FALSE, 1, 1, 2, {}, FALSE, FALSE)

SafetyScenarios == {Transactions, Answers, Writes, Ending, Refused}
LivenessScenarios == {OneRead, Refused}
=============================================================================
