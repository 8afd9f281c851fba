--------------------------- MODULE JudgeProtocol ---------------------------
(***************************************************************************)
(* The protocol between client.py and the judge daemon (src/client.py,     *)
(* src/judge.c): requests and answers are single datagrams, while program, *)
(* input and output are files in the TFTP server's directory, which every  *)
(* session shares.  Invocations of client.py follow each other; one that   *)
(* has given up may leave a session behind that is still running when the  *)
(* next one replaces the files.  The transfers themselves are module       *)
(* Tftp's, the running of the program module UserMode's.                   *)
(***************************************************************************)
EXTENDS Integers, Sequences

CONSTANTS
  NumJobs,     \* invocations of client.py
  RetryLimit   \* RETRY_LIMIT

ASSUME JobsAssumption == NumJobs \in Nat /\ RetryLimit \in Nat \ {0}

VARIABLES
  job,        \* the invocation under way, job after job
  pc,         \* where its do_judge is
  attempt,    \* the requests it has sent or is about to send
  seq,        \* the number of the last request, which the code draws at random
  accepted,   \* the answer do_judge has taken
  report,     \* what do_judge returned, for each job
  elf, stdin, \* the files: the job that put them there
  stdout,     \* the file: what run wrote it, and whether all of it is there
  toDaemon,   \* requests under way, in order
  toClient,   \* answers under way, in order
  at,         \* where the daemon is
  req, resp,  \* its request and answer
  run         \* the program and the input it has fetched

clientVars == <<job, pc, attempt, seq, accepted, report, elf, stdin>>
daemonVars == <<at, req, resp, run, stdout>>
net == <<toDaemon, toClient>>
vars == <<clientVars, daemonVars, net>>

Job == 1 .. NumJobs
NoRun == [elf |-> 0, stdin |-> 0]
File(r, whole) == [of |-> r, whole |-> whole]
\* judge_req_t, with the client's port: a socket of its own for every job
Request(j, n) == [from |-> j, seq |-> n]
\* judge_resp_t: the outcome of a run stands for exit code and resource usage
Answer(q, result, error, outcome) ==
  [to |-> q.from, seq |-> q.seq, result |-> result, error |-> error, outcome |-> outcome]
NoRequest == Request(0, 0)
NoAnswer == Answer(NoRequest, FALSE, FALSE, NoRun)
Returned(a, output) == [returned |-> TRUE, error |-> a.error, outcome |-> a.outcome, stdout |-> output]
NotReturned == [returned |-> FALSE, error |-> FALSE, outcome |-> NoRun, stdout |-> File(NoRun, TRUE)]

Init ==
  /\ job = 1 /\ pc = "elf" /\ attempt = 1 /\ seq = 0 /\ accepted = NoAnswer
  /\ report = [j \in Job |-> NotReturned]
  /\ elf = 0 /\ stdin = 0 /\ stdout = File(NoRun, TRUE)
  /\ toDaemon = << >> /\ toClient = << >>
  /\ at = "listen" /\ req = NoRequest /\ resp = NoAnswer /\ run = NoRun

-----------------------------------------------------------------------------
(* client.py *)

CopyElf ==
  /\ job \in Job /\ pc = "elf"
  /\ elf' = job /\ pc' = "stdin"
  /\ UNCHANGED <<job, attempt, seq, accepted, report, stdin, daemonVars, net>>
CopyStdin ==
  /\ pc = "stdin"
  /\ stdin' = job /\ pc' = "send"
  /\ UNCHANGED <<job, attempt, seq, accepted, report, elf, daemonVars, net>>

SendRequest ==
  /\ pc = "send"
  /\ seq' = seq + 1 /\ toDaemon' = Append(toDaemon, Request(job, seq'))
  /\ pc' = "ack"
  /\ UNCHANGED <<job, attempt, accepted, report, elf, stdin, daemonVars, toClient>>

BadMine(m) == m.to = job
\* Each invocation listens on its own port, and compares numbers.
Mine(m) == m.to = job /\ m.seq = seq

Receive == toClient # << >> /\ toClient' = Tail(toClient)

\* recv cuts what it gets to the length of an acknowledgement, so a result
\* passes for one.
ReceiveAck ==
  /\ pc = "ack" /\ Receive
  /\ pc' = IF Mine(Head(toClient)) THEN "result" ELSE pc
  /\ UNCHANGED <<job, attempt, seq, accepted, report, elf, stdin, daemonVars, toDaemon>>
ReceiveResult ==
  /\ pc = "result" /\ Receive
  /\ LET m == Head(toClient)
     IN  IF Mine(m) /\ m.result
         THEN pc' = "stdout" /\ accepted' = m
         ELSE UNCHANGED <<pc, accepted>>
  /\ UNCHANGED <<job, attempt, seq, report, elf, stdin, daemonVars, toDaemon>>

NextJob == job' = job + 1 /\ pc' = "elf" /\ attempt' = 1

\* Either wait may time out, at any time.
ReceiveTimeout ==
  /\ pc \in {"ack", "result"}
  /\ IF attempt < RetryLimit
     THEN attempt' = attempt + 1 /\ pc' = "send" /\ UNCHANGED job
     ELSE NextJob
  /\ UNCHANGED <<seq, accepted, report, elf, stdin, daemonVars, net>>

\* The result's error is not looked at.
ReadStdout ==
  /\ pc = "stdout"
  /\ report' = [report EXCEPT ![job] = Returned(accepted, stdout)]
  /\ NextJob
  /\ UNCHANGED <<seq, accepted, elf, stdin, daemonVars, net>>

-----------------------------------------------------------------------------
(* The judge daemon. *)

Answering(a) == toClient' = Append(toClient, a)

\* A request is taken only while the daemon listens, and acknowledged at once.
TakeRequest ==
  /\ at = "listen" /\ toDaemon # << >>
  /\ req' = Head(toDaemon) /\ toDaemon' = Tail(toDaemon)
  /\ resp' = Answer(req', FALSE, FALSE, NoRun) /\ Answering(resp')
  /\ at' = "elf"
  /\ UNCHANGED <<clientVars, run, stdout>>

FetchElf ==
  /\ at = "elf"
  /\ run' = [run EXCEPT !.elf = elf] /\ at' = "stdin"
  /\ UNCHANGED <<clientVars, req, resp, stdout, net>>
FetchStdin ==
  /\ at = "stdin"
  /\ run' = [run EXCEPT !.stdin = stdin] /\ at' = "run"
  /\ UNCHANGED <<clientVars, req, resp, stdout, net>>
RunProgram ==
  /\ at = "run"
  /\ resp' = [resp EXCEPT !.outcome = run] /\ at' = "upload"
  /\ UNCHANGED <<clientVars, req, run, stdout, net>>
BeginUpload ==
  /\ at = "upload"
  /\ stdout' = File(run, FALSE) /\ at' = "uploading"
  /\ UNCHANGED <<clientVars, req, resp, run, net>>
EndUpload ==
  /\ at = "uploading"
  /\ stdout' = File(run, TRUE) /\ at' = "reply"
  /\ UNCHANGED <<clientVars, req, resp, run, net>>

\* Every step of do_judge but the program itself may fail: the rest is left out.
SessionFails ==
  /\ at \in {"elf", "stdin", "upload", "uploading"}
  /\ resp' = [resp EXCEPT !.error = TRUE] /\ at' = "reply"
  /\ UNCHANGED <<clientVars, req, run, stdout, net>>

BadReply ==
  /\ at = "upload"
  /\ Answering([resp EXCEPT !.result = TRUE])
  /\ at' = "uploading" /\ stdout' = File(run, FALSE)
  /\ UNCHANGED <<clientVars, req, resp, run, toDaemon>>
Reply ==
  /\ at = "reply"
  /\ resp' = [resp EXCEPT !.result = TRUE] /\ Answering(resp')
  /\ at' = "listen"
  /\ UNCHANGED <<clientVars, req, run, stdout, toDaemon>>

-----------------------------------------------------------------------------
(* The network loses datagrams; iptask drops those nobody listens for. *)

LoseRequest ==
  /\ toDaemon # << >> /\ toDaemon' = Tail(toDaemon)
  /\ UNCHANGED <<clientVars, daemonVars, toClient>>
LoseAnswer ==
  /\ toClient # << >> /\ toClient' = Tail(toClient)
  /\ UNCHANGED <<clientVars, daemonVars, toDaemon>>

Next ==
  \/ CopyElf \/ CopyStdin \/ SendRequest \/ ReceiveAck \/ ReceiveResult \/ ReceiveTimeout
  \/ ReadStdout
  \/ TakeRequest \/ FetchElf \/ FetchStdin \/ RunProgram \/ BeginUpload \/ EndUpload
  \/ SessionFails \/ Reply
  \/ LoseRequest \/ LoseAnswer

Spec == Init /\ [][Next]_vars

-----------------------------------------------------------------------------
(* Properties. *)

Run == [elf : 0 .. NumJobs, stdin : 0 .. NumJobs]
Output == [of : Run, whole : BOOLEAN]
Requests == [from : 0 .. NumJobs, seq : Nat]
Answers == [to : 0 .. NumJobs, seq : Nat, result : BOOLEAN, error : BOOLEAN, outcome : Run]

\* Every variable keeps its type.
TypeOK ==
  /\ job \in 1 .. NumJobs + 1
  /\ pc \in {"elf", "stdin", "send", "ack", "result", "stdout"}
  /\ pc # "elf" => job \in Job
  /\ attempt \in 1 .. RetryLimit
  /\ seq \in Nat
  /\ accepted \in Answers
  /\ report \in [Job -> [returned : BOOLEAN, error : BOOLEAN, outcome : Run, stdout : Output]]
  /\ elf \in 0 .. NumJobs /\ stdin \in 0 .. NumJobs /\ stdout \in Output
  /\ toDaemon \in Seq(Requests) /\ toClient \in Seq(Answers)
  /\ at \in {"listen", "elf", "stdin", "run", "upload", "uploading", "reply"}
  /\ req \in Requests /\ resp \in Answers
  /\ run \in Run

\* While the client reads the output of an accepted result, no session is
\* running and none can start: nothing writes the file under its hands, although
\* it may have sent several requests.
QuietWhileRead == pc = "stdout" => at = "listen" /\ toDaemon = << >>

\* A job that is told of a success is told of its own: the outcome is that of its
\* program on its input, and the output is all that this run wrote.
ReportIsOwn ==
  \A j \in Job : report[j].returned /\ ~ report[j].error =>
    LET own == [elf |-> j, stdin |-> j]
    IN  report[j].outcome = own /\ report[j].stdout = File(own, TRUE)

\* client.py tells "Failed." from a result (client.py:97-103): what it reports as
\* a result should be one of a session that did not fail.
FailureNotReported == \A j \in Job : report[j].returned => ~ report[j].error
=============================================================================
