------------------------- MODULE JudgeProtocolProofs -------------------------
(***************************************************************************)
(* Proofs about JudgeProtocol: for any number of jobs and retries, nothing *)
(* writes the output while the client reads it, and a success that is      *)
(* reported is the job's own.  The argument is the order of requests: what *)
(* is under way to the daemon is younger than the request it works on,     *)
(* what is under way to the client is not younger, and neither is younger  *)
(* than the client's last request.  So an answer with that number leaves   *)
(* nothing under way, and a daemon that is done.                           *)
(***************************************************************************)
EXTENDS JudgeProtocol, TLAPS

Own == [elf |-> job, stdin |-> job]

\* Numbers and senders grow along the way from the client to the daemon.
RequestsOrdered ==
  /\ req.seq <= seq /\ req.from <= job
  /\ \A i \in 1 .. Len(toDaemon) :
       /\ req.seq < toDaemon[i].seq /\ toDaemon[i].seq <= seq
       /\ toDaemon[i].from <= job
  /\ \A i, k \in 1 .. Len(toDaemon) : i < k => toDaemon[i].seq < toDaemon[k].seq

\* Answers are the current request's or older; one that carries the current
\* result is the daemon's last word.
AnswersOrdered ==
  /\ resp.seq = req.seq /\ resp.to = req.from
  /\ \A i \in 1 .. Len(toClient) :
       /\ toClient[i].seq <= req.seq
       /\ toClient[i].result /\ toClient[i].seq = req.seq => at = "listen" /\ toClient[i] = resp

\* A job's requests come after its files, which stay as they are until its end.
FilesFirst ==
  /\ pc # "elf" => elf = job
  /\ pc \notin {"elf", "stdin"} => stdin = job
  /\ pc \in {"elf", "stdin"} =>
       req.from # job /\ \A i \in 1 .. Len(toDaemon) : toDaemon[i].from # job

\* A session of the current job has fetched the files of this job, and leaves its
\* output behind if it does not fail.
SessionOwn ==
  req.from = job =>
    /\ at = "stdin" => run.elf = job
    /\ at \in {"run", "upload", "uploading"} => run = Own
    /\ at \in {"upload", "uploading"} => resp.outcome = Own
    /\ at \in {"reply", "listen"} /\ ~ resp.error =>
         resp.outcome = Own /\ stdout = File(Own, TRUE)

\* What the client has accepted is the daemon's last word.
AcceptedLast ==
  pc = "stdout" =>
    at = "listen" /\ toDaemon = << >> /\ accepted = resp /\ resp.to = job

\* With the types, the inductive invariant.
Ordered ==
  /\ RequestsOrdered /\ AnswersOrdered
  /\ FilesFirst /\ SessionOwn /\ AcceptedLast
  /\ ReportIsOwn

-----------------------------------------------------------------------------
(* Types. *)

LEMMA AnswerType ==
  ASSUME NEW q \in Requests, NEW r \in BOOLEAN, NEW e \in BOOLEAN, NEW o \in Run
  PROVE  Answer(q, r, e, o) \in Answers
BY DEF Answer, Answers, Requests

LEMMA TypeInit == Init => TypeOK
BY JobsAssumption DEF Init, TypeOK, Job, NoRun, NoAnswer, NoRequest, NotReturned, File, Request,
  Answer, Run, Output, Requests, Answers

LEMMA TypeStep == TypeOK /\ [Next]_vars => TypeOK'
<1> SUFFICES ASSUME TypeOK, [Next]_vars PROVE TypeOK'
  OBVIOUS
<1> USE JobsAssumption DEF TypeOK, Job, clientVars, daemonVars, net
<1>1. CASE CopyElf
  BY <1>1 DEF CopyElf
<1>2. CASE CopyStdin
  BY <1>2 DEF CopyStdin
<1>3. CASE SendRequest
  <2>1. Request(job, seq') \in Requests
    BY <1>3 DEF SendRequest, Request, Requests
  <2> QED BY <1>3, <2>1 DEF SendRequest
<1>4. CASE ReceiveAck
  BY <1>4 DEF ReceiveAck, Receive
<1>5. CASE ReceiveResult
  BY <1>5 DEF ReceiveResult, Receive
<1>6. CASE ReceiveTimeout
  BY <1>6 DEF ReceiveTimeout, NextJob
<1>7. CASE ReadStdout
  <2>1. Returned(accepted, stdout) \in
          [returned : BOOLEAN, error : BOOLEAN, outcome : Run, stdout : Output]
    BY DEF Returned, Answers
  <2> QED BY <1>7, <2>1 DEF ReadStdout, NextJob
<1>8. CASE TakeRequest
  <2>1. req' \in Requests /\ toDaemon' \in Seq(Requests)
    BY <1>8 DEF TakeRequest
  <2>2. NoRun \in Run
    BY DEF NoRun, Run
  <2>3. resp' \in Answers
    <3>1. resp' = Answer(req', FALSE, FALSE, NoRun)
      BY <1>8 DEF TakeRequest
    <3> HIDE DEF TypeOK
    <3> QED BY <2>1, <2>2, <3>1, AnswerType
  <2>4. toClient' = Append(toClient, resp')
    BY <1>8 DEF TakeRequest, Answering
  <2>5. toClient' \in Seq(Answers)
    BY <2>3, <2>4
  <2> QED BY <1>8, <2>1, <2>3, <2>5 DEF TakeRequest
<1>9. CASE FetchElf
  BY <1>9 DEF FetchElf, Run
<1>10. CASE FetchStdin
  BY <1>10 DEF FetchStdin, Run
<1>11. CASE RunProgram
  BY <1>11 DEF RunProgram, Answers
<1>12. CASE BeginUpload
  BY <1>12 DEF BeginUpload, File, Output
<1>13. CASE EndUpload
  BY <1>13 DEF EndUpload, File, Output
<1>14. CASE SessionFails
  BY <1>14 DEF SessionFails, Answers
<1>15. CASE Reply
  <2>1. resp' \in Answers
    BY <1>15 DEF Reply, Answers
  <2> QED BY <1>15, <2>1 DEF Reply, Answering
<1>16. CASE LoseRequest
  BY <1>16 DEF LoseRequest
<1>17. CASE LoseAnswer
  BY <1>17 DEF LoseAnswer
<1>18. CASE UNCHANGED vars
  BY <1>18 DEF vars
<1> QED
  BY <1>1, <1>2, <1>3, <1>4, <1>5, <1>6, <1>7, <1>8, <1>9, <1>10, <1>11, <1>12, <1>13, <1>14,
     <1>15, <1>16, <1>17, <1>18 DEF Next

\* Every variable of the protocol keeps its type.
THEOREM TypeCorrect == Spec => []TypeOK
  BY TypeInit, TypeStep, PTL DEF Spec

-----------------------------------------------------------------------------
(* The order of requests, and what the client may conclude from it. *)

LEMMA OrderedInit == Init => Ordered
BY JobsAssumption DEF Init, Ordered, RequestsOrdered, AnswersOrdered, FilesFirst, SessionOwn,
  AcceptedLast, ReportIsOwn, Own, Job, NoRun, NoAnswer, NoRequest, NotReturned, File, Request,
  Answer

\* What is left of a sequence, and what is added to it.
LEMMA TailOf ==
  ASSUME NEW S, NEW s \in Seq(S), s # << >>
  PROVE  /\ Tail(s) \in Seq(S) /\ Len(Tail(s)) = Len(s) - 1 /\ Len(s) \in Nat /\ Len(s) > 0
         /\ Head(s) = s[1] /\ Head(s) \in S
         /\ \A i \in 1 .. Len(Tail(s)) : Tail(s)[i] = s[i + 1] /\ i + 1 \in 1 .. Len(s)
OBVIOUS

LEMMA AppendOf ==
  ASSUME NEW S, NEW s \in Seq(S), NEW x \in S
  PROVE  /\ Append(s, x) \in Seq(S) /\ Len(Append(s, x)) = Len(s) + 1 /\ Len(s) \in Nat
         /\ \A i \in 1 .. Len(s) : Append(s, x)[i] = s[i]
         /\ Append(s, x)[Len(s) + 1] = x
OBVIOUS

\* Another job leaves the requests in their order.
LEMMA JobGrows ==
  ASSUME RequestsOrdered, TypeOK, job' \in Nat, job <= job', UNCHANGED <<req, seq, toDaemon>>
  PROVE  RequestsOrdered'
<1>1. req.from \in Nat /\ job \in Nat
  BY DEF TypeOK, Requests
<1>2. req'.seq <= seq' /\ req'.from <= job'
  BY <1>1 DEF RequestsOrdered
<1>3. ASSUME NEW i \in 1 .. Len(toDaemon)
      PROVE  toDaemon[i].from <= job' /\ req.seq < toDaemon[i].seq /\ toDaemon[i].seq <= seq
  <2>1. toDaemon[i].from \in Nat
    <3>1. toDaemon \in Seq(Requests)
      BY DEF TypeOK
    <3>2. toDaemon[i] \in Requests
      BY <3>1
    <3>3. \A q \in Requests : q.from \in Nat
      BY JobsAssumption DEF Requests
    <3> QED BY <3>2, <3>3
  <2>2. toDaemon[i].from <= job /\ req.seq < toDaemon[i].seq /\ toDaemon[i].seq <= seq
    BY DEF RequestsOrdered
  <2> QED BY <1>1, <2>1, <2>2
<1> QED BY <1>2, <1>3 DEF RequestsOrdered

LEMMA OrderedStep == TypeOK /\ Ordered /\ TypeOK' /\ [Next]_vars => Ordered'
<1> SUFFICES ASSUME TypeOK, Ordered, TypeOK', [Next]_vars PROVE Ordered'
  OBVIOUS
<1> USE JobsAssumption DEF clientVars, daemonVars, net
<1>o. RequestsOrdered /\ AnswersOrdered /\ FilesFirst /\ SessionOwn /\ AcceptedLast /\ ReportIsOwn
  BY DEF Ordered
<1>t. /\ job \in Nat /\ seq \in Nat /\ req \in Requests
      /\ toDaemon \in Seq(Requests) /\ toClient \in Seq(Answers)
  BY DEF TypeOK
<1>q. \A q \in Requests : q.seq \in Nat /\ q.from \in Nat
  BY DEF Requests
<1>a. \A a \in Answers : a.seq \in Nat /\ a.to \in Nat
  BY DEF Answers
<1>d. \A i \in 1 .. Len(toDaemon) : toDaemon[i] \in Requests
  BY <1>t
<1>c. \A i \in 1 .. Len(toClient) : toClient[i] \in Answers
  BY <1>t
<1>1. CASE CopyElf
  <2>3. FilesFirst'
    BY <1>1, <1>o, <1>t DEF CopyElf, FilesFirst
  <2>5. AcceptedLast'
    BY <1>1, <1>o, <1>t DEF CopyElf, AcceptedLast
  <2>u. RequestsOrdered' /\ AnswersOrdered' /\ SessionOwn' /\ ReportIsOwn'
    BY <1>1, <1>o DEF CopyElf, RequestsOrdered, AnswersOrdered, SessionOwn, ReportIsOwn, Own
  <2> QED BY <2>3, <2>5, <2>u DEF Ordered
<1>2. CASE CopyStdin
  <2>3. FilesFirst'
    BY <1>2, <1>o, <1>t DEF CopyStdin, FilesFirst
  <2>5. AcceptedLast'
    BY <1>2, <1>o, <1>t DEF CopyStdin, AcceptedLast
  <2>u. RequestsOrdered' /\ AnswersOrdered' /\ SessionOwn' /\ ReportIsOwn'
    BY <1>2, <1>o DEF CopyStdin, RequestsOrdered, AnswersOrdered, SessionOwn, ReportIsOwn, Own
  <2> QED BY <2>3, <2>5, <2>u DEF Ordered
<1>3. CASE SendRequest
  <2>1. RequestsOrdered'
    <3>1. Request(job, seq') \in Requests /\ Request(job, seq').seq = seq + 1 /\ Request(job, seq').from = job
      BY <1>3 DEF SendRequest, Request, Requests, TypeOK, Job
    <3>2. /\ Len(toDaemon') = Len(toDaemon) + 1 /\ Len(toDaemon) \in Nat
          /\ \A i \in 1 .. Len(toDaemon) : toDaemon'[i] = toDaemon[i]
          /\ toDaemon'[Len(toDaemon) + 1] = Request(job, seq')
      BY <1>3, <1>t, <3>1, AppendOf DEF SendRequest
    <3>3. seq' = seq + 1 /\ UNCHANGED <<req, job>>
      BY <1>3 DEF SendRequest
    <3>4. \A i \in 1 .. Len(toDaemon') : i \in 1 .. Len(toDaemon) \/ i = Len(toDaemon) + 1
      BY <3>2
    <3>5. \A i \in 1 .. Len(toDaemon) :
            toDaemon'[i].seq <= seq /\ req.seq < toDaemon'[i].seq /\ toDaemon'[i].from <= job
      BY <3>2, <1>o DEF RequestsOrdered
    <3>6. req.seq <= seq /\ req.from <= job /\ req.seq \in Nat
      BY <1>o, <1>t, <1>q DEF RequestsOrdered
    <3>7. \A i \in 1 .. Len(toDaemon) : toDaemon'[i].seq \in Nat
      BY <3>2, <1>q, <1>d
    <3>8. ASSUME NEW i \in 1 .. Len(toDaemon') PROVE
            req'.seq < toDaemon'[i].seq /\ toDaemon'[i].seq <= seq' /\ toDaemon'[i].from <= job'
      <4>1. CASE i \in 1 .. Len(toDaemon)
        BY <4>1, <3>3, <3>5, <3>7, <1>t
      <4>2. CASE i = Len(toDaemon) + 1
        BY <4>2, <3>1, <3>2, <3>3, <3>6, <1>t
      <4> QED BY <3>4, <4>1, <4>2
    <3>9. ASSUME NEW i \in 1 .. Len(toDaemon'), NEW k \in 1 .. Len(toDaemon'), i < k
          PROVE  toDaemon'[i].seq < toDaemon'[k].seq
      <4>1. i \in 1 .. Len(toDaemon)
        BY <3>2, <3>9
      <4>2. CASE k \in 1 .. Len(toDaemon)
        BY <3>2, <3>9, <4>1, <4>2, <1>o DEF RequestsOrdered
      <4>3. CASE k = Len(toDaemon) + 1
        BY <3>1, <3>2, <3>5, <3>7, <4>1, <4>3, <1>t
      <4> QED BY <3>4, <4>2, <4>3
    <3>10. req'.seq <= seq' /\ req'.from <= job'
      BY <3>3, <3>6, <1>t
    <3> QED BY <3>8, <3>9, <3>10 DEF RequestsOrdered
  <2>3. FilesFirst'
    BY <1>3, <1>o, <1>t DEF SendRequest, FilesFirst
  <2>5. AcceptedLast'
    BY <1>3, <1>o, <1>t DEF SendRequest, AcceptedLast
  <2>u. AnswersOrdered' /\ SessionOwn' /\ ReportIsOwn'
    BY <1>3, <1>o DEF SendRequest, AnswersOrdered, SessionOwn, ReportIsOwn, Own
  <2> QED BY <2>1, <2>3, <2>5, <2>u DEF Ordered
<1>4. CASE ReceiveAck
  <2>2. AnswersOrdered'
    <3>1. /\ Len(toClient) \in Nat /\ Len(toClient') = Len(toClient) - 1
          /\ \A i \in 1 .. Len(toClient') : toClient'[i] = toClient[i + 1] /\ i + 1 \in 1 .. Len(toClient)
          /\ UNCHANGED <<req, resp, at>>
      BY <1>4, <1>t, TailOf DEF ReceiveAck, Receive
    <3> QED BY <3>1, <1>o DEF AnswersOrdered
  <2>3. FilesFirst'
    BY <1>4, <1>o, <1>t DEF ReceiveAck, FilesFirst
  <2>5. AcceptedLast'
    BY <1>4, <1>o, <1>t DEF ReceiveAck, AcceptedLast
  <2>u. RequestsOrdered' /\ SessionOwn' /\ ReportIsOwn'
    BY <1>4, <1>o DEF ReceiveAck, RequestsOrdered, SessionOwn, ReportIsOwn, Own
  <2> QED BY <2>2, <2>3, <2>5, <2>u DEF Ordered
<1>5. CASE ReceiveResult
  <2>2. AnswersOrdered'
    <3>1. /\ Len(toClient) \in Nat /\ Len(toClient') = Len(toClient) - 1
          /\ \A i \in 1 .. Len(toClient') : toClient'[i] = toClient[i + 1] /\ i + 1 \in 1 .. Len(toClient)
          /\ UNCHANGED <<req, resp, at>>
      BY <1>5, <1>t, TailOf DEF ReceiveResult, Receive
    <3> QED BY <3>1, <1>o DEF AnswersOrdered
  <2>3. FilesFirst'
    BY <1>5, <1>o, <1>t DEF ReceiveResult, FilesFirst
  <2>5. AcceptedLast'
    <3>1. CASE pc' = "stdout"
      <4>1. /\ Mine(toClient[1]) /\ toClient[1].result /\ accepted' = toClient[1]
            /\ Len(toClient) > 0 /\ Len(toClient) \in Nat
            /\ UNCHANGED <<at, toDaemon, resp, job>>
        BY <1>5, <1>t, <3>1, TailOf DEF ReceiveResult, Receive
      <4>2. toClient[1].seq = seq /\ toClient[1].to = job /\ req.seq = seq
        BY <4>1, <1>o, <1>t, <1>q, <1>a, <1>c DEF Mine, AnswersOrdered, RequestsOrdered
      <4>3. at = "listen" /\ toClient[1] = resp
        BY <4>1, <4>2, <1>o DEF AnswersOrdered
      <4>4. Len(toDaemon) = 0
        BY <4>2, <1>o, <1>t, <1>q, <1>d DEF RequestsOrdered
      <4> QED BY <4>1, <4>2, <4>3, <4>4, <1>t DEF AcceptedLast
    <3>2. CASE pc' # "stdout"
      BY <3>2 DEF AcceptedLast
    <3> QED BY <3>1, <3>2
  <2>u. RequestsOrdered' /\ SessionOwn' /\ ReportIsOwn'
    BY <1>5, <1>o DEF ReceiveResult, RequestsOrdered, SessionOwn, ReportIsOwn, Own
  <2> QED BY <2>2, <2>3, <2>5, <2>u DEF Ordered
<1>6. CASE ReceiveTimeout
  <2>1. RequestsOrdered'
    <3>1. UNCHANGED <<req, seq, toDaemon>> /\ (job' = job \/ job' = job + 1)
      BY <1>6 DEF ReceiveTimeout, NextJob
    <3>2. job' \in Nat /\ job <= job'
      BY <1>t, <3>1
    <3> QED BY <1>o, <3>1, <3>2, JobGrows
  <2>3. FilesFirst'
    <3>1. /\ req.from # job + 1 /\ \A i \in 1 .. Len(toDaemon) : toDaemon[i].from # job + 1
          /\ job + 1 # job
      BY <1>o, <1>t, <1>q, <1>d DEF RequestsOrdered
    <3> QED BY <1>6, <1>o, <3>1 DEF ReceiveTimeout, FilesFirst, NextJob
  <2>4. SessionOwn'
    <3>1. /\ req.from # job + 1 /\ \A i \in 1 .. Len(toDaemon) : toDaemon[i].from # job + 1
          /\ job + 1 # job
      BY <1>o, <1>t, <1>q, <1>d DEF RequestsOrdered
    <3> QED BY <1>6, <1>o, <3>1 DEF ReceiveTimeout, SessionOwn, Own, NextJob
  <2>5. AcceptedLast'
    BY <1>6, <1>o, <1>t, <1>q, <1>d DEF ReceiveTimeout, AcceptedLast, NextJob
  <2>u. AnswersOrdered' /\ ReportIsOwn'
    BY <1>6, <1>o DEF ReceiveTimeout, AnswersOrdered, ReportIsOwn
  <2> QED BY <2>1, <2>3, <2>4, <2>5, <2>u DEF Ordered
<1>7. CASE ReadStdout
  <2>1. RequestsOrdered'
    <3>1. UNCHANGED <<req, seq, toDaemon>> /\ (job' = job \/ job' = job + 1)
      BY <1>7 DEF ReadStdout, NextJob
    <3>2. job' \in Nat /\ job <= job'
      BY <1>t, <3>1
    <3> QED BY <1>o, <3>1, <3>2, JobGrows
  <2>3. FilesFirst'
    <3>1. /\ req.from # job + 1 /\ \A i \in 1 .. Len(toDaemon) : toDaemon[i].from # job + 1
          /\ job + 1 # job
      BY <1>o, <1>t, <1>q, <1>d DEF RequestsOrdered
    <3> QED BY <1>7, <1>o, <3>1 DEF ReadStdout, FilesFirst, NextJob
  <2>4. SessionOwn'
    <3>1. /\ req.from # job + 1 /\ \A i \in 1 .. Len(toDaemon) : toDaemon[i].from # job + 1
          /\ job + 1 # job
      BY <1>o, <1>t, <1>q, <1>d DEF RequestsOrdered
    <3> QED BY <1>7, <1>o, <3>1 DEF ReadStdout, SessionOwn, Own, NextJob
  <2>5. AcceptedLast'
    BY <1>7, <1>o, <1>t, <1>q, <1>d DEF ReadStdout, AcceptedLast, NextJob
  <2>6. ReportIsOwn'
    <3>1. report' = [report EXCEPT ![job] = Returned(accepted, stdout)] /\ pc = "stdout"
      BY <1>7 DEF ReadStdout
    <3>2. ~ accepted.error => accepted.outcome = Own /\ stdout = File(Own, TRUE)
      BY <1>o, <3>1 DEF AcceptedLast, SessionOwn, AnswersOrdered
    <3>3. /\ job \in Job
          /\ report \in [Job -> [returned : BOOLEAN, error : BOOLEAN, outcome : Run, stdout : Output]]
      BY <3>1 DEF TypeOK
    <3>4. /\ report'[job] = Returned(accepted, stdout)
          /\ \A j \in Job \ {job} : report'[j] = report[j]
      BY <3>1, <3>3
    <3>5. ASSUME NEW j \in Job, report'[j].returned, ~ report'[j].error
          PROVE  LET own == [elf |-> j, stdin |-> j]
                 IN  report'[j].outcome = own /\ report'[j].stdout = File(own, TRUE)
      <4>1. CASE j = job
        <5>1. /\ report'[j].error = accepted.error /\ report'[j].outcome = accepted.outcome
              /\ report'[j].stdout = stdout
          BY <4>1, <3>4 DEF Returned
        <5>2. Own = [elf |-> j, stdin |-> j]
          BY <4>1 DEF Own
        <5> QED BY <5>1, <5>2, <3>2, <3>5
      <4>2. CASE j # job
        BY <4>2, <3>4, <3>5, <1>o DEF ReportIsOwn
      <4> QED BY <4>1, <4>2
    <3> QED BY <3>5 DEF ReportIsOwn
  <2>u. AnswersOrdered'
    BY <1>7, <1>o DEF ReadStdout, AnswersOrdered
  <2> QED BY <2>1, <2>3, <2>4, <2>5, <2>6, <2>u DEF Ordered
<1>8. CASE TakeRequest
  <2>0. /\ req' = toDaemon[1] /\ req' \in Requests /\ Len(toDaemon) \in Nat /\ Len(toDaemon) > 0
        /\ Len(toDaemon') = Len(toDaemon) - 1
        /\ \A i \in 1 .. Len(toDaemon') : toDaemon'[i] = toDaemon[i + 1] /\ i + 1 \in 1 .. Len(toDaemon)
        /\ UNCHANGED <<seq, job, pc>>
    BY <1>8, <1>t, TailOf DEF TakeRequest
  <2>1. RequestsOrdered'
    <3>1. 1 \in 1 .. Len(toDaemon) /\ req'.seq <= seq' /\ req'.from <= job'
      BY <2>0, <1>o DEF RequestsOrdered
    <3>2. \A i \in 1 .. Len(toDaemon') : toDaemon'[i].seq <= seq' /\ toDaemon'[i].from <= job'
      BY <2>0, <1>o DEF RequestsOrdered
    <3>3. ASSUME NEW i \in 1 .. Len(toDaemon') PROVE req'.seq < toDaemon'[i].seq
      <4>1. 1 < i + 1 /\ i + 1 \in 1 .. Len(toDaemon) /\ toDaemon'[i] = toDaemon[i + 1]
        BY <2>0
      <4> QED BY <2>0, <3>1, <4>1, <1>o DEF RequestsOrdered
    <3>4. ASSUME NEW i \in 1 .. Len(toDaemon'), NEW k \in 1 .. Len(toDaemon'), i < k
          PROVE  toDaemon'[i].seq < toDaemon'[k].seq
      <4>1. i + 1 < k + 1 /\ toDaemon'[i] = toDaemon[i + 1] /\ toDaemon'[k] = toDaemon[k + 1]
        BY <2>0, <3>4
      <4> QED BY <2>0, <4>1, <1>o DEF RequestsOrdered
    <3> QED BY <3>1, <3>2, <3>3, <3>4 DEF RequestsOrdered
  <2>2. AnswersOrdered'
    <3>1. resp' = Answer(req', FALSE, FALSE, NoRun)
      BY <1>8 DEF TakeRequest
    <3>2. resp'.seq = req'.seq /\ resp'.to = req'.from /\ resp'.result = FALSE
      BY <3>1 DEF Answer
    <3>3. resp' \in Answers
      BY DEF TypeOK
    <3>4. toClient' = Append(toClient, resp')
      BY <1>8 DEF TakeRequest, Answering
    <3>5. /\ Len(toClient') = Len(toClient) + 1 /\ Len(toClient) \in Nat
          /\ \A i \in 1 .. Len(toClient) : toClient'[i] = toClient[i]
          /\ toClient'[Len(toClient) + 1] = resp'
      BY <1>t, <3>3, <3>4, AppendOf
    <3>6. req.seq < req'.seq
      BY <1>o, <2>0 DEF RequestsOrdered
    <3>7. ASSUME NEW i \in 1 .. Len(toClient')
          PROVE  /\ toClient'[i].seq <= req'.seq
                 /\ toClient'[i].result => toClient'[i].seq # req'.seq
      <4>1. CASE i \in 1 .. Len(toClient)
        <5>1. toClient'[i] = toClient[i] /\ toClient[i] \in Answers /\ toClient[i].seq <= req.seq
          BY <4>1, <3>5, <1>c, <1>o DEF AnswersOrdered
        <5> QED BY <5>1, <3>6, <2>0, <1>q, <1>t, <1>a
      <4>2. CASE i = Len(toClient) + 1
        BY <4>2, <3>2, <3>5, <2>0, <1>q
      <4> QED BY <3>5, <4>1, <4>2
    <3> QED BY <3>2, <3>7 DEF AnswersOrdered
  <2>3. FilesFirst'
    BY <1>8, <2>0, <1>o DEF TakeRequest, FilesFirst
  <2>4. SessionOwn'
    BY <1>8, <1>o, <1>t DEF TakeRequest, SessionOwn, Own
  <2>5. AcceptedLast'
    BY <1>8, <1>o, <1>t DEF TakeRequest, AcceptedLast
  <2>u. ReportIsOwn'
    BY <1>8, <1>o DEF TakeRequest, ReportIsOwn
  <2> QED BY <2>1, <2>2, <2>3, <2>4, <2>5, <2>u DEF Ordered
<1>9. CASE FetchElf
  <2>2. AnswersOrdered'
    BY <1>9, <1>o, <1>t DEF FetchElf, AnswersOrdered
  <2>4. SessionOwn'
    BY <1>9, <1>o DEF FetchElf, SessionOwn, FilesFirst, TypeOK, Run
  <2>5. AcceptedLast'
    BY <1>9, <1>o, <1>t DEF FetchElf, AcceptedLast
  <2>u. RequestsOrdered' /\ FilesFirst' /\ ReportIsOwn'
    BY <1>9, <1>o DEF FetchElf, RequestsOrdered, FilesFirst, ReportIsOwn
  <2> QED BY <2>2, <2>4, <2>5, <2>u DEF Ordered
<1>10. CASE FetchStdin
  <2>2. AnswersOrdered'
    BY <1>10, <1>o, <1>t DEF FetchStdin, AnswersOrdered
  <2>4. SessionOwn'
    BY <1>10, <1>o DEF FetchStdin, SessionOwn, FilesFirst, Own, TypeOK, Run
  <2>5. AcceptedLast'
    BY <1>10, <1>o, <1>t DEF FetchStdin, AcceptedLast
  <2>u. RequestsOrdered' /\ FilesFirst' /\ ReportIsOwn'
    BY <1>10, <1>o DEF FetchStdin, RequestsOrdered, FilesFirst, ReportIsOwn
  <2> QED BY <2>2, <2>4, <2>5, <2>u DEF Ordered
<1>11. CASE RunProgram
  <2>2. AnswersOrdered'
    BY <1>11, <1>o, <1>t DEF RunProgram, AnswersOrdered
  <2>4. SessionOwn'
    BY <1>11, <1>o, <1>t DEF RunProgram, SessionOwn, Own
  <2>5. AcceptedLast'
    BY <1>11, <1>o, <1>t DEF RunProgram, AcceptedLast
  <2>u. RequestsOrdered' /\ FilesFirst' /\ ReportIsOwn'
    BY <1>11, <1>o DEF RunProgram, RequestsOrdered, FilesFirst, ReportIsOwn
  <2> QED BY <2>2, <2>4, <2>5, <2>u DEF Ordered
<1>12. CASE BeginUpload
  <2>2. AnswersOrdered'
    BY <1>12, <1>o, <1>t DEF BeginUpload, AnswersOrdered
  <2>4. SessionOwn'
    BY <1>12, <1>o, <1>t DEF BeginUpload, SessionOwn, Own
  <2>5. AcceptedLast'
    BY <1>12, <1>o, <1>t DEF BeginUpload, AcceptedLast
  <2>u. RequestsOrdered' /\ FilesFirst' /\ ReportIsOwn'
    BY <1>12, <1>o DEF BeginUpload, RequestsOrdered, FilesFirst, ReportIsOwn
  <2> QED BY <2>2, <2>4, <2>5, <2>u DEF Ordered
<1>13. CASE EndUpload
  <2>2. AnswersOrdered'
    BY <1>13, <1>o, <1>t DEF EndUpload, AnswersOrdered
  <2>4. SessionOwn'
    BY <1>13, <1>o, <1>t DEF EndUpload, SessionOwn, Own
  <2>5. AcceptedLast'
    BY <1>13, <1>o, <1>t DEF EndUpload, AcceptedLast
  <2>u. RequestsOrdered' /\ FilesFirst' /\ ReportIsOwn'
    BY <1>13, <1>o DEF EndUpload, RequestsOrdered, FilesFirst, ReportIsOwn
  <2> QED BY <2>2, <2>4, <2>5, <2>u DEF Ordered
<1>14. CASE SessionFails
  <2>2. AnswersOrdered'
    BY <1>14, <1>o, <1>t DEF SessionFails, AnswersOrdered
  <2>4. SessionOwn'
    BY <1>14, <1>o, <1>t DEF SessionFails, SessionOwn, Own
  <2>5. AcceptedLast'
    BY <1>14, <1>o, <1>t DEF SessionFails, AcceptedLast
  <2>u. RequestsOrdered' /\ FilesFirst' /\ ReportIsOwn'
    BY <1>14, <1>o DEF SessionFails, RequestsOrdered, FilesFirst, ReportIsOwn
  <2> QED BY <2>2, <2>4, <2>5, <2>u DEF Ordered
<1>15. CASE Reply
  <2>2. AnswersOrdered'
    <3>1. resp' = [resp EXCEPT !.result = TRUE] /\ at = "reply" /\ at' = "listen" /\ UNCHANGED req
      BY <1>15 DEF Reply
    <3>2. resp' \in Answers /\ resp'.seq = resp.seq /\ resp'.to = resp.to
      BY <3>1 DEF TypeOK, Answers
    <3>3. toClient' = Append(toClient, resp')
      BY <1>15 DEF Reply, Answering
    <3>4. /\ Len(toClient') = Len(toClient) + 1 /\ Len(toClient) \in Nat
          /\ \A i \in 1 .. Len(toClient) : toClient'[i] = toClient[i]
          /\ toClient'[Len(toClient) + 1] = resp'
      BY <1>t, <3>2, <3>3, AppendOf
    <3>5. ASSUME NEW i \in 1 .. Len(toClient')
          PROVE  /\ toClient'[i].seq <= req'.seq
                 /\ toClient'[i].result /\ toClient'[i].seq = req'.seq => toClient'[i] = resp'
      <4>1. CASE i \in 1 .. Len(toClient)
        BY <4>1, <3>1, <3>4, <1>o DEF AnswersOrdered
      <4>2. CASE i = Len(toClient) + 1
        BY <4>2, <3>1, <3>2, <3>4, <1>o, <1>q, <1>t DEF AnswersOrdered
      <4> QED BY <3>4, <4>1, <4>2
    <3> QED BY <3>1, <3>2, <3>5, <1>o DEF AnswersOrdered
  <2>4. SessionOwn'
    BY <1>15, <1>o DEF Reply, SessionOwn, Own, TypeOK, Answers
  <2>5. AcceptedLast'
    BY <1>15, <1>o, <1>t DEF Reply, AcceptedLast
  <2>u. RequestsOrdered' /\ FilesFirst' /\ ReportIsOwn'
    BY <1>15, <1>o DEF Reply, RequestsOrdered, FilesFirst, ReportIsOwn
  <2> QED BY <2>2, <2>4, <2>5, <2>u DEF Ordered
<1>16. CASE LoseRequest
  <2>1. RequestsOrdered'
    <3>1. /\ Len(toDaemon) \in Nat /\ Len(toDaemon') = Len(toDaemon) - 1
          /\ \A i \in 1 .. Len(toDaemon') : toDaemon'[i] = toDaemon[i + 1] /\ i + 1 \in 1 .. Len(toDaemon)
          /\ UNCHANGED <<req, seq, job>>
      BY <1>16, <1>t, TailOf DEF LoseRequest
    <3>2. \A i \in 1 .. Len(toDaemon') :
            req'.seq < toDaemon'[i].seq /\ toDaemon'[i].seq <= seq' /\ toDaemon'[i].from <= job'
      BY <3>1, <1>o DEF RequestsOrdered
    <3>3. ASSUME NEW i \in 1 .. Len(toDaemon'), NEW k \in 1 .. Len(toDaemon'), i < k
          PROVE  toDaemon'[i].seq < toDaemon'[k].seq
      <4>1. i + 1 < k + 1 /\ toDaemon'[i] = toDaemon[i + 1] /\ toDaemon'[k] = toDaemon[k + 1]
        BY <3>1, <3>3
      <4> QED BY <3>1, <4>1, <1>o DEF RequestsOrdered
    <3> QED BY <3>1, <3>2, <3>3, <1>o DEF RequestsOrdered
  <2>3. FilesFirst'
    BY <1>16, <1>o, <1>t DEF LoseRequest, FilesFirst
  <2>5. AcceptedLast'
    BY <1>16, <1>o, <1>t DEF LoseRequest, AcceptedLast
  <2>u. AnswersOrdered' /\ SessionOwn' /\ ReportIsOwn'
    BY <1>16, <1>o DEF LoseRequest, AnswersOrdered, SessionOwn, ReportIsOwn, Own
  <2> QED BY <2>1, <2>3, <2>5, <2>u DEF Ordered
<1>17. CASE LoseAnswer
  <2>2. AnswersOrdered'
    BY <1>17, <1>o, <1>t DEF LoseAnswer, AnswersOrdered
  <2>u. RequestsOrdered' /\ FilesFirst' /\ SessionOwn' /\ AcceptedLast' /\ ReportIsOwn'
    BY <1>17, <1>o DEF LoseAnswer, RequestsOrdered, FilesFirst, SessionOwn, AcceptedLast, ReportIsOwn, Own
  <2> QED BY <2>2, <2>u DEF Ordered
<1>18. CASE UNCHANGED vars
  BY <1>18 DEF vars, Ordered, RequestsOrdered, AnswersOrdered, FilesFirst, SessionOwn, AcceptedLast,
    ReportIsOwn, Own
<1> QED
  BY <1>1, <1>2, <1>3, <1>4, <1>5, <1>6, <1>7, <1>8, <1>9, <1>10, <1>11, <1>12, <1>13, <1>14,
     <1>15, <1>16, <1>17, <1>18 DEF Next

\* The ordered state is kept by every step.
THEOREM OrderKept == Spec => []Ordered
  BY TypeInit, TypeStep, OrderedInit, OrderedStep, PTL DEF Spec

\* Nothing writes the output file while the client reads it.
THEOREM ReadsInQuiet == Spec => []QuietWhileRead
<1>1. Ordered => QuietWhileRead
  BY DEF Ordered, AcceptedLast, QuietWhileRead
<1> QED BY <1>1, OrderKept, PTL

\* A success that is reported is the job's own.
THEOREM ReportsItsOwn == Spec => []ReportIsOwn
<1>1. Ordered => ReportIsOwn
  BY DEF Ordered
<1> QED BY <1>1, OrderKept, PTL
=============================================================================
