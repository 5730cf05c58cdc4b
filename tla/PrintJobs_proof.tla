-------------------------- MODULE PrintJobs_proof ---------------------------
(***************************************************************************)
(* For any destinations, document sizes, chunk size and number of calls,   *)
(* whatever the scheduler answers and whichever answers are lost: handles  *)
(* are jobs, acknowledged documents are whole and calls free what they     *)
(* allocate.                                                               *)
(***************************************************************************)
EXTENDS PrintJobs, SequenceTheorems, TLAPS

\* What the running call may have allocated at each of its steps.
Allocated ==
    /\ pc \in {"idle", "cancel anywhere"} => heap = {}
    /\ pc \in {"create options", "submit options", "close", "cancel"} => heap \subseteq {"dest"}
    /\ pc \in {"create", "start", "write"} => heap \subseteq Everything
    /\ pc = "list" => heap \subseteq {"jobs"}

\* A step of a call is one of a call that was counted.
Counted == pc # "idle" => calls # 0

\* The running call, and what was promised to the application.
Client ==
    /\ pc \in Steps
    /\ call \in Calls /\ call.written <= call.size
    /\ calls \in 0..MaxCalls
    /\ heap \subseteq Everything \union {"jobs"}
    /\ leaked \subseteq Steps
    /\ Counted /\ Allocated /\ OnlyNulLeaks

\* The half of AcknowledgedWhole that every step keeps on its own.
Delivered ==
    \A s \in acked :
        /\ s.job \in DOMAIN jobs
        /\ [call |-> s.call, bytes |-> s.bytes] \in jobs[s.job].documents

Promises ==
    /\ jobs \in Seq(Jobs)
    /\ handles \subseteq [job : Nat, dests : SUBSET Dests]
    /\ acked \subseteq [job : Nat, call : 1..MaxCalls, bytes : Nat]
    /\ HandlesAreJobs /\ Delivered

IInv == Client /\ Promises

States == {"open", "pending", "processing", "completed", "canceled", "aborted"}

\* Nothing is taken from a job, and its destination stays.
Kept(old, new) ==
    /\ DOMAIN old \subseteq DOMAIN new
    /\ \A id \in DOMAIN old : /\ new[id].dests = old[id].dests
                              /\ old[id].documents \subseteq new[id].documents

-----------------------------------------------------------------------------
\* What a request makes of the jobs.
LEMMA StateChanged ==
    ASSUME NEW old \in Seq(Jobs), NEW id \in DOMAIN old, NEW state \in States
    PROVE  /\ [old EXCEPT ![id].state = state] \in Seq(Jobs)
           /\ Kept(old, [old EXCEPT ![id].state = state])
<1> DEFINE job == [old[id] EXCEPT !.state = state]
           new == [old EXCEPT ![id] = job]
<1>1. Len(old) \in Nat /\ id \in 1..Len(old) /\ old \in [1..Len(old) -> Jobs]
  BY LenProperties
<1>2. job \in Jobs /\ job.dests = old[id].dests /\ job.documents = old[id].documents
  BY <1>1 DEF Jobs, States
<1> HIDE DEF job
<1>3. new \in [1..Len(old) -> Jobs]
  BY <1>1, <1>2
<1>4. new \in Seq(Jobs)
  BY <1>1, <1>3
<1>5. Kept(old, new)
  BY <1>1, <1>2, <1>3 DEF Kept
<1> QED
  BY <1>4, <1>5 DEF job

LEMMA DocumentTaken ==
    ASSUME jobs \in Seq(Jobs), NEW id \in DOMAIN jobs, NEW last \in BOOLEAN,
           NEW document \in [call : 1..MaxCalls, bytes : Nat]
    PROVE  /\ TakeDocument(id, document, last) \in Seq(Jobs)
           /\ Kept(jobs, TakeDocument(id, document, last))
           /\ document \in TakeDocument(id, document, last)[id].documents
<1> DEFINE job == [jobs[id] EXCEPT !.documents = @ \union {document},
                                   !.state = IF last THEN "pending" ELSE @]
           new == [jobs EXCEPT ![id] = job]
<1>1. Len(jobs) \in Nat /\ id \in 1..Len(jobs) /\ jobs \in [1..Len(jobs) -> Jobs]
  BY LenProperties
<1>2. /\ job \in Jobs /\ job.dests = jobs[id].dests
      /\ job.documents = jobs[id].documents \union {document}
  BY <1>1 DEF Jobs
<1>3. TakeDocument(id, document, last) = new
  BY <1>1 DEF TakeDocument
<1> HIDE DEF job
<1>4. new \in [1..Len(jobs) -> Jobs] /\ new[id] = job
  BY <1>1, <1>2
<1>5. new \in Seq(Jobs)
  BY <1>1, <1>4
<1>6. Kept(jobs, new)
  BY <1>1, <1>2, <1>4 DEF Kept
<1> QED
  BY <1>2, <1>3, <1>4, <1>5, <1>6

LEMMA JobCreated ==
    ASSUME jobs \in Seq(Jobs), NewJob \in Jobs
    PROVE  /\ Append(jobs, NewJob) \in Seq(Jobs)
           /\ Kept(jobs, Append(jobs, NewJob))
           /\ Handle.job \in DOMAIN Append(jobs, NewJob)
           /\ Append(jobs, NewJob)[Handle.job].dests = Handle.dests
<1>1. /\ Len(jobs) \in Nat /\ DOMAIN jobs = 1..Len(jobs)
  BY LenProperties
<1>2. /\ Append(jobs, NewJob) \in Seq(Jobs)
      /\ Len(Append(jobs, NewJob)) = Len(jobs) + 1
      /\ \A i \in 1..Len(jobs) : Append(jobs, NewJob)[i] = jobs[i]
      /\ Append(jobs, NewJob)[Len(jobs) + 1] = NewJob
  BY AppendProperties
<1>3. DOMAIN Append(jobs, NewJob) = 1..(Len(jobs) + 1)
  BY <1>2, LenProperties
<1>4. Handle.job = Len(jobs) + 1 /\ Handle.dests = call.dests /\ NewJob.dests = call.dests
  BY DEF Handle, NewJob
<1> QED
  BY <1>1, <1>2, <1>3, <1>4 DEF Kept

-----------------------------------------------------------------------------
\* Promises are kept where nothing is taken from a job.
LEMMA PromisesKept ==
    ASSUME Promises, jobs' \in Seq(Jobs), Kept(jobs, jobs'), UNCHANGED <<handles, acked>>
    PROVE  Promises'
  BY DEF Promises, Kept, HandlesAreJobs, Delivered

LEMMA NothingPromised ==
    ASSUME Promises, UNCHANGED <<jobs, handles, acked>>
    PROVE  Promises'
  BY DEF Promises, HandlesAreJobs, Delivered

\* An answer that says success is the answer to a request the scheduler performed.
LEMMA AnswerFacts ==
    ASSUME NEW possible \in BOOLEAN, NEW answer \in Answers(possible)
    PROVE  /\ answer.performed \in BOOLEAN
           /\ answer.performed => possible
           /\ Success(answer) => answer.performed
<1>1. CASE answer = [performed |-> FALSE, status |-> "error"]
  BY <1>1 DEF Success
<1>2. CASE answer \in [performed : IF possible THEN {TRUE} ELSE {},
                       status : Statuses \union (IF LostReplies THEN {"error"} ELSE {})]
  BY <1>2
<1> QED
  BY <1>1, <1>2 DEF Answers

\* How calls start and end.
LEMMA NoCallType == NoCall \in Calls /\ NoCall.written <= NoCall.size
  BY DEF NoCall, Calls, Options

\* A call's arguments are set one by one, and none of them written yet.
Fresh == {c \in Calls : c.written = 0}

LEMMA NoCallFresh == NoCall \in Fresh
  BY DEF NoCall, Fresh, Calls, Options

LEMMA WithJob ==
    ASSUME NEW c \in Fresh, NEW job \in Nat
    PROVE  [c EXCEPT !.job = job] \in Fresh
  BY DEF Fresh, Calls

LEMMA WithDests ==
    ASSUME NEW c \in Fresh, NEW dests \in SUBSET Dests
    PROVE  [c EXCEPT !.dests = dests] \in Fresh
  BY DEF Fresh, Calls

LEMMA WithOptions ==
    ASSUME NEW c \in Fresh, NEW options \in Options
    PROVE  [c EXCEPT !.options = options] \in Fresh
  BY DEF Fresh, Calls

LEMMA WithDocument ==
    ASSUME NEW c \in Fresh, NEW size \in Nat, NEW last \in BOOLEAN
    PROVE  [c EXCEPT !.size = size, !.last = last] \in Fresh
  BY DEF Fresh, Calls

LEMMA FreshIsTyped ==
    ASSUME NEW c \in Fresh
    PROVE  c \in Calls /\ c.written <= c.size
  BY DEF Fresh, Calls

LEMMA OneMore ==
    ASSUME calls \in 0..MaxCalls, calls < MaxCalls, calls' = calls + 1
    PROVE  calls' \in 0..MaxCalls /\ calls' # 0
  BY CallsAssumption DEF CallsAssumption

FirstSteps == {"create options", "submit options", "close", "cancel", "cancel anywhere", "list"}

LEMMA BeginClient ==
    ASSUME Client, NEW step \in FirstSteps, NEW allocated \in SUBSET {"dest"},
           NEW arguments \in Fresh,
           step \in {"cancel anywhere", "list"} => allocated = {},
           Begin(step, allocated, arguments)
    PROVE  Client' /\ UNCHANGED <<jobs, handles, acked>>
<1>1. /\ pc = "idle" /\ heap = {} /\ calls' \in 0..MaxCalls /\ calls' # 0 /\ leaked' = leaked
      /\ UNCHANGED <<jobs, handles, acked>>
  <2>1. calls \in 0..MaxCalls /\ calls < MaxCalls /\ calls' = calls + 1
    BY DEF Begin, Client
  <2>2. calls' \in 0..MaxCalls /\ calls' # 0
    BY <2>1, OneMore
  <2> QED
    BY <2>2 DEF Begin, Client, Allocated
<1>f. arguments \in Calls /\ arguments.written <= arguments.size
  BY FreshIsTyped
<1>2. CASE pc' = step /\ call' = arguments /\ heap' = allocated
  <2>1. Allocated' /\ heap' \subseteq Everything \union {"jobs"}
    BY <1>2 DEF Allocated, FirstSteps, Everything
  <2> QED
    BY <1>1, <1>f, <1>2, <2>1 DEF Client, Counted, OnlyNulLeaks, FirstSteps, Steps
<1>3. CASE UNCHANGED <<pc, call, heap>>
  BY <1>1, <1>3 DEF Client, Counted, Allocated, OnlyNulLeaks
<1> QED
  BY <1>1, <1>2, <1>3 DEF Begin

LEMMA LeaveClient ==
    ASSUME Client, NEW freed, Leave(freed),
           pc \notin {"create options", "submit options"} => heap \subseteq freed
    PROVE  Client'
<1>1. /\ pc' = "idle" /\ call' = NoCall /\ heap' = {} /\ calls' = calls
      /\ leaked' \subseteq leaked \union {pc}
      /\ pc \notin {"create options", "submit options"} => leaked' = leaked
  BY DEF Leave
<1>2. leaked' \subseteq Steps /\ OnlyNulLeaks'
  BY <1>1 DEF Client, OnlyNulLeaks
<1> QED
  BY <1>1, <1>2, NoCallType DEF Client, Counted, Allocated, Steps

-----------------------------------------------------------------------------
LEMMA InitInv == Init => IInv
  BY NoCallType, CallsAssumption
     DEF CallsAssumption, Init, IInv, Client, Promises, Counted, Allocated, OnlyNulLeaks,
         HandlesAreJobs, Delivered, Steps

\* The calls that start: none of them touches a job.
LEMMA CallsStart ==
    ASSUME IInv,
           \/ \E dest \in Dests, options \in Options : CreateJob(dest, options)
           \/ \E handle \in handles, size \in Sizes, options \in Options, last \in BOOLEAN :
                 Submit(handle, size, options, last)
           \/ \E handle \in handles : Close(handle) \/ Cancel(handle)
           \/ \E id \in 1..MaxCalls : CancelJob(id)
           \/ ListJobs
    PROVE  IInv'
<1> USE DEF IInv
<1>1. ASSUME NEW dest \in Dests, NEW options \in Options, CreateJob(dest, options)  PROVE IInv'
  <2> DEFINE arguments == [NoCall EXCEPT !.dests = {dest}, !.options = options]
  <2>1. arguments \in Fresh
    BY NoCallFresh, WithDests, WithOptions
  <2>2. Begin("create options", {"dest"}, arguments)
    BY <1>1 DEF CreateJob
  <2> HIDE DEF arguments
  <2> QED
    BY <2>1, <2>2, BeginClient, NothingPromised DEF FirstSteps
<1>2. ASSUME NEW handle \in handles, NEW size \in Sizes, NEW options \in Options,
             NEW last \in BOOLEAN, Submit(handle, size, options, last)
      PROVE  IInv'
  <2> DEFINE arguments == [NoCall EXCEPT !.job = handle.job, !.options = options, !.size = size,
                                         !.last = last]
  <2>1. arguments \in Fresh
    <3>1. handle.job \in Nat /\ size \in Nat
      BY SizeAssumption DEF SizeAssumption, Promises
    <3> QED
      BY <3>1, NoCallFresh, WithJob, WithOptions, WithDocument
  <2>2. Begin("submit options", {"dest"}, arguments)
    BY <1>2 DEF Submit
  <2> HIDE DEF arguments
  <2> QED
    BY <2>1, <2>2, BeginClient, NothingPromised DEF FirstSteps
<1>3. ASSUME NEW handle \in handles, Close(handle) \/ Cancel(handle)  PROVE IInv'
  <2> DEFINE arguments == [NoCall EXCEPT !.job = handle.job]
  <2>1. arguments \in Fresh
    BY NoCallFresh, WithJob DEF Promises
  <2>2. Begin("close", {"dest"}, arguments) \/ Begin("cancel", {"dest"}, arguments)
    BY <1>3 DEF Close, Cancel
  <2> HIDE DEF arguments
  <2> QED
    BY <2>1, <2>2, BeginClient, NothingPromised DEF FirstSteps
<1>4. ASSUME NEW id \in 1..MaxCalls, CancelJob(id)  PROVE IInv'
  <2> DEFINE arguments == [NoCall EXCEPT !.job = id, !.dests = Dests]
  <2>1. arguments \in Fresh
    <3>1. id \in Nat /\ Dests \in SUBSET Dests
      OBVIOUS
    <3> QED
      BY <3>1, NoCallFresh, WithJob, WithDests
  <2>2. Begin("cancel anywhere", {}, arguments)
    BY <1>4 DEF CancelJob
  <2> HIDE DEF arguments
  <2> QED
    BY <2>1, <2>2, BeginClient, NothingPromised DEF FirstSteps
<1>5. CASE ListJobs
  BY <1>5, NoCallFresh, BeginClient, NothingPromised DEF ListJobs, FirstSteps
<1> QED
  BY <1>1, <1>2, <1>3, <1>4, <1>5

-----------------------------------------------------------------------------
\* The steps of a creation.
LEMMA OptionsAdded ==
    ASSUME IInv, NEW to \in {"create", "start"}, pc \in {"create options", "submit options"},
           AddOptions(to)
    PROVE  IInv'
<1> USE DEF IInv
<1>1. Promises'
  BY NothingPromised DEF AddOptions
<1>2. CASE Continue(to)
  <2>1. Allocated'
    BY <1>2 DEF Continue, client, Client, Allocated, Everything
  <2>2. Client'
    BY <1>2, <2>1 DEF Continue, client, Client, Steps, Counted, OnlyNulLeaks
  <2> QED
    BY <1>1, <2>2
<1>3. CASE pc' = to /\ heap' = heap \union {"options"} /\ UNCHANGED <<call, calls, leaked>>
  <2>1. Allocated' /\ heap' \subseteq Everything \union {"jobs"}
    BY <1>3 DEF Client, Allocated, Everything
  <2>2. Client'
    BY <1>3, <2>1 DEF Client, Steps, Counted, OnlyNulLeaks
  <2> QED
    BY <1>1, <2>2
<1>4. CASE Leave({})
  BY <1>1, <1>4, LeaveClient
<1> QED
  BY <1>2, <1>3, <1>4 DEF AddOptions

LEMMA Created == ASSUME IInv, SendCreate  PROVE IInv'
<1> USE DEF IInv
<1>1. Client'
  <2>1. pc = "create" /\ Leave(Everything) /\ heap \subseteq Everything
    BY DEF SendCreate, Client, Allocated
  <2> QED
    BY <2>1, LeaveClient
<1>2. PICK answer \in Answers(TRUE) :
        /\ jobs' = IF answer.performed THEN Append(jobs, NewJob) ELSE jobs
        /\ handles' = IF Success(answer) THEN handles \union {Handle} ELSE handles
  BY DEF SendCreate
<1>3. acked' = acked
  BY DEF SendCreate
<1>4. jobs \in Seq(Jobs) /\ NewJob \in Jobs
  BY DEF Promises, Client, Calls, NewJob, Jobs
<1>5. Success(answer) => answer.performed
  BY AnswerFacts
<1>6. CASE answer.performed
  <2>1. /\ jobs' \in Seq(Jobs) /\ Kept(jobs, jobs')
        /\ Handle.job \in DOMAIN jobs' /\ jobs'[Handle.job].dests = Handle.dests
    BY <1>2, <1>4, <1>6, JobCreated
  <2>2. Handle \in [job : Nat, dests : SUBSET Dests]
    BY <1>4, LenProperties DEF Handle, Client, Calls
  <2>3. Delivered'
    BY <1>3, <2>1 DEF Promises, Delivered, Kept
  <2>4. HandlesAreJobs'
    BY <1>2, <2>1 DEF Promises, HandlesAreJobs, Kept
  <2> QED
    BY <1>1, <1>2, <1>3, <2>1, <2>2, <2>3, <2>4 DEF Promises
<1>7. CASE ~ answer.performed
  BY <1>1, <1>2, <1>3, <1>5, <1>7, NothingPromised
<1> QED
  BY <1>6, <1>7

-----------------------------------------------------------------------------
\* The steps of a submission.
LEMMA Started == ASSUME IInv, StartDocument  PROVE IInv'
<1> USE DEF IInv
<1>1. Promises'
  BY NothingPromised DEF StartDocument
<1>2. pc = "start" /\ heap \subseteq Everything
  BY DEF StartDocument, Client, Allocated
<1>3. CASE Continue("write")
  BY <1>1, <1>2, <1>3
     DEF Continue, client, Client, Steps, Counted, Allocated, OnlyNulLeaks
<1>4. CASE Leave(Everything)
  BY <1>1, <1>2, <1>4, LeaveClient
<1> QED
  BY <1>3, <1>4 DEF StartDocument

LEMMA ChunkWritten ==
    ASSUME NEW c \in Calls, c.written < c.size, NEW n \in Nat, n <= c.size - c.written
    PROVE  /\ [c EXCEPT !.written = @ + n] \in Calls
           /\ [c EXCEPT !.written = @ + n].written <= [c EXCEPT !.written = @ + n].size
  BY DEF Calls

LEMMA Written == ASSUME IInv, WriteChunk  PROVE IInv'
<1> USE DEF IInv
<1>1. Promises'
  BY NothingPromised DEF WriteChunk
<1>2. pc = "write" /\ heap \subseteq Everything
  BY DEF WriteChunk, Client, Allocated
<1>3. CASE call' = [call EXCEPT !.written = @ + Chunk] /\ UNCHANGED <<pc, calls, heap, leaked>>
  <2>1. call \in Calls /\ call.size \in Nat /\ call.written \in Nat /\ Remaining > 0
    BY DEF Client, Calls, WriteChunk
  <2>2. Chunk \in Nat /\ Chunk <= call.size - call.written /\ call.written < call.size
    BY <2>1, SizeAssumption DEF SizeAssumption, Chunk, Remaining
  <2>3. call' \in Calls /\ call'.written <= call'.size
    BY <1>3, <2>1, <2>2, ChunkWritten
  <2> QED
    BY <1>1, <1>3, <2>3 DEF Client, Counted, Allocated, OnlyNulLeaks
<1>4. CASE Leave(Everything)
  BY <1>1, <1>2, <1>4, LeaveClient
<1> QED
  BY <1>3, <1>4 DEF WriteChunk

LEMMA Finished == ASSUME IInv, FinishDocument  PROVE IInv'
<1> USE DEF IInv
<1> DEFINE document == [call |-> calls, bytes |-> call.written]
           submission == [job |-> call.job, call |-> calls, bytes |-> call.size]
<1>1. Client'
  <2>1. pc = "write" /\ Leave(Everything) /\ heap \subseteq Everything
    BY DEF FinishDocument, SendFinish, Client, Allocated
  <2> QED
    BY <2>1, LeaveClient
<1>2. PICK answer \in Answers(Open(call.job)) :
        /\ jobs' = IF answer.performed THEN TakeDocument(call.job, document, call.last) ELSE jobs
        /\ acked' = IF Success(answer) THEN acked \union {submission} ELSE acked
  BY DEF FinishDocument, SendFinish
<1>3. handles' = handles
  BY DEF FinishDocument, SendFinish
<1>4. /\ answer.performed => Open(call.job)
      /\ Success(answer) => answer.performed
  <2>1. Open(call.job) \in BOOLEAN
    BY DEF Open
  <2> QED
    BY <2>1, AnswerFacts
<1>5. /\ calls \in 1..MaxCalls /\ call.written \in Nat /\ call.size = call.written
      /\ call.job \in Nat /\ call.last \in BOOLEAN
  <2>1. call.written \in Nat /\ call.size \in Nat /\ call.job \in Nat /\ call.last \in BOOLEAN
    BY DEF Client, Calls
  <2>2. call.size = call.written
    BY <2>1 DEF FinishDocument, Remaining
  <2>3. calls \in 1..MaxCalls
    <3>1. calls \in 0..MaxCalls /\ calls # 0
      BY DEF FinishDocument, Client, Counted
    <3> QED
      BY <3>1, CallsAssumption DEF CallsAssumption
  <2> QED
    BY <2>1, <2>2, <2>3
<1>6. CASE answer.performed
  <2>1. document \in [call : 1..MaxCalls, bytes : Nat] /\ call.job \in DOMAIN jobs
    BY <1>4, <1>5, <1>6 DEF Open
  <2>2. /\ jobs' \in Seq(Jobs) /\ Kept(jobs, jobs')
        /\ document \in jobs'[call.job].documents
    BY <1>2, <1>5, <1>6, <2>1, DocumentTaken DEF Promises
  <2>3. submission \in [job : Nat, call : 1..MaxCalls, bytes : Nat]
    BY <1>5
  <2>4. HandlesAreJobs'
    BY <1>3, <2>2 DEF Promises, HandlesAreJobs, Kept
  <2>5. Delivered'
    <3> SUFFICES ASSUME NEW s \in acked'
                 PROVE  /\ s.job \in DOMAIN jobs'
                        /\ [call |-> s.call, bytes |-> s.bytes] \in jobs'[s.job].documents
      BY DEF Delivered
    <3>1. CASE s \in acked
      BY <2>2, <3>1 DEF Promises, Delivered, Kept
    <3>2. CASE s = submission
      BY <1>5, <2>1, <2>2, <3>2 DEF Kept
    <3> QED
      BY <1>2, <3>1, <3>2
  <2> QED
    BY <1>1, <1>2, <1>3, <2>2, <2>3, <2>4, <2>5 DEF Promises
<1>7. CASE ~ answer.performed
  BY <1>1, <1>2, <1>3, <1>4, <1>7, NothingPromised
<1> QED
  BY <1>6, <1>7

-----------------------------------------------------------------------------
\* Close, cancel, cancel_job and the lists.
LEMMA StateAnswered ==
    ASSUME Promises, NEW id, NEW state \in States, NEW answer,
           answer.performed => id \in DOMAIN jobs,
           jobs' = IF answer.performed THEN [jobs EXCEPT ![id].state = state] ELSE jobs,
           UNCHANGED <<handles, acked>>
    PROVE  Promises'
<1>1. CASE answer.performed
  <2>1. jobs' \in Seq(Jobs) /\ Kept(jobs, jobs')
    BY <1>1, StateChanged DEF Promises
  <2> QED
    BY <2>1, PromisesKept
<1>2. CASE ~ answer.performed
  BY <1>2, NothingPromised
<1> QED
  BY <1>1, <1>2

LEMMA Changed == ASSUME IInv, SendClose \/ SendCancel  PROVE IInv'
<1> USE DEF IInv
<1>1. Client'
  <2>1. pc \in {"close", "cancel"} /\ Leave({"dest"}) /\ heap \subseteq {"dest"}
    BY DEF SendClose, SendCancel, SendChange, Client, Allocated
  <2> QED
    BY <2>1, LeaveClient
<1>2. CASE SendClose
  <2>1. PICK answer \in Answers(Open(call.job)) :
           jobs' = IF answer.performed THEN [jobs EXCEPT ![call.job].state = "pending"] ELSE jobs
    BY <1>2 DEF SendClose, SendChange
  <2>2. answer.performed => call.job \in DOMAIN jobs
    BY AnswerFacts DEF Open
  <2>3. UNCHANGED <<handles, acked>> /\ "pending" \in States
    BY <1>2 DEF SendClose, SendChange, States
  <2> QED
    BY <1>1, <2>1, <2>2, <2>3, StateAnswered
<1>3. CASE SendCancel
  <2>1. PICK answer \in Answers(Active(call.job)) :
           jobs' = IF answer.performed THEN [jobs EXCEPT ![call.job].state = "canceled"] ELSE jobs
    BY <1>3 DEF SendCancel, SendChange
  <2>2. answer.performed => call.job \in DOMAIN jobs
    BY AnswerFacts DEF Active
  <2>3. UNCHANGED <<handles, acked>> /\ "canceled" \in States
    BY <1>3 DEF SendCancel, SendChange, States
  <2> QED
    BY <1>1, <2>1, <2>2, <2>3, StateAnswered
<1> QED
  BY <1>2, <1>3

LEMMA OneDestLess ==
    ASSUME NEW c \in Calls, NEW dest
    PROVE  /\ [c EXCEPT !.dests = @ \ {dest}] \in Calls
           /\ [c EXCEPT !.dests = @ \ {dest}].written = c.written
           /\ [c EXCEPT !.dests = @ \ {dest}].size = c.size
  BY DEF Calls

LEMMA CancelTried == ASSUME IInv, TryCancel  PROVE IInv'
<1> USE DEF IInv
<1>1. PICK dest \in call.dests, answer \in Answers(Active(call.job)) :
         /\ jobs' = IF answer.performed THEN [jobs EXCEPT ![call.job].state = "canceled"] ELSE jobs
         /\ IF Success(answer) THEN Leave({})
            ELSE call' = [call EXCEPT !.dests = @ \ {dest}] /\ UNCHANGED <<pc, calls, heap, leaked>>
  BY DEF TryCancel
<1>2. pc = "cancel anywhere" /\ heap = {} /\ UNCHANGED <<handles, acked>>
  BY DEF TryCancel, Client, Allocated
<1>3. Promises'
  <2>1. answer.performed => call.job \in DOMAIN jobs
    BY AnswerFacts DEF Active
  <2> QED
    BY <1>1, <1>2, <2>1, StateAnswered DEF States
<1>4. CASE Success(answer)
  BY <1>1, <1>2, <1>3, <1>4, LeaveClient
<1>5. CASE ~ Success(answer)
  <2>1. call' \in Calls /\ call'.written <= call'.size
    BY <1>1, <1>5, OneDestLess DEF Client
  <2> QED
    BY <1>1, <1>3, <1>5, <2>1 DEF Client, Counted, Allocated, OnlyNulLeaks
<1> QED
  BY <1>4, <1>5

LEMMA NothingCanceled == ASSUME IInv, NoDestinationAgreed  PROVE IInv'
<1>1. Client /\ Leave({}) /\ heap = {}
  BY DEF IInv, NoDestinationAgreed, Client, Allocated
<1>2. Client' /\ Promises'
  BY <1>1, LeaveClient, NothingPromised DEF IInv, NoDestinationAgreed
<1> QED
  BY <1>2 DEF IInv

LEMMA ListMade == ASSUME IInv, Listed \/ CopyList  PROVE IInv'
<1> USE DEF IInv
<1>1. Promises'
  BY NothingPromised DEF Listed, CopyList
<1>2. pc = "list" /\ heap \subseteq {"jobs"}
  BY DEF Listed, CopyList, Client, Allocated
<1>3. CASE heap = {} /\ Leave({})
  BY <1>1, <1>3, LeaveClient
<1>4. CASE Leave({"jobs"})
  BY <1>1, <1>2, <1>4, LeaveClient
<1>5. CASE heap' = {"jobs"} /\ UNCHANGED <<pc, call, calls, leaked>>
  BY <1>1, <1>2, <1>5 DEF Client, Counted, Allocated, OnlyNulLeaks
<1> QED
  BY <1>3, <1>4, <1>5 DEF Listed, CopyList

\* The scheduler and other clients: a job changes its state and nothing else.
LEMMA SchedulerSteps == ASSUME IInv, Scheduler  PROVE IInv'
<1> USE DEF IInv
<1>1. PICK id \in DOMAIN jobs, to \in States : \E from : SetState(id, from, to)
  BY DEF Scheduler, States
<1>2. /\ jobs' = [jobs EXCEPT ![id].state = to]
      /\ UNCHANGED <<pc, call, calls, heap, leaked, handles, acked>>
  BY <1>1 DEF SetState, client
<1>3. Promises'
  <2>1. jobs' \in Seq(Jobs) /\ Kept(jobs, jobs')
    BY <1>2, StateChanged DEF Promises
  <2> QED
    BY <1>2, <2>1, PromisesKept
<1> QED
  BY <1>2, <1>3 DEF Client, Counted, Allocated, OnlyNulLeaks

LEMMA StepInv == IInv /\ [Next]_vars => IInv'
<1> SUFFICES ASSUME IInv, [Next]_vars  PROVE IInv'
  OBVIOUS
<1>1. CASE UNCHANGED vars
  <2>1. Promises'
    BY <1>1, NothingPromised DEF vars, IInv
  <2>2. Client'
    BY <1>1 DEF vars, client, IInv, Client, Counted, Allocated, OnlyNulLeaks
  <2> QED
    BY <2>1, <2>2 DEF IInv
<1>2. CASE AddCreateOptions \/ AddSubmitOptions
  BY <1>2, OptionsAdded DEF AddCreateOptions, AddSubmitOptions
<1>3. CASE Application
  BY <1>2, <1>3, CallsStart, Created, Started, Written, Finished, Changed, CancelTried,
     NothingCanceled, ListMade DEF Application
<1>4. CASE Scheduler
  BY <1>4, SchedulerSteps
<1> QED
  BY <1>1, <1>3, <1>4 DEF Next

LEMMA Invariant == Spec => []IInv
  BY InitInv, StepInv, PTL DEF Spec

-----------------------------------------------------------------------------
\* Every variable has its type, and no more is written than there is to write.
THEOREM TypeCorrect == Spec => []TypeOK
<1>1. IInv => TypeOK
  BY DEF IInv, Client, Promises, TypeOK
<1> QED
  BY <1>1, Invariant, PTL

\* A Job value names a job made for its destination, whatever is answered or lost
\* (job/mod.rs:296-300, 367-374).
THEOREM HandlesNameJobs == Spec => []HandlesAreJobs
<1>1. IInv => HandlesAreJobs
  BY DEF IInv, Promises
<1> QED
  BY <1>1, Invariant, PTL

\* Every way out of every call frees what the call allocated, but for a NUL in an option
\* (job/mod.rs:125-127, 159-181, 320-322).
THEOREM CallsCleanUp == Spec => []OnlyNulLeaks
<1>1. IInv => OnlyNulLeaks
  BY DEF IInv, Client
<1> QED
  BY <1>1, Invariant, PTL
-----------------------------------------------------------------------------
(***************************************************************************)
(* That the calls implement JobService needs what the running call carries *)
(* from where it began to the request it ends with: a creation still has   *)
(* one of the destinations, a submission a size that was checked and the   *)
(* job of a handle, and its number is still nobody's document.             *)
(***************************************************************************)
Creating   == pc \in {"create options", "create"}
Submitting == pc \in {"submit options", "start", "write"}

Carried ==
    /\ Creating => \E dest \in Dests : call.dests = {dest}
    /\ Submitting => call.size \in Sizes /\ call.size <= MaxSize
    /\ Submitting \/ pc = "close" => \E handle \in handles : handle.job = call.job

Documents == UNION {jobs[id].documents : id \in DOMAIN jobs}

\* The documents there are came from earlier calls: the running one has none yet.
Numbered == \A document \in Documents :
               document.call <= calls /\ (pc # "idle" => document.call < calls)

Arguments == Carried /\ Numbered

LEMMA ArgumentsInit == Init => Arguments
  BY DEF Init, Arguments, Carried, Creating, Submitting, Numbered, Documents

\* Numbers stay where no document is new and calls go on or return.
LEMMA NumberedKept ==
    ASSUME IInv, Numbered, Documents' \subseteq Documents,
           \/ calls' = calls /\ (pc = "idle" => pc' = "idle")
           \/ calls' = calls + 1
    PROVE  Numbered'
<1>1. calls \in Int
  BY DEF IInv, Client
<1>2. Documents \subseteq [call : 1..MaxCalls, bytes : Nat]
  <2>1. \A id \in DOMAIN jobs : jobs[id] \in Jobs
    BY LenProperties DEF IInv, Promises
  <2>2. \A id \in DOMAIN jobs : jobs[id].documents \subseteq [call : 1..MaxCalls, bytes : Nat]
    BY <2>1 DEF Jobs
  <2> QED
    BY <2>2 DEF Documents
<1>3. \A document \in Documents : document.call \in Int
  BY <1>2
<1> QED
  BY <1>1, <1>3 DEF Numbered

\* A state is no document, and a new job has none.
LEMMA NoDocumentByState ==
    ASSUME jobs \in Seq(Jobs), NEW id, NEW state, jobs' = [jobs EXCEPT ![id].state = state]
    PROVE  Documents' \subseteq Documents
<1>1. DOMAIN jobs' = DOMAIN jobs
  OBVIOUS
<1>2. ASSUME NEW i \in DOMAIN jobs  PROVE jobs'[i].documents = jobs[i].documents
  <2>1. jobs[i] \in Jobs
    BY LenProperties
  <2> QED
    BY <2>1 DEF Jobs
<1> QED
  BY <1>1, <1>2 DEF Documents

LEMMA NoDocumentByJob ==
    ASSUME jobs \in Seq(Jobs), NewJob \in Jobs, jobs' = Append(jobs, NewJob)
    PROVE  Documents' \subseteq Documents
<1>1. Len(jobs) \in Nat /\ DOMAIN jobs = 1..Len(jobs)
  BY LenProperties
<1>2. /\ Append(jobs, NewJob) \in Seq(Jobs)
      /\ Len(Append(jobs, NewJob)) = Len(jobs) + 1
      /\ \A i \in 1..Len(jobs) : Append(jobs, NewJob)[i] = jobs[i]
      /\ Append(jobs, NewJob)[Len(jobs) + 1] = NewJob
  BY AppendProperties
<1>3. DOMAIN jobs' = 1..(Len(jobs) + 1)
  BY <1>2, LenProperties
<1>4. NewJob.documents = {}
  BY DEF NewJob
<1> QED
  BY <1>1, <1>2, <1>3, <1>4 DEF Documents

LEMMA NewJobType == ASSUME IInv PROVE NewJob \in Jobs
  BY DEF IInv, Client, Calls, NewJob, Jobs

\* The document of a submission is the one of its call.
LEMMA NumberedTaken ==
    ASSUME IInv, Numbered, pc # "idle", pc' = "idle", calls' = calls,
           NEW id \in DOMAIN jobs, NEW last \in BOOLEAN, NEW bytes,
           jobs' = TakeDocument(id, [call |-> calls, bytes |-> bytes], last)
    PROVE  Numbered'
<1> DEFINE document == [call |-> calls, bytes |-> bytes]
           job == [jobs[id] EXCEPT !.documents = @ \union {document},
                                   !.state = IF last THEN "pending" ELSE @]
<1>1. jobs' = [jobs EXCEPT ![id] = job]
  BY LenProperties DEF TakeDocument, IInv, Promises, Jobs
<1>2. job.documents = jobs[id].documents \union {document}
  BY LenProperties DEF IInv, Promises, Jobs
<1> HIDE DEF job
<1>3. Documents' \subseteq Documents \union {document}
  BY <1>1, <1>2 DEF Documents
<1>4. calls \in Int /\ document.call = calls
  BY DEF IInv, Client
<1> QED
  BY <1>3, <1>4 DEF Numbered

-----------------------------------------------------------------------------
\* A call begins with what it carries.
LEMMA BeginArguments ==
    ASSUME IInv, Arguments, NEW step, NEW allocated, NEW arguments,
           Begin(step, allocated, arguments),
           step \notin {"create", "start", "write"},
           step = "create options" => \E dest \in Dests : arguments.dests = {dest},
           step = "submit options" => arguments.size \in Sizes /\ arguments.size <= MaxSize,
           step \in {"submit options", "close"}
              => \E handle \in handles : handle.job = arguments.job
    PROVE  Arguments'
<1>1. pc = "idle" /\ calls' = calls + 1 /\ UNCHANGED <<jobs, handles>>
  BY DEF Begin
<1>2. Numbered'
  BY <1>1, NumberedKept DEF Arguments, Documents
<1>3. CASE pc' = step /\ call' = arguments
  BY <1>1, <1>2, <1>3 DEF Arguments, Carried, Creating, Submitting
<1>4. CASE UNCHANGED <<pc, call>>
  BY <1>1, <1>2, <1>4 DEF Arguments, Carried, Creating, Submitting
<1> QED
  BY <1>3, <1>4 DEF Begin

\* A call that has returned carries nothing.
LEMMA LeaveCarries == ASSUME NEW freed, Leave(freed)  PROVE Carried'
  BY DEF Leave, Carried, Creating, Submitting

LEMMA CallsCarry ==
    ASSUME IInv, Arguments,
           \/ \E dest \in Dests, options \in Options : CreateJob(dest, options)
           \/ \E handle \in handles, size \in Sizes, options \in Options, last \in BOOLEAN :
                 Submit(handle, size, options, last)
           \/ \E handle \in handles : Close(handle) \/ Cancel(handle)
           \/ \E id \in 1..MaxCalls : CancelJob(id)
           \/ ListJobs
    PROVE  Arguments'
<1>1. ASSUME NEW dest \in Dests, NEW options \in Options, CreateJob(dest, options)
      PROVE  Arguments'
  <2> DEFINE arguments == [NoCall EXCEPT !.dests = {dest}, !.options = options]
  <2>1. Begin("create options", {"dest"}, arguments) /\ arguments.dests = {dest}
    BY <1>1 DEF CreateJob, NoCall
  <2> HIDE DEF arguments
  <2> QED
    BY <2>1, BeginArguments
<1>2. ASSUME NEW handle \in handles, NEW size \in Sizes, NEW options \in Options,
             NEW last \in BOOLEAN, Submit(handle, size, options, last)
      PROVE  Arguments'
  <2> DEFINE arguments == [NoCall EXCEPT !.job = handle.job, !.options = options, !.size = size,
                                         !.last = last]
  <2>1. /\ Begin("submit options", {"dest"}, arguments)
        /\ arguments.job = handle.job /\ arguments.size = size /\ size <= MaxSize
    BY <1>2 DEF Submit, NoCall
  <2> HIDE DEF arguments
  <2> QED
    BY <2>1, BeginArguments
<1>3. ASSUME NEW handle \in handles, Close(handle) \/ Cancel(handle)  PROVE Arguments'
  <2> DEFINE arguments == [NoCall EXCEPT !.job = handle.job]
  <2>1. /\ Begin("close", {"dest"}, arguments) \/ Begin("cancel", {"dest"}, arguments)
        /\ arguments.job = handle.job
    BY <1>3 DEF Close, Cancel, NoCall
  <2> HIDE DEF arguments
  <2> QED
    BY <2>1, BeginArguments
<1>4. ASSUME NEW id \in 1..MaxCalls, CancelJob(id)  PROVE Arguments'
  <2> DEFINE arguments == [NoCall EXCEPT !.job = id, !.dests = Dests]
  <2>1. Begin("cancel anywhere", {}, arguments)
    BY <1>4 DEF CancelJob
  <2> HIDE DEF arguments
  <2> QED
    BY <2>1, BeginArguments
<1>5. CASE ListJobs
  BY <1>5, BeginArguments DEF ListJobs
<1> QED
  BY <1>1, <1>2, <1>3, <1>4, <1>5

\* The steps that change no job: they keep what the call carries, or return.
LEMMA StepsCarry ==
    ASSUME IInv, Arguments,
           \/ AddCreateOptions \/ AddSubmitOptions \/ StartDocument \/ WriteChunk
           \/ Listed \/ CopyList \/ NoDestinationAgreed
    PROVE  Arguments'
<1>1. UNCHANGED <<jobs, handles>> /\ calls' = calls /\ pc # "idle"
  BY DEF AddCreateOptions, AddSubmitOptions, AddOptions, StartDocument, WriteChunk, Listed,
         CopyList, NoDestinationAgreed, Continue, client, Leave
<1>2. Numbered'
  BY <1>1, NumberedKept DEF Arguments, Documents
<1>3. CASE \E freed : Leave(freed)
  BY <1>2, <1>3, LeaveCarries DEF Arguments
<1>4. CASE call' = call /\ \/ Creating /\ pc' = "create"
                           \/ Submitting /\ pc' \in {"start", "write"}
  BY <1>1, <1>2, <1>4 DEF Arguments, Carried, Creating, Submitting
<1>5. CASE /\ call' = [call EXCEPT !.written = @ + Chunk] /\ pc = "write" /\ pc' = pc
  <2>1. call'.size = call.size /\ call'.job = call.job
    BY <1>5 DEF IInv, Client, Calls
  <2> QED
    BY <1>1, <1>2, <1>5, <2>1 DEF Arguments, Carried, Creating, Submitting
<1>6. CASE pc = "list" /\ pc' = pc
  BY <1>2, <1>6 DEF Arguments, Carried, Creating, Submitting
<1>7. \/ \E freed : Leave(freed)
      \/ call' = call /\ Creating /\ pc' = "create"
      \/ call' = call /\ Submitting /\ pc' \in {"start", "write"}
      \/ call' = [call EXCEPT !.written = @ + Chunk] /\ pc = "write" /\ pc' = pc
      \/ pc = "list" /\ pc' = pc
  BY DEF AddCreateOptions, AddSubmitOptions, AddOptions, StartDocument, WriteChunk, Listed,
         CopyList, NoDestinationAgreed, Continue, client, Creating, Submitting
<1> QED
  BY <1>3, <1>4, <1>5, <1>6, <1>7
-----------------------------------------------------------------------------
\* The requests, and what the scheduler does on its own.
LEMMA StateCarries ==
    ASSUME IInv, Arguments, NEW id, NEW state, NEW answer,
           jobs' = IF answer.performed THEN [jobs EXCEPT ![id].state = state] ELSE jobs,
           calls' = calls, pc = "idle" => pc' = "idle"
    PROVE  Numbered'
<1>1. Documents' \subseteq Documents
  BY NoDocumentByState DEF IInv, Promises, Documents
<1> QED
  BY <1>1, NumberedKept DEF Arguments

LEMMA RequestsCarry ==
    ASSUME IInv, Arguments,
           SendCreate \/ FinishDocument \/ SendClose \/ SendCancel \/ TryCancel \/ Scheduler
    PROVE  Arguments'
<1>1. CASE SendCreate
  <2>1. Documents' \subseteq Documents
    <3>1. CASE jobs' = jobs
      BY <3>1 DEF Documents
    <3>2. CASE jobs' = Append(jobs, NewJob)
      BY <3>2, NewJobType, NoDocumentByJob DEF IInv, Promises
    <3> QED
      BY <1>1, <3>1, <3>2 DEF SendCreate
  <2>2. Leave(Everything) /\ pc' = "idle" /\ calls' = calls
    BY <1>1 DEF SendCreate, Leave
  <2> QED
    BY <2>1, <2>2, NumberedKept, LeaveCarries DEF Arguments
<1>2. CASE FinishDocument
  <2>1. Leave(Everything) /\ pc # "idle" /\ pc' = "idle" /\ calls' = calls
    BY <1>2 DEF FinishDocument, SendFinish, Leave
  <2>2. \/ jobs' = jobs
        \/ /\ Open(call.job)
           /\ jobs' = TakeDocument(call.job, [call |-> calls, bytes |-> call.written], call.last)
    <3>1. Open(call.job) \in BOOLEAN
      BY DEF Open
    <3> QED
      BY <1>2, <3>1, AnswerFacts DEF FinishDocument, SendFinish
  <2>3. CASE jobs' = jobs
    BY <2>1, <2>3, NumberedKept, LeaveCarries DEF Arguments, Documents
  <2>4. CASE /\ Open(call.job)
             /\ jobs' = TakeDocument(call.job, [call |-> calls, bytes |-> call.written], call.last)
    <3>1. call.job \in DOMAIN jobs /\ call.last \in BOOLEAN
      BY <2>4 DEF Open, IInv, Client, Calls
    <3>2. Numbered'
      BY <2>1, <2>4, <3>1, NumberedTaken DEF Arguments
    <3> QED
      BY <2>1, <3>2, LeaveCarries DEF Arguments
  <2> QED
    BY <2>2, <2>3, <2>4
<1>3. ASSUME NEW step, NEW possible, NEW state, SendChange(step, possible, state), step # "idle"
      PROVE  Arguments'
  <2>1. Leave({"dest"}) /\ pc' = "idle" /\ calls' = calls
    BY <1>3 DEF SendChange, Leave
  <2> QED
    BY <1>3, <2>1, StateCarries, LeaveCarries DEF SendChange, Arguments
<1>4. CASE TryCancel
  <2>1. pc = "cancel anywhere" /\ calls' = calls /\ pc' \in {"idle", pc}
    BY <1>4 DEF TryCancel, Leave
  <2>2. Carried'
    BY <2>1 DEF Carried, Creating, Submitting
  <2>3. Numbered'
    BY <1>4, <2>1, StateCarries DEF TryCancel
  <2> QED
    BY <2>2, <2>3 DEF Arguments
<1>5. CASE Scheduler
  <2>1. PICK id \in DOMAIN jobs, to \in States : \E from : SetState(id, from, to)
    BY <1>5 DEF Scheduler, States
  <2>2. Numbered'
    <3>1. jobs' = [jobs EXCEPT ![id].state = to] /\ calls' = calls /\ pc' = pc
      BY <2>1 DEF SetState, client
    <3>2. Documents' \subseteq Documents
      BY <3>1, NoDocumentByState DEF IInv, Promises
    <3> QED
      BY <3>1, <3>2, NumberedKept DEF Arguments
  <2>3. Carried'
    BY <2>1 DEF SetState, client, Arguments, Carried, Creating, Submitting
  <2> QED
    BY <2>2, <2>3 DEF Arguments
<1> QED
  BY <1>1, <1>2, <1>3, <1>4, <1>5 DEF SendClose, SendCancel

LEMMA ArgumentsStep == IInv /\ Arguments /\ [Next]_vars => Arguments'
<1> SUFFICES ASSUME IInv, Arguments, [Next]_vars  PROVE Arguments'
  OBVIOUS
<1>1. CASE UNCHANGED vars
  BY <1>1 DEF vars, client, Arguments, Carried, Creating, Submitting, Numbered, Documents
<1> QED
  BY <1>1, CallsCarry, StepsCarry, RequestsCarry DEF Next, Application

-----------------------------------------------------------------------------
(***************************************************************************)
(* A call puts one document into one job: the document is new with its     *)
(* number, and no other step puts any anywhere.                            *)
(***************************************************************************)
Once ==
    \A i, j \in DOMAIN jobs : \A d \in jobs[i].documents, e \in jobs[j].documents :
        d.call = e.call => i = j /\ d = e

\* A step that puts no document into a job.
NothingPut ==
    \A id \in DOMAIN jobs' :
        \/ jobs'[id].documents = {}
        \/ id \in DOMAIN jobs /\ jobs'[id].documents = jobs[id].documents

LEMMA StatePutsNothing ==
    ASSUME IInv, NEW id, NEW state, jobs' = [jobs EXCEPT ![id].state = state]
    PROVE  NothingPut
<1>1. DOMAIN jobs' = DOMAIN jobs
  OBVIOUS
<1>2. ASSUME NEW i \in DOMAIN jobs  PROVE jobs'[i].documents = jobs[i].documents
  <2>1. jobs[i] \in Jobs
    BY LenProperties DEF IInv, Promises
  <2> QED
    BY <2>1 DEF Jobs
<1> QED
  BY <1>1, <1>2 DEF NothingPut

LEMMA JobPutsNothing ==
    ASSUME IInv, jobs' = Append(jobs, NewJob)
    PROVE  NothingPut
<1>1. Len(jobs) \in Nat /\ DOMAIN jobs = 1..Len(jobs)
  BY LenProperties DEF IInv, Promises
<1>2. /\ Append(jobs, NewJob) \in Seq(Jobs)
      /\ Len(Append(jobs, NewJob)) = Len(jobs) + 1
      /\ \A i \in 1..Len(jobs) : Append(jobs, NewJob)[i] = jobs[i]
      /\ Append(jobs, NewJob)[Len(jobs) + 1] = NewJob
  BY NewJobType, AppendProperties DEF IInv, Promises
<1>3. DOMAIN jobs' = 1..(Len(jobs) + 1)
  BY <1>2, LenProperties
<1>4. NewJob.documents = {}
  BY DEF NewJob
<1> QED
  BY <1>1, <1>2, <1>3, <1>4 DEF NothingPut

LEMMA OthersPutNothing ==
    ASSUME IInv, [Next]_vars, ~ FinishDocument
    PROVE  NothingPut
<1>1. CASE jobs' = jobs
  BY <1>1 DEF NothingPut
<1>2. CASE SendCreate
  <2>1. jobs' = jobs \/ jobs' = Append(jobs, NewJob)
    BY <1>2 DEF SendCreate
  <2> QED
    BY <1>1, <2>1, JobPutsNothing
<1>3. CASE SendClose \/ SendCancel \/ TryCancel
  <2>1. jobs' = jobs \/ \E id, state : jobs' = [jobs EXCEPT ![id].state = state]
    BY <1>3 DEF SendClose, SendCancel, TryCancel, SendChange
  <2> QED
    BY <1>1, <2>1, StatePutsNothing
<1>4. CASE Scheduler
  <2>1. \E id, state : jobs' = [jobs EXCEPT ![id].state = state]
    BY <1>4 DEF Scheduler, SetState
  <2> QED
    BY <2>1, StatePutsNothing
<1>5. CASE Application
  BY <1>1, <1>2, <1>3, <1>5
     DEF Application, CreateJob, Submit, Close, Cancel, CancelJob, ListJobs, Begin,
         AddCreateOptions, AddSubmitOptions, AddOptions, StartDocument, WriteChunk, Listed,
         CopyList, NoDestinationAgreed
<1> QED
  BY <1>1, <1>4, <1>5 DEF Next, vars

\* The document of a submission is the first with its number.
LEMMA TakenOnce ==
    ASSUME IInv, Numbered, Once, pc # "idle",
           NEW id \in DOMAIN jobs, NEW last \in BOOLEAN, NEW bytes,
           jobs' = TakeDocument(id, [call |-> calls, bytes |-> bytes], last)
    PROVE  Once'
<1> DEFINE document == [call |-> calls, bytes |-> bytes]
           job == [jobs[id] EXCEPT !.documents = @ \union {document},
                                   !.state = IF last THEN "pending" ELSE @]
<1>1. jobs' = [jobs EXCEPT ![id] = job]
  BY LenProperties DEF TakeDocument, IInv, Promises, Jobs
<1>2. job.documents = jobs[id].documents \union {document}
  BY LenProperties DEF IInv, Promises, Jobs
<1> HIDE DEF job
<1>3. DOMAIN jobs' = DOMAIN jobs
  BY <1>1
<1>4. ASSUME NEW i \in DOMAIN jobs, NEW d \in jobs'[i].documents
      PROVE  d \in jobs[i].documents \/ (i = id /\ d = document)
  BY <1>1, <1>2
<1>5. ASSUME NEW i \in DOMAIN jobs, NEW d \in jobs[i].documents  PROVE d.call # calls
  <2>1. jobs[i] \in Jobs /\ calls \in Int
    BY LenProperties DEF IInv, Promises, Client
  <2>2. d.call \in Int
    BY <2>1 DEF Jobs
  <2>3. d.call < calls
    BY DEF Numbered, Documents
  <2> QED
    BY <2>1, <2>2, <2>3
<1>6. document.call = calls
  OBVIOUS
<1> HIDE DEF document
<1>7. SUFFICES ASSUME NEW i \in DOMAIN jobs, NEW j \in DOMAIN jobs,
                      NEW d \in jobs'[i].documents, NEW e \in jobs'[j].documents,
                      d.call = e.call
               PROVE  i = j /\ d = e
  BY <1>3 DEF Once
<1>8. CASE d \in jobs[i].documents /\ e \in jobs[j].documents
  BY <1>7, <1>8 DEF Once
<1> QED
  BY <1>4, <1>5, <1>6, <1>7, <1>8

LEMMA OnceStep == IInv /\ Arguments /\ Once /\ [Next]_vars => Once'
<1> SUFFICES ASSUME IInv, Arguments, Once, [Next]_vars  PROVE Once'
  OBVIOUS
<1>1. CASE NothingPut
  BY <1>1 DEF NothingPut, Once
<1>2. CASE FinishDocument
  <2>1. \/ jobs' = jobs
        \/ /\ Open(call.job)
           /\ jobs' = TakeDocument(call.job, [call |-> calls, bytes |-> call.written], call.last)
    <3>1. Open(call.job) \in BOOLEAN
      BY DEF Open
    <3> QED
      BY <1>2, <3>1, AnswerFacts DEF FinishDocument, SendFinish
  <2>2. CASE jobs' = jobs
    BY <2>2 DEF Once
  <2>3. CASE /\ Open(call.job)
             /\ jobs' = TakeDocument(call.job, [call |-> calls, bytes |-> call.written], call.last)
    <3>1. call.job \in DOMAIN jobs /\ call.last \in BOOLEAN /\ pc # "idle"
      BY <1>2, <2>3 DEF Open, IInv, Client, Calls, FinishDocument
    <3> QED
      BY <2>3, <3>1, TakenOnce DEF Arguments
  <2> QED
    BY <2>1, <2>2, <2>3
<1> QED
  BY <1>1, <1>2, OthersPutNothing

\* For every size and every chunk size, a submission that returned Ok is in its job whole,
\* and in no other job and no second time in that one (job/mod.rs:183-247).
THEOREM DocumentsWhole == Spec => []AcknowledgedWhole
<1>1. Spec => []Arguments
  BY ArgumentsInit, ArgumentsStep, Invariant, PTL DEF Spec
<1>2. Init => Once
  BY DEF Init, Once
<1>3. IInv /\ Once => AcknowledgedWhole
  <2> SUFFICES ASSUME IInv, Once, NEW s \in acked, NEW id \in DOMAIN jobs,
                      NEW document \in jobs[id].documents, document.call = s.call
               PROVE  id = s.job /\ document.bytes = s.bytes
    BY DEF AcknowledgedWhole, Delivered, IInv, Promises
  <2>1. /\ s.job \in DOMAIN jobs
        /\ [call |-> s.call, bytes |-> s.bytes] \in jobs[s.job].documents
    BY DEF Delivered, IInv, Promises
  <2>2. id = s.job /\ document = [call |-> s.call, bytes |-> s.bytes]
    BY <2>1 DEF Once
  <2> QED
    BY <2>2
<1> QED
  BY <1>1, <1>2, <1>3, OnceStep, Invariant, PTL DEF Spec

-----------------------------------------------------------------------------
(***************************************************************************)
(* Every step is one of JobService's, or changes nothing it knows of.      *)
(***************************************************************************)
LEMMA MovedState ==
    ASSUME NEW id \in DOMAIN jobs, NEW from, NEW to, jobs[id].state \in from,
           jobs' = [jobs EXCEPT ![id].state = to], UNCHANGED <<handles, acked>>
    PROVE  Service!Move(id, from, to)
  BY DEF Service!Move

LEMMA CreateServes ==
    ASSUME IInv, Arguments, SendCreate
    PROVE  [Service!Next]_(Service!vars)
<1>1. PICK answer \in Answers(TRUE) :
         /\ jobs' = IF answer.performed THEN Append(jobs, NewJob) ELSE jobs
         /\ handles' = IF Success(answer) THEN handles \union {Handle} ELSE handles
  BY DEF SendCreate
<1>2. acked' = acked /\ (Success(answer) => answer.performed)
  BY AnswerFacts DEF SendCreate
<1>3. CASE answer.performed
  <2>1. PICK dest \in Dests : call.dests = {dest}
    BY DEF SendCreate, Arguments, Carried, Creating
  <2>2. Service!Create(dest)
    BY <1>1, <1>2, <1>3, <2>1 DEF Service!Create, NewJob, Handle
  <2> QED
    BY <2>2 DEF Service!Next
<1>4. CASE ~ answer.performed
  BY <1>1, <1>2, <1>4 DEF Service!vars
<1> QED
  BY <1>3, <1>4

\* The chunks written add up to the document, which goes to the job of a handle, once.
LEMMA FinishServes ==
    ASSUME IInv, Arguments, FinishDocument
    PROVE  [Service!Next]_(Service!vars)
<1>1. PICK answer \in Answers(Open(call.job)) :
         /\ jobs' = IF answer.performed
                    THEN TakeDocument(call.job, [call |-> calls, bytes |-> call.written],
                                      call.last)
                    ELSE jobs
         /\ acked' = IF Success(answer)
                     THEN acked \union {[job |-> call.job, call |-> calls, bytes |-> call.size]}
                     ELSE acked
  BY DEF FinishDocument, SendFinish
<1>2. handles' = handles /\ pc = "write"
  BY DEF FinishDocument, SendFinish
<1>3. /\ answer.performed => Open(call.job)
      /\ Success(answer) => answer.performed
  <2>1. Open(call.job) \in BOOLEAN
    BY DEF Open
  <2> QED
    BY <2>1, AnswerFacts
<1>4. call.written = call.size /\ call.last \in BOOLEAN
  <2>1. call.written \in Nat /\ call.size \in Nat /\ call.last \in BOOLEAN
    BY DEF IInv, Client, Calls
  <2> QED
    BY <2>1 DEF FinishDocument, Remaining
<1>5. calls \in 1..MaxCalls
  <2>1. calls \in 0..MaxCalls /\ calls # 0
    BY <1>2 DEF IInv, Client, Counted
  <2> QED
    BY <2>1, CallsAssumption DEF CallsAssumption
<1>6. call.size \in Sizes /\ call.size <= MaxSize
  BY <1>2 DEF Arguments, Carried, Submitting
<1>7. PICK handle \in handles : handle.job = call.job
  BY <1>2 DEF Arguments, Carried, Submitting
<1>8. CASE answer.performed
  <2>1. ~ Service!Arrived(calls)
    BY <1>2, <1>5 DEF Service!Arrived, Arguments, Numbered, Documents
  <2>2. handle.job \in DOMAIN jobs /\ jobs[handle.job].state = "open"
    BY <1>3, <1>7, <1>8 DEF Open
  <2>3. Service!Submit(handle, calls, call.size, call.last)
    BY <1>1, <1>2, <1>4, <1>6, <1>7, <1>8, <2>1, <2>2 DEF Service!Submit, TakeDocument
  <2> QED
    BY <1>4, <1>5, <1>6, <2>3 DEF Service!Next
<1>9. CASE ~ answer.performed
  BY <1>1, <1>2, <1>3, <1>9 DEF Service!vars
<1> QED
  BY <1>8, <1>9

LEMMA ChangeServes ==
    ASSUME IInv, Arguments, SendClose \/ SendCancel \/ TryCancel
    PROVE  [Service!Next]_(Service!vars)
<1>1. UNCHANGED <<handles, acked>>
  BY DEF SendClose, SendCancel, TryCancel, SendChange
<1>2. CASE SendClose
  <2>1. PICK answer \in Answers(Open(call.job)) :
           jobs' = IF answer.performed THEN [jobs EXCEPT ![call.job].state = "pending"] ELSE jobs
    BY <1>2 DEF SendClose, SendChange
  <2>2. PICK handle \in handles : handle.job = call.job
    BY <1>2 DEF SendClose, SendChange, Arguments, Carried
  <2>3. CASE answer.performed
    <3>1. call.job \in DOMAIN jobs /\ jobs[call.job].state \in {"open"}
      BY <2>3, AnswerFacts DEF Open
    <3>2. Service!Move(call.job, {"open"}, "pending")
      BY <1>1, <2>1, <2>3, <3>1 DEF Service!Move
    <3>3. Service!Close(handle)
      BY <2>2, <3>2 DEF Service!Close
    <3> QED
      BY <3>3 DEF Service!Next
  <2> QED
    BY <1>1, <2>1, <2>3 DEF Service!vars
<1>3. CASE SendCancel \/ TryCancel
  <2>1. PICK answer \in Answers(Active(call.job)) :
           jobs' = IF answer.performed THEN [jobs EXCEPT ![call.job].state = "canceled"] ELSE jobs
    BY <1>3 DEF SendCancel, SendChange, TryCancel
  <2>2. CASE answer.performed
    <3>1. /\ call.job \in DOMAIN jobs
          /\ jobs[call.job].state \in {"open", "pending", "processing"}
      BY <2>2, AnswerFacts DEF Active
    <3>2. Service!Move(call.job, {"open", "pending", "processing"}, "canceled")
      BY <1>1, <2>1, <2>2, <3>1 DEF Service!Move
    <3>3. Service!Cancel(call.job)
      BY <3>2 DEF Service!Cancel
    <3> QED
      BY <3>1, <3>3 DEF Service!Next
  <2> QED
    BY <1>1, <2>1, <2>2 DEF Service!vars
<1> QED
  BY <1>2, <1>3

LEMMA SchedulerServes ==
    ASSUME Scheduler
    PROVE  [Service!Next]_(Service!vars)
<1>1. PICK id \in DOMAIN jobs :
         \/ SetState(id, {"pending"}, "processing")
         \/ SetState(id, {"processing"}, "completed")
         \/ SetState(id, {"processing"}, "aborted")
         \/ SetState(id, {"open", "pending", "processing"}, "canceled")
  BY DEF Scheduler
<1>2. Service!Progress(id) \/ Service!Cancel(id)
  BY <1>1, MovedState DEF SetState, Service!Progress, Service!Cancel
<1> QED
  BY <1>2 DEF Service!Next

LEMMA ServiceStep == IInv /\ Arguments /\ [Next]_vars => [Service!Next]_(Service!vars)
<1> SUFFICES ASSUME IInv, Arguments, [Next]_vars  PROVE [Service!Next]_(Service!vars)
  OBVIOUS
<1>1. CASE UNCHANGED <<jobs, handles, acked>>
  BY <1>1 DEF Service!vars
<1>2. CASE Scheduler
  BY <1>2, SchedulerServes
<1>3. CASE SendCreate \/ FinishDocument \/ SendClose \/ SendCancel \/ TryCancel
  BY <1>3, CreateServes, FinishServes, ChangeServes
<1>4. CASE Application
  BY <1>1, <1>3, <1>4
     DEF Application, CreateJob, Submit, Close, Cancel, CancelJob, ListJobs, Begin,
         AddCreateOptions, AddSubmitOptions, AddOptions, StartDocument, WriteChunk, Listed,
         CopyList, NoDestinationAgreed
<1> QED
  BY <1>1, <1>2, <1>4 DEF Next, vars

\* Whatever fails in between, the calls do to jobs what JobService says, at one point and
\* completely: documents of every size arrive whole and once, in an open job of the
\* application's, and an answer is given for what was done (job/mod.rs:100-256, 258-375,
\* job/lifecycle.rs:7-44, 46-79, job/management.rs:9-42).
THEOREM JobsServed == Spec => ImplementsService
<1>1. Init => Service!Init
  BY DEF Init, Service!Init
<1>2. Spec => []Arguments
  BY ArgumentsInit, ArgumentsStep, Invariant, PTL DEF Spec
<1> QED
  BY <1>1, <1>2, ServiceStep, Invariant, PTL DEF Spec, ImplementsService, Service!Spec

-----------------------------------------------------------------------------
(***************************************************************************)
(* A job no handle names is only ever the work of a lost answer or of an   *)
(* answer that is a success and not IPP_STATUS_OK.                         *)
(***************************************************************************)
Known == \A id \in DOMAIN jobs : \E handle \in handles : handle.job = id

LEMMA CreationKnown ==
    ASSUME IInv, Known, Statuses \subseteq {"ok"}, LostReplies = FALSE, SendCreate
    PROVE  Known'
<1>1. PICK answer \in Answers(TRUE) :
         /\ jobs' = IF answer.performed THEN Append(jobs, NewJob) ELSE jobs
         /\ handles' = IF Success(answer) THEN handles \union {Handle} ELSE handles
  BY DEF SendCreate
<1>2. answer.performed => Success(answer)
  <2>1. CASE answer = [performed |-> FALSE, status |-> "error"]
    BY <2>1
  <2>2. CASE answer \in [performed : {TRUE}, status : Statuses]
    BY <2>2 DEF Success
  <2> QED
    BY <2>1, <2>2 DEF Answers
<1>3. CASE answer.performed
  <2>1. /\ Len(jobs) \in Nat /\ DOMAIN jobs = 1..Len(jobs)
        /\ DOMAIN Append(jobs, NewJob) = 1..(Len(jobs) + 1)
    <3>1. /\ Append(jobs, NewJob) \in Seq(Jobs)
          /\ Len(Append(jobs, NewJob)) = Len(jobs) + 1
      BY NewJobType, AppendProperties DEF IInv, Promises
    <3> QED
      BY <3>1, LenProperties DEF IInv, Promises
  <2>2. DOMAIN jobs' = DOMAIN jobs \union {Handle.job}
    BY <1>1, <1>3, <2>1 DEF Handle
  <2> QED
    BY <1>1, <1>2, <1>3, <2>2 DEF Known
<1>4. CASE ~ answer.performed
  <2>1. jobs' = jobs /\ handles \subseteq handles'
    BY <1>1, <1>4
  <2> QED
    BY <2>1 DEF Known
<1> QED
  BY <1>3, <1>4

\* Jobs are made by creations alone, and nothing takes a handle away.
LEMMA NoJobOtherwise ==
    ASSUME [Next]_vars, ~ SendCreate
    PROVE  DOMAIN jobs' = DOMAIN jobs /\ handles' = handles
<1>1. CASE UNCHANGED <<jobs, handles>>
  BY <1>1
<1>2. CASE FinishDocument
  BY <1>2 DEF FinishDocument, SendFinish, TakeDocument
<1>3. CASE SendClose \/ SendCancel \/ TryCancel
  BY <1>3 DEF SendClose, SendCancel, TryCancel, SendChange
<1>4. CASE Scheduler
  BY <1>4 DEF Scheduler, SetState
<1>5. CASE Application
  BY <1>1, <1>2, <1>3, <1>5
     DEF Application, CreateJob, Submit, Close, Cancel, CancelJob, ListJobs, Begin,
         AddCreateOptions, AddSubmitOptions, AddOptions, StartDocument, WriteChunk, Listed,
         CopyList, NoDestinationAgreed
<1> QED
  BY <1>1, <1>4, <1>5 DEF Next, vars

\* Where every answer arrives and success is IPP_STATUS_OK, a creation reported as an error
\* leaves no job behind (job/mod.rs:348-374).
THEOREM NoOrphans ==
    ASSUME Statuses \subseteq {"ok"}, LostReplies = FALSE
    PROVE  Spec => []EveryJobHasAHandle
<1>1. Init => Known
  BY DEF Init, Known
<1>2. IInv /\ Known /\ [Next]_vars => Known'
  <2> SUFFICES ASSUME IInv, Known, [Next]_vars  PROVE Known'
    OBVIOUS
  <2> QED
    BY CreationKnown, NoJobOtherwise DEF Known
<1>3. Known => EveryJobHasAHandle
  BY DEF Known, EveryJobHasAHandle
<1> QED
  BY <1>1, <1>2, <1>3, Invariant, PTL DEF Spec
=============================================================================
