----------------------------- MODULE PrintJobs -----------------------------
(***************************************************************************)
(* src/src/job: an application creates jobs, submits documents in chunks,  *)
(* closes and cancels, one blocking call at a time on CUPS_HTTP_DEFAULT,   *)
(* while the scheduler prints and other clients cancel.                    *)
(*                                                                         *)
(* Every call builds a cups_dest_s with Destination::as_ptr, which leaks   *)
(* it to the caller, and maybe an option array; each of its ways out has   *)
(* to free both by hand. `heap` is what the running call has allocated.    *)
(***************************************************************************)
EXTENDS Integers, Sequences

CONSTANTS
    Dests,        \* destinations
    Sizes,        \* sizes of the documents submitted
    MaxSize,      \* check_document_size's limit
    ChunkSize,    \* bytes per cupsWriteRequestData
    Statuses,     \* IPP statuses the scheduler answers a request it performed with
    LostReplies,  \* a request may be performed and its answer lost
    MaxCalls      \* bound: calls the application makes

SizeAssumption == Sizes \subseteq Nat /\ MaxSize \in Nat /\ ChunkSize \in Nat \ {0}
StatusAssumption == Statuses \subseteq {"ok", "ok-ignored-or-substituted"}
CallsAssumption == MaxCalls \in Nat
ASSUME SizeAssumption
ASSUME StatusAssumption
ASSUME CallsAssumption

\* The strings passed after the destination is built, that is the options and, for a
\* document, its name: no options, options, or a string with a NUL byte among them.
Options == {"none", "text", "nul"}

VARIABLES
    jobs,     \* the scheduler's jobs; a job's id is its index
    pc,       \* the next step of the running call, "idle" between calls
    call,     \* its arguments and locals
    calls,    \* calls made
    heap,     \* what is allocated meanwhile: "dest", "options", "jobs"
    leaked,   \* the steps at which a call returned with something still allocated
    handles,  \* the Job values the application was given
    acked     \* the submissions that returned Ok

client == <<call, calls, heap, leaked>>
vars   == <<jobs, pc, client, handles, acked>>

NoCall == [job |-> 0, dests |-> {}, options |-> "none", size |-> 0, written |-> 0,
           last |-> FALSE]

Init ==
    /\ jobs = <<>>
    /\ pc = "idle" /\ call = NoCall /\ calls = 0
    /\ heap = {} /\ leaked = {}
    /\ handles = {} /\ acked = {}

-----------------------------------------------------------------------------
\* What the calls share.

\* A call starts. Until as_ptr nothing is allocated, and a title, format, file, size or
\* the destination's information may end the call with an error before that.
Begin(step, allocated, arguments) ==
    /\ pc = "idle" /\ calls < MaxCalls
    /\ calls' = calls + 1
    /\ \/ pc' = step /\ call' = arguments /\ heap' = allocated
       \/ UNCHANGED <<pc, call, heap>>
    /\ UNCHANGED <<jobs, leaked, handles, acked>>

Continue(step) == pc' = step /\ UNCHANGED client

\* The call returns, having freed what that way out frees.
Leave(freed) ==
    /\ pc' = "idle" /\ call' = NoCall /\ heap' = {}
    /\ leaked' = IF heap \subseteq freed THEN leaked ELSE leaked \union {pc}
    /\ UNCHANGED calls

Everything == {"dest", "options"}

\* What becomes of a request: the scheduler refuses it, or performs it and answers.
Answers(possible) ==
    {[performed |-> FALSE, status |-> "error"]}
    \union [performed : IF possible THEN {TRUE} ELSE {},
            status : Statuses \union (IF LostReplies THEN {"error"} ELSE {})]

\* `status == IPP_STATUS_OK`, which every operation takes for success.
Success(answer) == answer.status = "ok"

Open(id)   == id \in DOMAIN jobs /\ jobs[id].state = "open"
Active(id) == id \in DOMAIN jobs /\ jobs[id].state \in {"open", "pending", "processing"}

\* The option loop: `?` on a string with a NUL leaves the destination behind.
AddOptions(to) ==
    /\ \/ call.options = "none" /\ Continue(to)
       \/ /\ call.options = "text"
          /\ pc' = to /\ heap' = heap \union {"options"}
          /\ UNCHANGED <<call, calls, leaked>>
       \/ call.options = "nul" /\ Leave({})
    /\ UNCHANGED <<jobs, handles, acked>>

-----------------------------------------------------------------------------
\* create_job and create_job_with_options.

CreateJob(dest, options) ==
    Begin("create options", {"dest"}, [NoCall EXCEPT !.dests = {dest}, !.options = options])

AddCreateOptions == pc = "create options" /\ AddOptions("create")

NewJob == [dests |-> call.dests, state |-> "open", documents |-> {}]
Handle == [job |-> Len(jobs) + 1, dests |-> call.dests]

SendCreate_AnyAnswer ==
    /\ pc = "create"
    /\ \E answer \in Answers(TRUE) :
          jobs' = IF answer.performed THEN Append(jobs, NewJob) ELSE jobs
    /\ handles' = handles \union {Handle}
    /\ Leave(Everything)
    /\ UNCHANGED acked

SendCreate ==
    /\ pc = "create"
    /\ \E answer \in Answers(TRUE) :
          /\ jobs' = IF answer.performed THEN Append(jobs, NewJob) ELSE jobs
          /\ handles' = IF Success(answer) THEN handles \union {Handle} ELSE handles
    /\ Leave(Everything)
    /\ UNCHANGED acked

-----------------------------------------------------------------------------
\* submit_file_with_options and submit_data_with_options.

Submit(handle, size, options, last) ==
    /\ size <= MaxSize
    /\ Begin("submit options", {"dest"},
             [NoCall EXCEPT !.job = handle.job, !.options = options, !.size = size,
                            !.last = last])

AddSubmitOptions == pc = "submit options" /\ AddOptions("start")

\* cupsStartDestDocument answers HTTP_STATUS_CONTINUE, or not.
StartDocument ==
    /\ pc = "start"
    /\ Continue("write") \/ Leave(Everything)
    /\ UNCHANGED <<jobs, handles, acked>>

Remaining == call.size - call.written

Chunk_Whole == ChunkSize
Chunk == IF Remaining < ChunkSize THEN Remaining ELSE ChunkSize

WriteChunk_LeakOptions ==
    /\ pc = "write" /\ Remaining > 0
    /\ \/ call' = [call EXCEPT !.written = @ + Chunk] /\ UNCHANGED <<pc, calls, heap, leaked>>
       \/ Leave({"dest"})
    /\ UNCHANGED <<jobs, handles, acked>>

\* A chunk is written; or the connection fails, and the request is never finished.
WriteChunk ==
    /\ pc = "write" /\ Remaining > 0
    /\ \/ call' = [call EXCEPT !.written = @ + Chunk] /\ UNCHANGED <<pc, calls, heap, leaked>>
       \/ Leave(Everything)
    /\ UNCHANGED <<jobs, handles, acked>>

\* The scheduler takes a document for a job still open; the last one closes the job.
TakeDocument(id, document, last) ==
    [jobs EXCEPT ![id].documents = @ \union {document},
                 ![id].state = IF last THEN "pending" ELSE @]

SendFinish ==
    /\ \E answer \in Answers(Open(call.job)) :
          /\ jobs' = IF answer.performed
                     THEN TakeDocument(call.job, [call |-> calls, bytes |-> call.written], call.last)
                     ELSE jobs
          /\ acked' = IF Success(answer)
                      THEN acked \union {[job |-> call.job, call |-> calls, bytes |-> call.size]}
                      ELSE acked
    /\ Leave(Everything)
    /\ UNCHANGED handles

FinishDocument_PartialChunk == pc = "write" /\ Remaining < ChunkSize /\ SendFinish

FinishDocument == pc = "write" /\ Remaining = 0 /\ SendFinish

-----------------------------------------------------------------------------
\* Job::close, Job::cancel and the free function cancel_job.

Close(handle)  == Begin("close", {"dest"}, [NoCall EXCEPT !.job = handle.job])
Cancel(handle) == Begin("cancel", {"dest"}, [NoCall EXCEPT !.job = handle.job])

\* The request moves the job to another state, and the destination is freed.
SendChange(step, possible, state) ==
    /\ pc = step
    /\ \E answer \in Answers(possible) :
          jobs' = IF answer.performed THEN [jobs EXCEPT ![call.job].state = state] ELSE jobs
    /\ Leave({"dest"})
    /\ UNCHANGED <<handles, acked>>

SendClose  == SendChange("close", Open(call.job), "pending")
SendCancel == SendChange("cancel", Active(call.job), "canceled")

\* cancel_job asks every destination in turn until one agrees; each cups_dest_s is
\* freed before the next is built.
CancelJob(id) == Begin("cancel anywhere", {}, [NoCall EXCEPT !.job = id, !.dests = Dests])

TryCancel ==
    /\ pc = "cancel anywhere"
    /\ \E dest \in call.dests, answer \in Answers(Active(call.job)) :
          /\ jobs' = IF answer.performed
                     THEN [jobs EXCEPT ![call.job].state = "canceled"] ELSE jobs
          /\ IF Success(answer) THEN Leave({})
             ELSE call' = [call EXCEPT !.dests = @ \ {dest}]
                  /\ UNCHANGED <<pc, calls, heap, leaked>>
    /\ UNCHANGED <<handles, acked>>

NoDestinationAgreed ==
    /\ pc = "cancel anywhere" /\ call.dests = {}
    /\ Leave({})
    /\ UNCHANGED <<jobs, handles, acked>>

-----------------------------------------------------------------------------
\* get_jobs, get_active_jobs, get_completed_jobs and, on top of them, get_job_info: libcups
\* allocates the list, which is copied and freed; without an answer the result is empty.
ListJobs == Begin("list", {}, NoCall)

Listed ==
    /\ pc = "list" /\ heap = {}
    /\ \/ heap' = {"jobs"} /\ UNCHANGED <<pc, call, calls, leaked>>
       \/ Leave({})
    /\ UNCHANGED <<jobs, handles, acked>>

CopyList ==
    /\ pc = "list" /\ heap = {"jobs"}
    /\ Leave({"jobs"})
    /\ UNCHANGED <<jobs, handles, acked>>

-----------------------------------------------------------------------------
\* The scheduler prints; another client may cancel a job.
SetState(id, from, to) ==
    /\ jobs[id].state \in from
    /\ jobs' = [jobs EXCEPT ![id].state = to]
    /\ UNCHANGED <<pc, client, handles, acked>>

Scheduler ==
    \E id \in DOMAIN jobs :
       \/ SetState(id, {"pending"}, "processing")
       \/ SetState(id, {"processing"}, "completed")
       \/ SetState(id, {"processing"}, "aborted")
       \/ SetState(id, {"open", "pending", "processing"}, "canceled")

Application ==
    \/ \E dest \in Dests, options \in Options : CreateJob(dest, options)
    \/ \E handle \in handles, size \in Sizes, options \in Options, last \in BOOLEAN :
          Submit(handle, size, options, last)
    \/ \E handle \in handles : Close(handle) \/ Cancel(handle)
    \/ \E id \in 1..MaxCalls : CancelJob(id)
    \/ AddCreateOptions \/ SendCreate
    \/ AddSubmitOptions \/ StartDocument \/ WriteChunk \/ FinishDocument
    \/ ListJobs \/ Listed \/ CopyList
    \/ SendClose \/ SendCancel \/ TryCancel \/ NoDestinationAgreed

Next == Application \/ Scheduler

Spec == Init /\ [][Next]_vars

-----------------------------------------------------------------------------
Steps == {"idle", "create options", "create", "submit options", "start", "write",
          "close", "cancel", "cancel anywhere", "list"}

Jobs == [dests : SUBSET Dests,
         state : {"open", "pending", "processing", "completed", "canceled", "aborted"},
         documents : SUBSET [call : 1..MaxCalls, bytes : Nat]]
Calls == [job : Nat, dests : SUBSET Dests, options : Options, size : Nat,
          written : Nat, last : BOOLEAN]

\* Every variable has its type, and no more is written than there is to write.
TypeOK ==
    /\ jobs \in Seq(Jobs)
    /\ pc \in Steps
    /\ call \in Calls /\ call.written <= call.size
    /\ calls \in 0..MaxCalls
    /\ heap \subseteq Everything \union {"jobs"}
    /\ leaked \subseteq Steps
    /\ handles \subseteq [job : Nat, dests : SUBSET Dests]
    /\ acked \subseteq [job : Nat, call : 1..MaxCalls, bytes : Nat]

\* A Job value names a job the scheduler created, for the destination it was created
\* for, whatever answers are lost (job/mod.rs:296-300, 367-374).
HandlesAreJobs ==
    \A handle \in handles : /\ handle.job \in DOMAIN jobs
                            /\ jobs[handle.job].dests = handle.dests

\* A submission that returned Ok put the whole document into its job, no chunk left out at
\* the end or at a boundary, and put nothing else anywhere: no other job has a document of
\* it, nor its job a second one (job/mod.rs:183-247).
AcknowledgedWhole ==
    \A s \in acked :
        /\ s.job \in DOMAIN jobs
        /\ [call |-> s.call, bytes |-> s.bytes] \in jobs[s.job].documents
        /\ \A id \in DOMAIN jobs : \A document \in jobs[id].documents :
              document.call = s.call => id = s.job /\ document.bytes = s.bytes

\* Whichever way a call returns, everything it allocated for libcups has been freed,
\* except where an option string holds a NUL (job/mod.rs:125-127, 159-181, 320-322).
OnlyNulLeaks == leaked \subseteq {"create options", "submit options"}

\* A creation reported as an error leaves no job behind at the scheduler, and every job
\* created can be named by its creator. It takes answers that all arrive, and a scheduler
\* whose only success is IPP_STATUS_OK (job/mod.rs:348-374).
EveryJobHasAHandle ==
    pc = "idle" => \A id \in DOMAIN jobs : \E handle \in handles : handle.job = id

-----------------------------------------------------------------------------
Service == INSTANCE JobService WITH Submissions <- 1..MaxCalls

\* What the calls do to jobs, they do at one point and completely: documents written in
\* chunks arrive whole and once, in a job that is open, whatever write, answer or call
\* fails in between, and no call touches a job it does not name (job/mod.rs:100-256,
\* 258-375, job/lifecycle.rs:7-44, 46-79, job/management.rs:9-42).
ImplementsService == Service!Spec
=============================================================================
