----------------------------- MODULE JobService -----------------------------
(***************************************************************************)
(* What an application may rely on when it prints with src/src/job, without*)
(* requests, chunks, answers and allocations: whatever an operation does   *)
(* to a job it does at one point and to one job, or not at all; a document *)
(* arrives whole and once, in an open job; and what the application is told*)
(* of has been done.                                                       *)
(***************************************************************************)
EXTENDS Naturals, Sequences

CONSTANTS
    Dests,        \* destinations
    Sizes,        \* sizes of documents
    MaxSize,      \* of a document that may be submitted
    Submissions   \* calls that submit a document

VARIABLES
    jobs,         \* the jobs there are; a job's id is its index
    handles,      \* the Job values the application was given
    acked         \* the submissions it was told of

vars == <<jobs, handles, acked>>

Init == jobs = <<>> /\ handles = {} /\ acked = {}

\* The application may not be told.
Create(dest) ==
    /\ jobs' = Append(jobs, [dests |-> {dest}, state |-> "open", documents |-> {}])
    /\ \/ handles' = handles \union {[job |-> Len(jobs) + 1, dests |-> {dest}]}
       \/ UNCHANGED handles
    /\ UNCHANGED acked

Arrived(n) == \E id \in DOMAIN jobs : \E document \in jobs[id].documents : document.call = n

Submit(handle, n, size, last) ==
    LET id == handle.job IN
    /\ id \in DOMAIN jobs /\ jobs[id].state = "open"
    /\ size <= MaxSize /\ ~ Arrived(n)
    /\ jobs' = [jobs EXCEPT ![id].documents = @ \union {[call |-> n, bytes |-> size]},
                            ![id].state = IF last THEN "pending" ELSE @]
    /\ \/ acked' = acked \union {[job |-> id, call |-> n, bytes |-> size]}
       \/ UNCHANGED acked
    /\ UNCHANGED handles

Move(id, from, to) ==
    /\ id \in DOMAIN jobs /\ jobs[id].state \in from
    /\ jobs' = [jobs EXCEPT ![id].state = to]
    /\ UNCHANGED <<handles, acked>>

Close(handle) == Move(handle.job, {"open"}, "pending")
Cancel(id)    == Move(id, {"open", "pending", "processing"}, "canceled")
Progress(id)  == \/ Move(id, {"pending"}, "processing")
                 \/ \E to \in {"completed", "aborted"} : Move(id, {"processing"}, to)

Next ==
    \/ \E dest \in Dests : Create(dest)
    \/ \E handle \in handles :
          \/ \E n \in Submissions, size \in Sizes, last \in BOOLEAN :
                Submit(handle, n, size, last)
          \/ Close(handle)
    \/ \E id \in DOMAIN jobs : Cancel(id) \/ Progress(id)

Spec == Init /\ [][Next]_vars
=============================================================================
