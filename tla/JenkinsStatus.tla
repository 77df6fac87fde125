---------------------------- MODULE JenkinsStatus ----------------------------
(***************************************************************************)
(* event_handler of the Jenkins API client: from the JSON parser's events  *)
(* it finds the jobs of the response and calls status_cb with the name and *)
(* the color of each.  It keeps no stack; jobsLevel counts where it is: 1  *)
(* after the key "jobs", 2 in its array, 3 in a job, more inside a job.    *)
(*                                                                         *)
(* The other party is the response as the JSON parser reports it: members  *)
(* of any shape, then "jobs" with an array of jobs.  A job has a name and  *)
(* a color, in any order and among other members of any shape, which may   *)
(* use the same keys inside.  The request asks for jobs[name,color] alone, *)
(* so nothing follows the array.                                           *)
(***************************************************************************)
EXTENDS Integers, Sequences

CONSTANTS
    MaxJobs,    \* bound: jobs of a response
    MaxDepth    \* bound: grammar symbols open at a time

ASSUME MaxJobsAssumption == MaxJobs \in Nat
ASSUME MaxDepthAssumption == MaxDepth \in Nat

VARIABLES
    level, jobsLevel, setColor, setName,    \* members of struct jac_state
    currentName, currentColor,              \* the job it is of, or Junk
    reported,                               \* calls of status_cb
    \* the response
    todo,                                   \* grammar symbols still to produce
    jobs,                                   \* jobs begun
    given                                   \* members the job has had

handler == <<level, jobsLevel, setColor, setName, currentName, currentColor, reported>>
document == <<todo, jobs, given>>
statusVars == <<handler, document>>

\* A key that only begins with "jobs", "name" or "color" is taken for it
\* (strncmp), and is not a member of a response here.
Junk == 0
Keys == {"jobs", "name", "color", "other"}

\* jenkins_get_status; it does not set the two flags and the two strings.
StatusInit ==
    /\ level = -1 /\ jobsLevel = 0
    /\ setColor \in BOOLEAN /\ setName \in BOOLEAN
    /\ currentName = Junk /\ currentColor = Junk
    /\ reported = <<>>
    /\ todo = <<"response">> /\ jobs = 0 /\ given = {}
-----------------------------------------------------------------------------
\* case EVENT_STRUCT_START
StructStart ==
    /\ level' = level + 1
    /\ jobsLevel' = IF jobsLevel >= 1 THEN jobsLevel + 1 ELSE jobsLevel
    /\ UNCHANGED <<setColor, setName, currentName, currentColor, reported>>

\* case EVENT_STRUCT_END
StructEnd ==
    /\ level' = level - 1
    /\ jobsLevel' = IF jobsLevel > 0 THEN jobsLevel - 1 ELSE jobsLevel
    /\ reported' = IF jobsLevel = 3 THEN Append(reported, <<currentName, currentColor>>)
                                    ELSE reported
    /\ UNCHANGED <<setColor, setName, currentName, currentColor>>

\* case EVENT_ARRAY_START
ArrayStart ==
    /\ jobsLevel' = IF jobsLevel = 1 THEN 2 ELSE jobsLevel
    /\ UNCHANGED <<level, setColor, setName, currentName, currentColor, reported>>

\* case EVENT_ARRAY_END
ArrayEnd ==
    /\ jobsLevel' = IF jobsLevel = 2 THEN 1 ELSE jobsLevel
    /\ UNCHANGED <<level, setColor, setName, currentName, currentColor, reported>>

\* case EVENT_KEY
Key(key) ==
    /\ jobsLevel' = IF level = 0 /\ key = "jobs" THEN jobsLevel + 1 ELSE jobsLevel
    /\ setColor' = (jobsLevel' = 3 /\ key = "color")
    /\ setName' = (jobsLevel' = 3 /\ key = "name")
    /\ UNCHANGED <<level, currentName, currentColor, reported>>

\* case EVENT_STRING
String(data) ==
    /\ currentColor' = IF setColor /\ jobsLevel = 3 THEN data ELSE currentColor
    /\ currentName' = IF ~setColor /\ setName /\ jobsLevel = 3 THEN data ELSE currentName
    /\ UNCHANGED <<level, jobsLevel, setColor, setName, reported>>
-----------------------------------------------------------------------------
\* The first symbol of what is left to produce is replaced by others.
Is(symbol) == todo # <<>> /\ Head(todo) = symbol
Then(symbols) ==
    /\ todo' = symbols \o Tail(todo)
    /\ Len(todo') <= MaxDepth

\* The response and its members up to "jobs".
Response ==
    /\ UNCHANGED <<jobs, given>>
    /\ \/ Is("response") /\ StructStart /\ Then(<<"members">>)
       \/ Is("members") /\ Key("other") /\ Then(<<"value", "members">>)
       \/ Is("members") /\ Key("jobs") /\ Then(<<"array", "end">>)
       \/ Is("array") /\ ArrayStart /\ Then(<<"jobs">>)
       \/ Is("jobs") /\ ArrayEnd /\ Then(<<>>)
       \/ Is("end") /\ StructEnd /\ Then(<<>>)

\* A job: both members, once each, and others.
JobStart ==
    /\ Is("jobs") /\ jobs < MaxJobs
    /\ StructStart
    /\ jobs' = jobs + 1 /\ given' = {}
    /\ Then(<<"job", "jobs">>)

JobMember ==
    /\ Is("job")
    /\ UNCHANGED jobs
    /\ \/ \E key \in {"name", "color"} \ given :
            Key(key) /\ given' = given \cup {key} /\ Then(<<"content", "job">>)
       \/ Key("other") /\ UNCHANGED given /\ Then(<<"value", "job">>)

JobString ==
    /\ Is("content")
    /\ String(jobs) /\ Then(<<>>) /\ UNCHANGED <<jobs, given>>

JobEnd ==
    /\ Is("job") /\ given = {"name", "color"}
    /\ StructEnd /\ Then(<<>>) /\ UNCHANGED <<jobs, given>>

\* Any other value: a string, a structure with any keys, an array.
Value ==
    /\ UNCHANGED <<jobs, given>>
    /\ \/ Is("value") /\ String(Junk) /\ Then(<<>>)
       \/ Is("value") /\ StructStart /\ Then(<<"inner">>)
       \/ Is("value") /\ ArrayStart /\ Then(<<"items">>)
       \/ Is("inner") /\ StructEnd /\ Then(<<>>)
       \/ Is("inner") /\ \E key \in Keys : Key(key) /\ Then(<<"value", "inner">>)
       \/ Is("items") /\ String(Junk) /\ Then(<<"items">>)
       \/ Is("items") /\ StructStart /\ Then(<<"inner", "items">>)
       \/ Is("items") /\ ArrayStart /\ Then(<<"items", "items">>)
       \/ Is("items") /\ ArrayEnd /\ Then(<<>>)

Event == Response \/ JobStart \/ JobMember \/ JobString \/ JobEnd \/ Value

\* Fault: the counters go on from the request before.
AgainKeepsLevel ==
    /\ UNCHANGED <<level, jobsLevel>>
    /\ setColor' \in BOOLEAN /\ setName' \in BOOLEAN
    /\ currentName' = Junk /\ currentColor' = Junk
    /\ reported' = <<>>
    /\ todo' = <<"response">> /\ jobs' = 0 /\ given' = {}

\* Another request, wherever the last one was cut off, with whatever was in
\* the memory.
Again ==
    /\ level' = -1 /\ jobsLevel' = 0
    /\ setColor' \in BOOLEAN /\ setName' \in BOOLEAN
    /\ currentName' = Junk /\ currentColor' = Junk
    /\ reported' = <<>>
    /\ todo' = <<"response">> /\ jobs' = 0 /\ given' = {}
-----------------------------------------------------------------------------
(* status_cb is called once for each job that has ended, in order, with    *)
(* the name and the color of that job, whatever else the job and the       *)
(* members before the array contain, and wherever the response to an       *)
(* earlier request was cut off.                                            *)
JobsReported ==
    LET ended == IF \E n \in 1 .. Len(todo) : todo[n] = "job" THEN jobs - 1 ELSE jobs
    IN  reported = [n \in 1 .. ended |-> <<n, n>>]
=============================================================================
