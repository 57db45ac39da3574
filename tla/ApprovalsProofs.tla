---------------------------- MODULE ApprovalsProofs ----------------------------
(***************************************************************************)
(* An approval reports something that was executed, no job is shown as     *)
(* running that no thread works on, and the map, the list and the files of *)
(* the jobs agree, for any sessions, calls and bounds.                     *)
(***************************************************************************)
EXTENDS Approvals, TLAPS

Stages == {"none", "inserted", "recorded", "working", "ended", "gone"}

(* What the registry and the files hold has the shape of a job's state. *)
JobsShape ==
  /\ registry \in [Ids -> States \cup {Nothing}]
  /\ files \in [Ids -> States \cup {Nothing}]
  /\ worker \in [Ids -> Stages]

JobsInv == JobsShape /\ NoGhosts

(* No step forgets that a job was started. *)
JobsStay == \A j \in Ids : worker[j] # "none" => worker'[j] # "none"

LEMMA ReloadMarks ==
  ASSUME JobsInv, Reload
  PROVE  JobsInv' /\ JobsStay
<1> USE JobsAssumption DEF JobsInv, JobsShape, States, Stages
<1>1. PICK torn \in SUBSET Ids :
        LET loaded == Interrupted(Surviving(torn))
        IN  /\ registry' = loaded /\ files' = loaded
            /\ worker' = [j \in Ids |-> IF worker[j] = "none" THEN "none" ELSE "gone"]
  BY DEF Reload
<1>2. Interrupted(Surviving(torn)) \in [Ids -> {"done", "failed", Nothing}]
  BY DEF Interrupted, Surviving
<1> QED
  BY <1>1, <1>2 DEF NoGhosts, JobsStay

LEMMA ThreadsKeepJobs ==
  ASSUME JobsInv, NEW j \in Ids, Insert(j) \/ StartStep(j) \/ WorkStep(j)
  PROVE  JobsInv' /\ JobsStay
<1> USE JobsAssumption DEF JobsInv, JobsShape, States, Stages, NoGhosts, JobsStay,
                           Starting, Goto
<1>1. CASE Insert(j)
  BY <1>1 DEF Insert
<1>2. CASE PersistStart(j)
  BY <1>2 DEF PersistStart, Persist
<1>3. CASE Remember(j)
  BY <1>3 DEF Remember
<1>4. CASE PersistEnd(j)
  BY <1>4 DEF PersistEnd, Persist
<1>5. ASSUME NEW outcome \in Outcomes, End(j, outcome)
      PROVE  JobsInv' /\ JobsStay
  BY <1>5 DEF End, Outcomes
<1> QED
  BY <1>1, <1>2, <1>3, <1>4, <1>5 DEF StartStep, WorkStep

(* What a result must be, to be reported for a call. *)
IsOutcome(a, result) ==
  IF a \in AsJob
  THEN \/ result \in Ids /\ worker[result] # "none"
       \/ result = 0 /\ ran[a] > 0
  ELSE result \in 1 .. ran[a]

LedgerShape ==
  /\ DOMAIN ledger = Actions
  /\ \A a \in Actions : {"state", "result"} \subseteq DOMAIN ledger[a]

(* A handler reports only what it has executed itself. *)
TapReports(tap) ==
  /\ {"at", "action", "job", "result", "approves"} \subseteq DOMAIN tap
  /\ tap.at # "idle" => tap.action \in Actions
  /\ tap.at = "starting" => IsOutcome(tap.action, tap.job) /\ tap.action \in AsJob
  /\ tap.at = "resolve" => IsOutcome(tap.action, tap.result)

TapsReport == DOMAIN taps = Sessions /\ \A s \in Sessions : TapReports(taps[s])

ApprovalsInv ==
  JobsInv /\ ran \in [Actions -> Nat] /\ LedgerShape /\ TapsReport /\ ApprovedHasRun

LEMMA InvInit == Init => ApprovalsInv
<1> SUFFICES ASSUME Init PROVE ApprovalsInv
  OBVIOUS
<1>1. JobsInv
  BY JobsAssumption DEF Init, JobsInit, JobsInv, JobsShape, NoGhosts, States, Stages
<1>2. LedgerShape /\ ApprovedHasRun
  BY DEF Init, LedgerShape, ApprovedHasRun, NoAction, Queued
<1>3. TapsReport
  BY DEF Init, TapsReport, TapReports, Idle
<1> QED
  BY <1>1, <1>2, <1>3 DEF ApprovalsInv, Init

(* The outcomes there are stay: executions are counted, jobs are started.  *)
Grows == JobsStay /\ ran' \in [Actions -> Nat] /\ \A a \in Actions : ran[a] <= ran'[a]

LEMMA OutcomesStay ==
  ASSUME ran \in [Actions -> Nat], Grows, NEW a \in Actions, NEW result, IsOutcome(a, result)
  PROVE  IsOutcome(a, result)'
  BY DEF Grows, JobsStay, IsOutcome

LEMMA LedgerStays ==
  ASSUME ApprovalsInv, Grows, UNCHANGED ledger
  PROVE  LedgerShape' /\ ApprovedHasRun'
<1>1. ASSUME NEW a \in Actions, ledger[a].state = "approved"
      PROVE  IsOutcome(a, ledger[a].result)'
  BY <1>1, OutcomesStay DEF ApprovalsInv, ApprovedHasRun, IsOutcome
<1> QED
  BY <1>1 DEF ApprovalsInv, LedgerShape, ApprovedHasRun, IsOutcome

LEMMA OthersReport ==
  ASSUME ApprovalsInv, Grows, NEW u \in Sessions, taps'[u] = taps[u]
  PROVE  TapReports(taps[u])'
<1>1. TapReports(taps[u])
  BY DEF ApprovalsInv, TapsReport
<1>2. ASSUME NEW a \in Actions, NEW result, IsOutcome(a, result)
      PROVE  IsOutcome(a, result)'
  BY <1>2, OutcomesStay DEF ApprovalsInv
<1>3. CASE taps[u].at \in {"starting", "resolve"}
  <2>1. taps[u].action \in Actions
    BY <1>1, <1>3 DEF TapReports
  <2>2. IsOutcome(taps[u].action, taps[u].job) =>
          LET a == taps[u].action r == taps[u].job
          IN  IF a \in AsJob
              THEN (r \in Ids /\ worker'[r] # "none") \/ (r = 0 /\ ran'[a] > 0)
              ELSE r \in 1 .. ran'[a]
    BY <1>2, <2>1 DEF IsOutcome, ApprovalsInv, Grows, JobsStay
  <2>3. IsOutcome(taps[u].action, taps[u].result) =>
          LET a == taps[u].action r == taps[u].result
          IN  IF a \in AsJob
              THEN (r \in Ids /\ worker'[r] # "none") \/ (r = 0 /\ ran'[a] > 0)
              ELSE r \in 1 .. ran'[a]
    BY <1>2, <2>1 DEF IsOutcome, ApprovalsInv, Grows, JobsStay
  <2> QED
    BY <1>1, <1>3, <2>1, <2>2, <2>3 DEF TapReports, IsOutcome
<1>4. CASE taps[u].at \notin {"starting", "resolve"}
  BY <1>1, <1>4 DEF TapReports
<1> QED
  BY <1>3, <1>4

(* A handler that begins has nothing to report, and one that is dropped or *)
(* has answered has nothing left to.                                       *)
LEMMA FreshTapReports ==
  ASSUME ApprovalsInv, Grows, NEW s \in Sessions, DOMAIN taps' = Sessions,
         \A u \in Sessions \ {s} : taps'[u] = taps[u], TapReports(taps[s])'
  PROVE  TapsReport'
  BY OthersReport DEF TapsReport

LEMMA NothingGrows ==
  ASSUME ApprovalsInv, UNCHANGED <<jobVars, ran>>
  PROVE  JobsInv' /\ Grows
  BY DEF ApprovalsInv, JobsInv, JobsShape, NoGhosts, Starting, jobVars, Grows, JobsStay

(* What queues a call, or begins to make one. *)
LEMMA AskingKeepsInv ==
  ASSUME ApprovalsInv,
         \/ \E a \in Actions, s \in Sessions : CallTool(s, a) \/ TapApprove(s, a)
         \/ \E suggested \in SUBSET Actions : RunReport(suggested)
         \/ \E a \in Actions : TapDeny(a)
  PROVE  ApprovalsInv'
<1>1. UNCHANGED <<jobVars, ran>>
  BY DEF CallTool, TapApprove, RunReport, TapDeny
<1>2. JobsInv' /\ Grows /\ ran' \in [Actions -> Nat]
  BY <1>1, NothingGrows DEF Grows
<1>3. ASSUME NEW asked \in SUBSET Actions, NEW by, RequestApproval(asked, by)
      PROVE  LedgerShape' /\ ApprovedHasRun'
  BY <1>1, <1>3 DEF RequestApproval, Queued, ApprovalsInv, LedgerShape, ApprovedHasRun, jobVars
<1>4. ASSUME NEW s \in Sessions, NEW a \in Actions, NEW approves \in BOOLEAN,
             Makes(s, a, approves)
      PROVE  TapsReport'
  BY <1>2, <1>4, FreshTapReports DEF Makes, Idle, TapReports, ApprovalsInv, TapsReport
<1>5. ASSUME UNCHANGED ledger
      PROVE  LedgerShape' /\ ApprovedHasRun'
  BY <1>2, <1>5, LedgerStays
<1>6. ASSUME UNCHANGED taps
      PROVE  TapsReport'
  BY <1>2, <1>6, OthersReport DEF ApprovalsInv, TapsReport
<1>7. ASSUME NEW s \in Sessions, NEW a \in Actions, CallTool(s, a)
      PROVE  ApprovalsInv'
  BY <1>2, <1>3, <1>4, <1>5, <1>6, <1>7 DEF CallTool, ApprovalsInv
<1>8. ASSUME NEW s \in Sessions, NEW a \in Actions, TapApprove(s, a)
      PROVE  ApprovalsInv'
  BY <1>2, <1>4, <1>5, <1>8 DEF TapApprove, ApprovalsInv
<1>9. ASSUME NEW suggested \in SUBSET Actions, RunReport(suggested)
      PROVE  ApprovalsInv'
  BY <1>2, <1>3, <1>6, <1>9 DEF RunReport, ApprovalsInv
<1>10. ASSUME NEW a \in Actions, TapDeny(a)
       PROVE  ApprovalsInv'
  <2>1. LedgerShape' /\ ApprovedHasRun'
    BY <1>1, <1>10 DEF TapDeny, ApprovalsInv, LedgerShape, ApprovedHasRun, jobVars
  <2> QED
    BY <1>2, <1>6, <1>10, <2>1 DEF TapDeny, ApprovalsInv
<1> QED
  BY <1>7, <1>8, <1>9, <1>10

(* A handler counts what it executes, takes the job's id once the job is   *)
(* known, and records only what it has.                                    *)
LEMMA HandlerKeepsInv ==
  ASSUME ApprovalsInv, NEW s \in Sessions, Handler(s) \/ Disconnect(s)
  PROVE  ApprovalsInv'
<1> USE DEF ApprovalsInv
<1>0. DOMAIN taps = Sessions /\ TapReports(taps[s])
  BY DEF TapsReport
<1>1. CASE Execute(s)
  <2>1. PICK a \in Actions \ AsJob :
          /\ a = taps[s].action
          /\ ran' = [ran EXCEPT ![a] = @ + 1]
          /\ taps' = [taps EXCEPT ![s].at = "resolve", ![s].result = ran[a] + 1]
    BY <1>0, <1>1 DEF Execute, TapReports
  <2>2. UNCHANGED <<jobVars, ledger>>
    BY <1>1 DEF Execute
  <2>3. JobsInv' /\ Grows /\ ran'[a] = ran[a] + 1 /\ ran[a] \in Nat
    BY <2>1, <2>2 DEF JobsInv, JobsShape, NoGhosts, Starting, jobVars, Grows, JobsStay
  <2>4. TapReports(taps[s])'
    BY <1>0, <2>1, <2>3 DEF TapReports, IsOutcome
  <2>5. TapsReport'
    BY <1>0, <2>1, <2>3, <2>4, FreshTapReports
  <2> QED
    BY <2>2, <2>3, <2>5, LedgerStays DEF Grows
<1>6. CASE ExecuteRefused(s)
  <2>1. PICK a \in Actions \cap AsJob :
          /\ a = taps[s].action
          /\ ran' = [ran EXCEPT ![a] = @ + 1]
          /\ taps' = [taps EXCEPT ![s].at = "resolve", ![s].result = 0]
    BY <1>0, <1>6 DEF ExecuteRefused, TapReports
  <2>2. UNCHANGED <<jobVars, ledger>>
    BY <1>6 DEF ExecuteRefused
  <2>3. JobsInv' /\ Grows /\ ran'[a] = ran[a] + 1 /\ ran[a] \in Nat
    BY <2>1, <2>2 DEF JobsInv, JobsShape, NoGhosts, Starting, jobVars, Grows, JobsStay
  <2>4. TapReports(taps[s])'
    BY <1>0, <2>1, <2>3 DEF TapReports, IsOutcome
  <2>5. TapsReport'
    BY <1>0, <2>1, <2>3, <2>4, FreshTapReports
  <2> QED
    BY <2>2, <2>3, <2>5, LedgerStays DEF Grows
<1>2. ASSUME NEW j \in Ids, ExecuteAsJob(s, j)
      PROVE  ApprovalsInv'
  <2>1. PICK a \in Actions \cap AsJob :
          /\ a = taps[s].action
          /\ ran' = [ran EXCEPT ![a] = @ + 1]
          /\ taps' = [taps EXCEPT ![s].at = "starting", ![s].job = j]
    BY <1>0, <1>2 DEF ExecuteAsJob, TapReports
  <2>2. Insert(j) /\ UNCHANGED ledger
    BY <1>2 DEF ExecuteAsJob
  <2>3. JobsInv' /\ Grows
    BY <2>1, <2>2, ThreadsKeepJobs DEF Grows
  <2>4. worker'[j] = "inserted"
    BY <2>2 DEF Insert, Goto, JobsInv, JobsShape
  <2>5. TapReports(taps[s])'
    BY <1>0, <2>1, <2>4 DEF TapReports, IsOutcome
  <2>6. TapsReport'
    BY <1>0, <2>1, <2>3, <2>5, FreshTapReports
  <2> QED
    BY <2>2, <2>3, <2>6, LedgerStays DEF Grows
<1>3. CASE JobStarted(s)
  <2>1. /\ taps' = [taps EXCEPT ![s].at = "resolve", ![s].result = taps[s].job]
        /\ taps[s].at = "starting" /\ UNCHANGED <<jobVars, ledger, ran>>
    BY <1>3 DEF JobStarted
  <2>2. JobsInv' /\ Grows
    BY <2>1, NothingGrows
  <2>3. TapReports(taps[s])'
    BY <1>0, <2>1 DEF TapReports, IsOutcome, jobVars
  <2>4. TapsReport'
    BY <1>0, <2>1, <2>2, <2>3, FreshTapReports
  <2> QED
    BY <2>1, <2>2, <2>4, LedgerStays DEF Grows
<1>4. CASE Resolve(s)
  <2>1. PICK a \in Actions :
          /\ a = taps[s].action /\ IsOutcome(a, taps[s].result)
          /\ ledger' = [ledger EXCEPT ![a].state = "approved", ![a].result = taps[s].result]
    BY <1>0, <1>4 DEF Resolve, TapReports
  <2>2. taps' = [taps EXCEPT ![s] = Idle] /\ UNCHANGED <<jobVars, ran>>
    BY <1>4 DEF Resolve
  <2>3. JobsInv' /\ Grows
    BY <2>2, NothingGrows
  <2>4. LedgerShape' /\ ApprovedHasRun'
    BY <2>1, <2>2 DEF LedgerShape, ApprovedHasRun, IsOutcome, jobVars
  <2>5. TapReports(taps[s])'
    BY <1>0, <2>2 DEF TapReports, Idle
  <2>6. TapsReport'
    BY <1>0, <2>2, <2>3, <2>5, FreshTapReports
  <2> QED
    BY <2>3, <2>4, <2>6 DEF Grows
<1>5. CASE Answers(s) \/ Disconnect(s)
  <2>1. taps' = [taps EXCEPT ![s] = Idle] /\ UNCHANGED <<jobVars, ledger, ran>>
    BY <1>5 DEF Answers, Disconnect
  <2>2. JobsInv' /\ Grows
    BY <2>1, NothingGrows
  <2>3. TapReports(taps[s])'
    BY <1>0, <2>1 DEF TapReports, Idle
  <2>4. TapsReport'
    BY <1>0, <2>1, <2>2, <2>3, FreshTapReports
  <2> QED
    BY <2>1, <2>2, <2>4, LedgerStays DEF Grows
<1> QED
  BY <1>1, <1>2, <1>3, <1>4, <1>5, <1>6 DEF Handler

LEMMA JobsKeepInv ==
  ASSUME ApprovalsInv, (\E j \in Ids : JobStep(j) \/ OtherJob(j)) \/ Restart
  PROVE  ApprovalsInv'
<1>1. JobsInv' /\ JobsStay /\ UNCHANGED <<ledger, ran>>
  BY ThreadsKeepJobs, ReloadMarks DEF ApprovalsInv, JobStep, OtherJob, Restart
<1>2. Grows
  BY <1>1 DEF ApprovalsInv, Grows
<1>3. TapsReport'
  <2>1. CASE UNCHANGED taps
    BY <1>2, <2>1, OthersReport DEF ApprovalsInv, TapsReport
  <2>2. CASE taps' = [s \in Sessions |-> Idle]
    BY <2>2 DEF TapsReport, TapReports, Idle
  <2> QED
    BY <2>1, <2>2 DEF JobStep, OtherJob, Restart
<1> QED
  BY <1>1, <1>2, <1>3, LedgerStays DEF ApprovalsInv, Grows

LEMMA InvStep == ApprovalsInv /\ [Next]_vars => ApprovalsInv'
<1> SUFFICES ASSUME ApprovalsInv, [Next]_vars
             PROVE  ApprovalsInv'
  OBVIOUS
<1>1. CASE UNCHANGED vars
  <2>1. JobsInv' /\ Grows
    BY <1>1, NothingGrows DEF vars
  <2> QED
    BY <1>1, <2>1, LedgerStays, OthersReport DEF vars, ApprovalsInv, Grows, TapsReport
<1>2. CASE Next
  BY <1>2, AskingKeepsInv, HandlerKeepsInv, JobsKeepInv DEF Next
<1> QED
  BY <1>1, <1>2

(* However many taps, refusals and restarts it took, a call shown as        *)
(* approved reports an execution that has happened or a job that started.   *)
THEOREM ApprovalsReport == Spec => []ApprovedHasRun
<1>1. Spec => []ApprovalsInv
  BY InvInit, InvStep, PTL DEF Spec
<1>2. ApprovalsInv => ApprovedHasRun
  BY DEF ApprovalsInv
<1> QED
  BY <1>1, <1>2, PTL

(* A job the registry shows as running has a thread, also after a restart   *)
(* that cut off its start or its end.                                       *)
THEOREM RunningJobsHaveThreads == Spec => []NoGhosts
<1>1. Spec => []ApprovalsInv
  BY InvInit, InvStep, PTL DEF Spec
<1>2. ApprovalsInv => NoGhosts
  BY DEF ApprovalsInv, JobsInv
<1> QED
  BY <1>1, <1>2, PTL
-----------------------------------------------------------------------------
(***************************************************************************)
(* The three views of the jobs.  A job is pushed out of the list once, for *)
(* no id is in it twice, and it is out of the list as long as it starts.   *)
(***************************************************************************)
Once(s) == \A a, b \in 1 .. Len(s) : s[a] = s[b] => a = b

ViewsInv ==
  /\ JobsShape /\ recent \in Seq(Ids) /\ Once(recent)
  /\ \A j \in Range(recent) : worker[j] \in {"working", "ended", "gone"}
  /\ \A j \in Ids : registry[j] = Nothing => files[j] = Nothing
  /\ ViewsAgree

LEMMA RangeOf == ASSUME NEW s \in Seq(Ids) PROVE Range(s) = {s[i] : i \in 1 .. Len(s)}
  BY DEF Range

LEMMA AppendOne ==
  ASSUME NEW s \in Seq(Ids), Once(s), NEW j \in Ids, j \notin Range(s)
  PROVE  LET longer == Append(s, j)
         IN  /\ longer \in Seq(Ids) /\ Len(longer) = Len(s) + 1 /\ longer[Len(longer)] = j
             /\ Once(longer) /\ Range(longer) = Range(s) \cup {j}
<1> DEFINE longer == Append(s, j)
<1>1. /\ longer \in Seq(Ids) /\ Len(longer) = Len(s) + 1 /\ Len(s) \in Nat
      /\ \A i \in 1 .. Len(s) : longer[i] = s[i]
      /\ longer[Len(s) + 1] = j
  OBVIOUS
<1>2. \A i \in 1 .. Len(s) : s[i] # j
  BY RangeOf
<1> HIDE DEF longer
<1>3. Once(longer)
  BY <1>1, <1>2 DEF Once
<1>4. Range(longer) = Range(s) \cup {j}
  BY <1>1, RangeOf
<1> QED
  BY <1>1, <1>3, <1>4 DEF longer

LEMMA DropSome ==
  ASSUME NEW s \in Seq(Ids), Once(s), NEW cut \in 0 .. Len(s)
  PROVE  LET rest == SubSeq(s, cut + 1, Len(s))
         IN  /\ rest \in Seq(Ids) /\ Once(rest)
             /\ Range(rest) = Range(s) \ {s[i] : i \in 1 .. cut}
<1> DEFINE rest == SubSeq(s, cut + 1, Len(s))
<1>1. /\ rest \in Seq(Ids) /\ Len(rest) = Len(s) - cut /\ Len(s) \in Nat
      /\ \A i \in 1 .. Len(rest) : rest[i] = s[i + cut]
  OBVIOUS
<1> HIDE DEF rest
<1>2. Once(rest)
  BY <1>1 DEF Once
<1>3. \A i \in 1 .. Len(rest) : i + cut \in 1 .. Len(s) /\ i + cut \notin 1 .. cut
  BY <1>1
<1>4. \A i \in 1 .. Len(s) : i \notin 1 .. cut => i - cut \in 1 .. Len(rest) /\ s[i] = rest[i - cut]
  BY <1>1
<1>5. Range(rest) = Range(s) \ {s[i] : i \in 1 .. cut}
  <2>1. Range(rest) = {rest[i] : i \in 1 .. Len(rest)} /\ Range(s) = {s[i] : i \in 1 .. Len(s)}
    BY <1>1, RangeOf
  <2>2. ASSUME NEW i \in 1 .. Len(rest)
        PROVE  rest[i] \in {s[a] : a \in 1 .. Len(s)} \ {s[a] : a \in 1 .. cut}
    BY <1>1, <1>3 DEF Once
  <2>3. ASSUME NEW i \in 1 .. Len(s), s[i] \notin {s[a] : a \in 1 .. cut}
        PROVE  s[i] \in {rest[a] : a \in 1 .. Len(rest)}
    BY <1>4, <2>3
  <2> QED
    BY <2>1, <2>2, <2>3
<1> QED
  BY <1>1, <1>2, <1>5 DEF rest

LEMMA ViewsInit == Init => ViewsInv
<1> SUFFICES ASSUME Init PROVE ViewsInv
  OBVIOUS
<1>1. recent \in Seq(Ids) /\ Range(recent) = {} /\ Once(recent)
  <2>1. recent \in Seq(Ids) /\ Len(recent) = 0
    BY DEF Init, JobsInit
  <2>2. 1 .. Len(recent) = {}
    BY <2>1
  <2>3. Range(recent) = {recent[i] : i \in 1 .. Len(recent)}
    BY <2>1, RangeOf
  <2> QED
    BY <2>1, <2>2, <2>3 DEF Once
<1> QED
  BY <1>1, JobsAssumption
     DEF Init, JobsInit, ViewsInv, ViewsAgree, JobsShape, States, Stages, Starting

LEMMA ReloadViews ==
  ASSUME ViewsInv, Reload
  PROVE  ViewsInv'
<1>1. PICK torn \in SUBSET Ids :
        LET loaded == Interrupted(Surviving(torn))
        IN  /\ registry' = loaded /\ files' = loaded
            /\ recent' \in InOrder({j \in Ids : loaded[j] # Nothing})
            /\ worker' = [j \in Ids |-> IF worker[j] = "none" THEN "none" ELSE "gone"]
  BY DEF Reload
<1> DEFINE loaded == Interrupted(Surviving(torn))
           kept   == {j \in Ids : loaded[j] # Nothing}
<1>2. loaded \in [Ids -> States \cup {Nothing}] /\ \A j \in kept : files[j] # Nothing
  BY JobsAssumption DEF Interrupted, Surviving, ViewsInv, JobsShape, States
<1> HIDE DEF loaded
<1>3. recent' \in Seq(Ids) /\ Once(recent') /\ Range(recent') = kept
  <2>1. PICK n \in 0 .. MaxJobs :
          /\ recent' \in [1 .. n -> kept] /\ Range(recent') = kept
          /\ \A a, b \in 1 .. n : a < b => recent'[a] < recent'[b]
    BY <1>1 DEF InOrder, loaded
  <2>2. n \in Nat /\ kept \subseteq Ids /\ Ids \subseteq Nat
    BY JobsAssumption DEF Ids
  <2>3. recent' \in Seq(Ids) /\ Len(recent') = n
    BY <2>1, <2>2
  <2>4. ASSUME NEW a \in 1 .. n, NEW b \in 1 .. n, recent'[a] = recent'[b]
        PROVE  a = b
    <3>1. recent'[a] \in Nat /\ recent'[b] \in Nat
      BY <2>1, <2>2
    <3> QED
      BY <2>1, <2>2, <2>4, <3>1
  <2> QED
    BY <2>1, <2>3, <2>4 DEF Once
<1>4. registry' = loaded /\ files' = loaded
  BY <1>1 DEF loaded
<1>5. \A j \in kept : worker'[j] = "gone"
  <2>1. \A j \in Ids : worker[j] = "none" => files[j] = Nothing
    BY DEF ViewsInv, ViewsAgree, Starting
  <2> QED
    BY <1>1, <1>2, <2>1
<1> QED
  BY <1>1, <1>2, <1>3, <1>4, <1>5
     DEF ViewsInv, ViewsAgree, JobsShape, Starting, Stages
LEMMA RememberKeepsViews ==
  ASSUME ViewsInv, NEW j \in Ids, Remember(j)
  PROVE  ViewsInv'
<1> DEFINE longer == Append(recent, j)
           cut    == IF Len(longer) > Limit THEN Len(longer) - Limit ELSE 0
           gone   == {longer[i] : i \in 1 .. cut}
<1>1. /\ worker[j] = "recorded" /\ worker' = [worker EXCEPT ![j] = "working"]
      /\ recent' = SubSeq(longer, cut + 1, Len(longer))
      /\ registry' = [i \in Ids |-> IF i \in gone THEN Nothing ELSE registry[i]]
      /\ files'    = [i \in Ids |-> IF i \in gone THEN Nothing ELSE files[i]]
  BY DEF Remember, Goto
<1>2. /\ longer \in Seq(Ids) /\ Len(longer) = Len(recent) + 1 /\ longer[Len(longer)] = j
      /\ Once(longer) /\ Range(longer) = Range(recent) \cup {j}
  BY <1>1, AppendOne DEF ViewsInv
<1> HIDE DEF longer
<1>3. cut \in 0 .. Len(longer) /\ Len(longer) \notin 1 .. cut
  BY <1>2, JobsAssumption DEF ViewsInv
<1> HIDE DEF cut
<1>4. /\ recent' \in Seq(Ids) /\ Once(recent')
      /\ Range(recent') = (Range(recent) \cup {j}) \ gone
  BY <1>1, <1>2, <1>3, DropSome
<1>5. j \notin gone /\ gone \subseteq Range(recent)
  <2>1. Len(longer) \in 1 .. Len(longer)
    BY <1>2 DEF ViewsInv
  <2>2. j \notin gone
    BY <1>2, <1>3, <2>1 DEF Once
  <2>3. gone \subseteq Range(longer)
    BY <1>2, <1>3, RangeOf
  <2> QED
    BY <1>2, <2>2, <2>3
<1> HIDE DEF gone
<1>6. /\ DOMAIN worker = Ids /\ DOMAIN worker' = Ids /\ worker'[j] = "working"
      /\ \A i \in Ids \ {j} : worker'[i] = worker[i]
  BY <1>1 DEF ViewsInv, JobsShape
<1>7. JobsShape'
  BY <1>1 DEF ViewsInv, JobsShape, Stages
<1>8. \A i \in Range(recent') : worker'[i] \in {"working", "ended", "gone"}
  BY <1>4, <1>6, RangeOf DEF ViewsInv
<1>9. ViewsAgree'
  <2> SUFFICES ASSUME NEW i \in Ids
               PROVE  /\ registry'[i] # Nothing <=> Starting(i)' \/ i \in Range(recent')
                      /\ worker'[i] \notin {"inserted", "ended"} => files'[i] = registry'[i]
    BY DEF ViewsAgree
  <2>1. CASE i = j
    BY <1>1, <1>4, <1>5, <1>6, <2>1 DEF ViewsInv, ViewsAgree, Starting
  <2>2. CASE i \in gone
    BY <1>1, <1>4, <1>5, <1>6, <2>2 DEF ViewsInv, ViewsAgree, Starting
  <2>3. CASE i # j /\ i \notin gone
    BY <1>1, <1>4, <1>6, <2>3 DEF ViewsInv, ViewsAgree, Starting
  <2> QED
    BY <2>1, <2>2, <2>3
<1> QED
  BY <1>1, <1>4, <1>7, <1>8, <1>9 DEF ViewsInv

LEMMA ThreadsKeepViews ==
  ASSUME ViewsInv, NEW j \in Ids, Insert(j) \/ StartStep(j) \/ WorkStep(j)
  PROVE  ViewsInv'
<1> USE JobsAssumption DEF ViewsInv, ViewsAgree, JobsShape, States, Stages, Starting, Goto
<1>a. \A i \in Range(recent) : i \in Ids
  BY RangeOf
<1>1. CASE Insert(j)
  BY <1>1, <1>a DEF Insert
<1>2. CASE PersistStart(j)
  BY <1>2, <1>a DEF PersistStart, Persist
<1>4. CASE PersistEnd(j)
  BY <1>4, <1>a DEF PersistEnd, Persist
<1>5. ASSUME NEW outcome \in Outcomes, End(j, outcome)
      PROVE  ViewsInv'
  BY <1>5, <1>a DEF End, Outcomes
<1> QED
  BY <1>1, <1>2, <1>4, <1>5, RememberKeepsViews DEF StartStep, WorkStep

(* Only these steps touch the jobs. *)
LEMMA JobsOrNot ==
  ASSUME [Next]_vars
  PROVE  \/ UNCHANGED jobVars \/ Reload
         \/ \E j \in Ids : Insert(j) \/ StartStep(j) \/ WorkStep(j)
<1>1. CASE UNCHANGED vars
  BY <1>1 DEF vars
<1>2. CASE (\E s \in Sessions : Handler(s) \/ Disconnect(s))
  BY <1>2
     DEF Handler, Execute, ExecuteRefused, JobStarted, Resolve, Answers, Disconnect, ExecuteAsJob
<1>3. CASE \/ \E a \in Actions, s \in Sessions : CallTool(s, a) \/ TapApprove(s, a)
           \/ \E suggested \in SUBSET Actions : RunReport(suggested)
           \/ \E a \in Actions : TapDeny(a)
  BY <1>3 DEF CallTool, TapApprove, RunReport, TapDeny
<1>4. CASE (\E j \in Ids : JobStep(j) \/ OtherJob(j)) \/ Restart
  BY <1>4 DEF JobStep, OtherJob, Restart
<1> QED
  BY <1>1, <1>2, <1>3, <1>4 DEF Next

LEMMA ViewsStep == ViewsInv /\ [Next]_vars => ViewsInv'
<1>1. ASSUME ViewsInv, UNCHANGED jobVars PROVE ViewsInv'
  BY <1>1 DEF jobVars, ViewsInv, ViewsAgree, JobsShape, Starting
<1> QED
  BY <1>1, JobsOrNot, ReloadViews, ThreadsKeepViews

(* The map, the list and the files of the registry agree whenever no       *)
(* thread is in between two of them.                                       *)
THEOREM RegistryAgrees == Spec => []ViewsAgree
<1>1. ViewsInv => ViewsAgree
  BY DEF ViewsInv
<1> QED
  BY <1>1, ViewsInit, ViewsStep, PTL DEF Spec
=============================================================================
