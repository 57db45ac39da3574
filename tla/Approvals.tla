------------------------------- MODULE Approvals -------------------------------
(***************************************************************************)
(* The approvals queue, and the job registry the calls it runs report to.  *)
(* A destructive call is queued, unless the session that makes it was      *)
(* given leave to; what the resident suggests is queued too.  An           *)
(* operator's tap on Approve runs a queued call and records the outcome,   *)
(* a tap on Deny records the refusal.                                      *)
(* Each tap is a request handler of its own: it reads the action, works,   *)
(* and writes it back, and nothing but the state it read at the start      *)
(* keeps two of them apart.                                                *)
(*                                                                         *)
(* Handlers are dropped when their client goes away, while the call they   *)
(* run goes on.  provision_machine starts a job and returns its id;        *)
(* delete_service and backup_restore return when they are done.            *)
(***************************************************************************)
EXTENDS Jobs

CONSTANTS
  Actions,    \* ids of queued calls
  AsJob,      \* those that start a job
  Sessions,   \* the signed-in devices and agents
  Agents,     \* those that may ask and not decide
  Autonomous, \* those whose destructive calls are made at once
  Resident,   \* the caretaker, which holds no session
  MaxTaps,    \* bound: taps on Approve, and calls made at once
  Unasked     \* no such action

ASSUME ApprovalsAssumption ==
  /\ AsJob \subseteq Actions /\ Agents \subseteq Sessions
  /\ Autonomous \subseteq Sessions
  /\ MaxTaps \in Nat /\ Unasked \notin Sessions /\ Resident \notin Sessions

VARIABLES
  ledger,   \* approvals/<id>.json
  taps,     \* the handlers in flight that run a destructive call
  ran,      \* how often each call has been executed
  tapped    \* how many of them there have been

vars == <<jobVars, ledger, taps, ran, tapped>>

(* A tap on Approve resolves its action; a call made at once has none.     *)
Idle == [at |-> "idle", action |-> Unasked, job |-> 0, result |-> 0,
         approves |-> FALSE]

(* A result is the number of the execution it reports, or the id of a job; *)
(* 0 says why no job was started.                                          *)
Queued(by) == [by |-> by, state |-> "pending", result |-> 0]

NoAction == Queued(Unasked)

-----------------------------------------------------------------------------
(* approvals::request: the ids are fresh. *)
RequestApproval(asked, by) ==
  /\ \A a \in asked : ledger[a] = NoAction
  /\ ledger' = [a \in Actions |-> IF a \in asked THEN Queued(by) ELSE ledger[a]]

(* The handler begins to make the call. *)
Makes(s, a, approves) ==
  /\ tapped < MaxTaps /\ taps[s] = Idle
  /\ tapped' = tapped + 1
  /\ taps' = [taps EXCEPT ![s] =
                [Idle EXCEPT !.at = "execute", !.action = a, !.approves = approves]]

(* NEEDS_APPROVAL: queued, unless the session may make it on its own.      *)
CallTool(s, a) ==
  /\ IF s \in Autonomous
     THEN Makes(s, a, FALSE) /\ UNCHANGED ledger
     ELSE RequestApproval({a}, s) /\ UNCHANGED <<taps, tapped>>
  /\ UNCHANGED <<jobVars, ran>>

(* The resident's report: whatever its model suggests to delete or restore *)
(* is queued, in the name of no session.                                   *)
RunReport(suggested) ==
  /\ suggested # {} /\ suggested \cap AsJob = {}
  /\ RequestApproval(suggested, Resident)
  /\ UNCHANGED <<jobVars, taps, ran, tapped>>

(* Undecided, and asked for by somebody else than this operator. *)
MayApprove(s, a) ==
  /\ s \notin Agents
  /\ ledger[a].state = "pending"
  /\ ledger[a].by # s

(* approve_action, up to the call of execute. *)
TapApprove(s, a) ==
  /\ ledger[a] # NoAction
  /\ MayApprove(s, a)
  /\ Makes(s, a, TRUE)
  /\ UNCHANGED <<jobVars, ledger, ran>>

(* The call is made, and has its effect or fails on the way. *)
Execute(s) ==
  LET a == taps[s].action
  IN  /\ taps[s].at = "execute"
      /\ a \notin AsJob
      /\ ran' = [ran EXCEPT ![a] = @ + 1]
      /\ taps' = [taps EXCEPT ![s].at = "resolve", ![s].result = ran[a] + 1]
      /\ UNCHANGED <<jobVars, ledger, tapped>>

ExecuteAsJob(s, j) ==
  LET a == taps[s].action
  IN  /\ taps[s].at = "execute"
      /\ a \in AsJob
      /\ Insert(j)
      /\ ran' = [ran EXCEPT ![a] = @ + 1]
      /\ taps' = [taps EXCEPT ![s].at = "starting", ![s].job = j]
      /\ UNCHANGED <<ledger, tapped>>

(* provision_machine fails before there is a job: no usable key to give    *)
(* the new machine.                                                        *)
ExecuteRefused(s) ==
  LET a == taps[s].action
  IN  /\ taps[s].at = "execute"
      /\ a \in AsJob
      /\ ran' = [ran EXCEPT ![a] = @ + 1]
      /\ taps' = [taps EXCEPT ![s].at = "resolve", ![s].result = 0]
      /\ UNCHANGED <<jobVars, ledger, tapped>>

(* start has returned the id. *)
JobStarted(s) ==
  /\ taps[s].at = "starting"
  /\ worker[taps[s].job] \notin {"inserted", "recorded"}
  /\ taps' = [taps EXCEPT ![s].at = "resolve", ![s].result = taps[s].job]
  /\ UNCHANGED <<jobVars, ledger, ran, tapped>>

(* Mutant: the decision is recorded before the call is made. *)
ResolveEarly(s) ==
  /\ taps[s].at \in {"execute", "resolve"} /\ taps[s].approves
  /\ ledger' = [ledger EXCEPT ![taps[s].action].state = "approved",
                              ![taps[s].action].result = taps[s].result]
  /\ taps' = [taps EXCEPT ![s] = IF @.at = "resolve" THEN Idle ELSE @]
  /\ UNCHANGED <<jobVars, ran, tapped>>

(* approvals::resolve reads the action again, sets both fields, writes. *)
Resolve(s) ==
  /\ taps[s].at = "resolve" /\ taps[s].approves
  /\ ledger' = [ledger EXCEPT ![taps[s].action].state = "approved",
                              ![taps[s].action].result = taps[s].result]
  /\ taps' = [taps EXCEPT ![s] = Idle]
  /\ UNCHANGED <<jobVars, ran, tapped>>

(* The call was nobody's to approve: its outcome is the answer. *)
Answers(s) ==
  /\ taps[s].at = "resolve" /\ ~taps[s].approves
  /\ taps' = [taps EXCEPT ![s] = Idle]
  /\ UNCHANGED <<jobVars, ledger, ran, tapped>>

(* deny_action resolves whatever state the action is in. *)
TapDeny(a) ==
  /\ ledger[a] # NoAction
  /\ ledger' = [ledger EXCEPT ![a].state = "denied", ![a].result = 0]
  /\ UNCHANGED <<jobVars, taps, ran, tapped>>

(* The client is gone: the handler is dropped where it waits. *)
Disconnect(s) ==
  /\ taps[s].at \in {"starting", "resolve"}
  /\ taps' = [taps EXCEPT ![s] = Idle]
  /\ UNCHANGED <<jobVars, ledger, ran, tapped>>

(* Every other job: a deploy, a backup, an update. *)
OtherJob(j) ==
  /\ Insert(j)
  /\ UNCHANGED <<ledger, taps, ran, tapped>>

Restart ==
  /\ Reload
  /\ taps' = [s \in Sessions |-> Idle]
  /\ UNCHANGED <<ledger, ran, tapped>>

Init ==
  /\ JobsInit
  /\ ledger = [a \in Actions |-> NoAction]
  /\ taps = [s \in Sessions |-> Idle]
  /\ ran = [a \in Actions |-> 0]
  /\ tapped = 0

JobStep(j) == (StartStep(j) \/ WorkStep(j)) /\ UNCHANGED <<ledger, taps, ran, tapped>>

Handler(s) == \/ Execute(s) \/ ExecuteRefused(s) \/ JobStarted(s)
              \/ Resolve(s) \/ Answers(s)
              \/ \E j \in Ids : ExecuteAsJob(s, j)

Next ==
  \/ \E a \in Actions, s \in Sessions : CallTool(s, a) \/ TapApprove(s, a)
  \/ \E suggested \in SUBSET Actions : RunReport(suggested)
  \/ \E a \in Actions : TapDeny(a)
  \/ \E s \in Sessions : Handler(s) \/ Disconnect(s)
  \/ \E j \in Ids : JobStep(j) \/ OtherJob(j)
  \/ Restart

(* Threads run; nobody is obliged to ask, to tap or to stay connected. *)
Spec == Init /\ [][Next]_vars /\ \A j \in Ids : WF_vars(JobStep(j))

-----------------------------------------------------------------------------
(***************************************************************************)
(* Properties                                                              *)
(***************************************************************************)
TypeOK ==
  /\ JobsTypeOK
  /\ ledger \in [Actions -> [by : Sessions \cup {Resident, Unasked}, result : Nat,
                             state : {"pending", "approved", "denied"}]]
  /\ taps \in [Sessions -> [at : {"idle", "execute", "starting", "resolve"},
                            action : Actions \cup {Unasked}, job : {0} \cup Ids,
                            result : Nat, approves : BOOLEAN]]
  /\ ran \in [Actions -> Nat] /\ tapped \in Nat

(* An agent that is told its call was approved is given the outcome of an  *)
(* execution that has happened, the id of a job that was started for it,   *)
(* or the reason why its execution started none, however many taps,        *)
(* refusals and restarts it took.                                          *)
ApprovedHasRun ==
  \A a \in Actions : ledger[a].state = "approved" =>
    IF a \in AsJob
    THEN \/ ledger[a].result \in Ids /\ worker[ledger[a].result] # "none"
         \/ ledger[a].result = 0 /\ ran[a] > 0
    ELSE ledger[a].result \in 1 .. ran[a]

(* approval_status: "denied means no".  A call reported as denied has not  *)
(* been made.                                                              *)
DeniedHasNotRun == \A a \in Actions : ledger[a].state = "denied" => ran[a] = 0
=============================================================================
