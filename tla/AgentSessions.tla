---------------------------- MODULE AgentSessions ----------------------------
(***************************************************************************)
(* One conversation with the forecast agent                                *)
(* (infra/lambda/forecast_control_plane/handler.py and agent_async.py).  A *)
(* POST stores a queued turn and invokes the same Lambda function          *)
(* asynchronously; the invocation claims the turn, runs it against the     *)
(* model provider and stores its answer; GET requests only read.           *)
(*                                                                         *)
(* A turn is named by its request token, from which its turn_id is derived *)
(* (turn_id_for); the browser draws a new one for every message and never  *)
(* repeats a POST.  Asynchronous events are delivered at least once.       *)
(***************************************************************************)
EXTENDS Naturals, Sequences

CONSTANTS
  MaxTokens,   \* bound on the request tokens that are drawn
  NumRequests, \* concurrent POST requests
  NumWorkers,  \* concurrent asynchronous invocations
  MaxTurns,    \* AGENT_SESSION_MAX_TURNS
  DailyLimit,  \* AGENT_DAILY_LIMIT
  MaxFaults    \* bound on invocations that die and calls that fail

ASSUME LimitAssumption ==
  /\ MaxTokens \in Nat /\ MaxTurns \in Nat \ {0} /\ DailyLimit \in Nat
  /\ MaxFaults \in Nat /\ NumRequests \in Nat /\ NumWorkers \in Nat

Request == 1 .. NumRequests
Worker == 1 .. NumWorkers

\* Request tokens in the order they are drawn; 0 stands for no turn, no draft.
Turn == 1 .. MaxTokens
NoTurn == 0

VARIABLES
  drawn,      \* the last token that was drawn
  session,    \* the AGENT_SESSION# item
  events,     \* turns whose asynchronous event is not finished
  request,    \* where each POST is
  worker,     \* where each invocation is
  quota,      \* call_count of the AGENT_QUOTA# item of the day
  answered,   \* how often the provider was asked to answer each turn
  calls,      \* how many turns and plans it was asked for, in all conversations
  lost,       \* turns whose POST or invocation ended without a word, or whose
              \* claim could not be written
  faults      \* how many of those, and of calls that failed, there were

vars ==
  <<drawn, session, events, request, worker, quota, answered, calls, lost,
    faults>>

provider == <<answered, calls>>
broken == <<lost, faults>>

\* AGENT_ACTIVE_TURN_STATUSES
ActiveStatuses == {"queued", "processing"}
Statuses == {"none", "succeeded", "failed"} \cup ActiveStatuses

Session ==
  [status : Statuses, turn : Turn \cup {NoTurn},
   count : Nat, history : Seq(Turn), draft : Turn \cup {NoTurn}]

\* A POST knows its token and the turn_count it read.
RequestState ==
  [pc : {"idle", "update", "enqueue", "fail"}, turn : Turn \cup {NoTurn},
   count : Nat]

\* An invocation knows its turn, and the history and turn_count it read before it
\* claimed the turn; later the draft the provider settled on.
WorkerState ==
  [pc : {"idle", "claim", "prepare", "call", "finish", "fail"},
   turn : Turn \cup {NoTurn}, count : Nat, history : Seq(Turn),
   draft : Turn \cup {NoTurn}]

IdleRequest == [pc |-> "idle", turn |-> NoTurn, count |-> 0]
IdleWorker ==
  [pc |-> "idle", turn |-> NoTurn, count |-> 0, history |-> <<>>, draft |-> NoTurn]

TypeOK ==
  /\ drawn \in 0 .. MaxTokens
  /\ session \in Session
  /\ session.count = Len(session.history) /\ session.count <= MaxTurns
  /\ events \subseteq Turn
  /\ request \in [Request -> RequestState]
  /\ \A r \in Request : request[r].pc # "idle" => request[r].turn \in Turn
  /\ worker \in [Worker -> WorkerState]
  /\ \A w \in Worker : worker[w].pc # "idle" => worker[w].turn \in Turn
  /\ quota \in 0 .. DailyLimit
  /\ answered \in [Turn -> Nat]
  /\ calls \in Nat
  /\ lost \subseteq Turn
  /\ faults \in 0 .. MaxFaults

\* Before the conversation begins
Init ==
  /\ drawn = 0
  /\ session = [status |-> "none", turn |-> NoTurn, count |-> 0,
                history |-> <<>>, draft |-> NoTurn]
  /\ events = {}
  /\ request = [r \in Request |-> IdleRequest]
  /\ worker = [w \in Worker |-> IdleWorker]
  /\ quota = 0
  /\ answered = [t \in Turn |-> 0]
  /\ calls = 0
  /\ lost = {}
  /\ faults = 0

\* The first that is idle is taken; which one makes no difference.
Takes(who, i) ==
  who[i].pc = "idle" /\ \A h \in 1 .. i - 1 : who[h].pc # "idle"

\* The invocation ends; Lambda is done with its event, or delivers it once more.
Ends(w) ==
  /\ events' \in {events, events \ {worker[w].turn}}
  /\ worker' = [worker EXCEPT ![w] = IdleWorker]

\* An error ends the turn.
Fails(w) ==
  /\ worker' = [worker EXCEPT ![w] =
                  [IdleWorker EXCEPT !.pc = "fail", !.turn = worker[w].turn]]
  /\ UNCHANGED events

\* What goes wrong, and the turns of which it leaves no trace in the session
Fault(turns) ==
  /\ faults < MaxFaults
  /\ faults' = faults + 1
  /\ lost' = lost \cup turns

-----------------------------------------------------------------------------
(* POST .../forecast-agent/sessions and POST .../agent/sessions *)

\* _agent_session_create and _result_agent_session_create: the session's id is
\* derived from the token of its first turn, so that the item is new.
Create(r) ==
  LET t == drawn + 1 IN
  /\ Takes(request, r)
  /\ session.status = "none"
  /\ t \in Turn
  /\ drawn' = t
  /\ session' = [session EXCEPT !.status = "queued", !.turn = t]
  /\ request' = [request EXCEPT ![r] =
       [pc |-> "enqueue", turn |-> t, count |-> 0]]
  /\ UNCHANGED <<events, worker, quota, provider, broken>>

-----------------------------------------------------------------------------
(* POST .../messages: _agent_session_message *)

\* The item is read: a turn under way or the last turn refuses the message.
MessageLook(r) ==
  LET t == drawn + 1 IN
  /\ Takes(request, r)
  /\ session.status \in {"succeeded", "failed"}
  /\ session.count < MaxTurns
  /\ t \in Turn
  /\ drawn' = t
  /\ request' = [request EXCEPT ![r] =
       [pc |-> "update", turn |-> t, count |-> session.count]]
  /\ UNCHANGED <<session, events, worker, quota, provider, broken>>

\* The ConditionExpression
MayQueueAny(r) == session.count = request[r].count  \* mutant: a turn is under way
MayQueue(r) ==
  /\ session.count = request[r].count
  /\ session.status \in {"succeeded", "failed"}

\* Mutant: the draft of the turn before stays.
QueuedKeeping(t) == [session EXCEPT !.status = "queued", !.turn = t]

\* The draft of the turn before is cleared.
Queued(t) == [session EXCEPT !.status = "queued", !.turn = t, !.draft = NoTurn]

\* The message is stored, or another one was first: 409.
MessageUpdate(r) ==
  /\ request[r].pc = "update"
  /\ IF MayQueue(r)
       THEN /\ session' = Queued(request[r].turn)
            /\ request' = [request EXCEPT ![r].pc = "enqueue", ![r].count = 0]
       ELSE /\ request' = [request EXCEPT ![r] = IdleRequest]
            /\ UNCHANGED session
  /\ UNCHANGED <<drawn, events, worker, quota, provider, broken>>

-----------------------------------------------------------------------------
(* _enqueue_agent_turn *)

Enqueue(r) ==
  /\ request[r].pc = "enqueue"
  /\ events' = events \cup {request[r].turn}
  /\ request' = [request EXCEPT ![r] = IdleRequest]
  /\ UNCHANGED <<drawn, session, worker, quota, provider, broken>>

\* The invocation is refused, or its answer is lost and a retry is refused: the request
\* goes on to store that.
EnqueueFails(r) ==
  /\ request[r].pc = "enqueue"
  /\ Fault({})
  /\ events' \in {events, events \cup {request[r].turn}}
  /\ request' = [request EXCEPT ![r].pc = "fail"]
  /\ UNCHANGED <<drawn, session, worker, quota, provider>>

\* Mutant: an error is only logged.
FailedNever(t) == session

\* _store_agent_turn_failure asks only for the turn, whatever became of it.
Failed(t) ==
  IF session.turn = t THEN [session EXCEPT !.status = "failed"] ELSE session

RequestFails(r) ==
  /\ request[r].pc = "fail"
  /\ session' = Failed(request[r].turn)
  /\ request' = [request EXCEPT ![r] = IdleRequest]
  /\ UNCHANGED <<drawn, events, worker, quota, provider, broken>>

\* The request ends in the middle; an error that is not a ClientError does the same.
RequestStops(r) ==
  /\ request[r].pc # "idle"
  /\ Fault({request[r].turn})
  /\ request' = [request EXCEPT ![r] = IdleRequest]
  /\ UNCHANGED <<drawn, session, events, worker, quota, provider>>

-----------------------------------------------------------------------------
(* _agent_turn_worker *)

\* An event is delivered and the item read: only a queued turn is worked on.
Deliver(w, t) ==
  /\ Takes(worker, w)
  /\ t \in events
  /\ IF session.turn = t /\ session.status = "queued"
       THEN /\ worker' = [worker EXCEPT ![w] =
                 [pc |-> "claim", turn |-> t, count |-> session.count,
                  history |-> session.history, draft |-> NoTurn]]
            /\ UNCHANGED events
       ELSE /\ events' \in {events, events \ {t}}
            /\ UNCHANGED worker
  /\ UNCHANGED <<drawn, session, request, quota, provider, broken>>

\* Mutant: the turn may have been claimed by another delivery.
MayClaimAgain(t) == session.turn = t /\ session.status \in ActiveStatuses

\* The ConditionExpression of the claim
MayClaim(t) == session.turn = t /\ session.status = "queued"

Claim(w) ==
  /\ worker[w].pc = "claim"
  /\ IF MayClaim(worker[w].turn)
       THEN /\ session' = [session EXCEPT !.status = "processing"]
            /\ worker' = [worker EXCEPT ![w].pc = "prepare"]
            /\ UNCHANGED events
       ELSE /\ Ends(w)
            /\ UNCHANGED session
  /\ UNCHANGED <<drawn, request, quota, provider, broken>>

\* The update fails for another reason: that is logged, and the event is done.
ClaimFails(w) ==
  /\ worker[w].pc = "claim"
  /\ Fault({worker[w].turn})
  /\ Ends(w)
  /\ UNCHANGED <<drawn, session, request, quota, provider>>

\* Mutant: the condition of the update is dropped.
WithinQuotaAlways == TRUE

\* The ConditionExpression of _consume_agent_quota
WithinQuota == quota < DailyLimit

\* A planning turn reads the dataset and its validation again, which may be gone (a
\* turn about a result reads nothing).  Then it counts against the quota: once,
\* whatever the number of its calls and whether it succeeds.
Prepare(w) ==
  /\ worker[w].pc = "prepare"
  /\ \/ /\ WithinQuota
        /\ quota' = quota + 1
        /\ worker' = [worker EXCEPT ![w].pc = "call"]
        /\ UNCHANGED events
     \/ Fails(w) /\ UNCHANGED quota
  /\ UNCHANGED <<drawn, session, request, provider, broken>>

\* run_agent_turn and run_result_agent_turn: the last plan the tools accepted, if
\* any, or an error that ends the turn.  A turn about a result has no tools.
Call(w) ==
  LET t == worker[w].turn
  IN /\ worker[w].pc = "call"
     /\ answered' = [answered EXCEPT ![t] = @ + 1]
     /\ calls' = calls + 1
     /\ \/ /\ \E d \in {NoTurn, t} :
                worker' = [worker EXCEPT ![w].pc = "finish", ![w].draft = d]
           /\ UNCHANGED events
        \/ Fails(w)
     /\ UNCHANGED <<drawn, session, request, quota, broken>>

\* The ConditionExpression of the update that stores the answer
MayFinishAny(t) == TRUE                     \* mutant: none
MayFinish(t) == session.turn = t /\ session.status = "processing"

\* The answer, appended to the history as it was read before the claim
Answered(w) ==
  [session EXCEPT !.status = "succeeded", !.count = worker[w].count + 1,
                  !.history = Append(worker[w].history, worker[w].turn),
                  !.draft = worker[w].draft]

\* A cancelled update is handled like any other error.
Finish(w) ==
  /\ worker[w].pc = "finish"
  /\ IF MayFinish(worker[w].turn)
       THEN session' = Answered(w) /\ Ends(w)
       ELSE UNCHANGED session /\ Fails(w)
  /\ UNCHANGED <<drawn, request, quota, provider, broken>>

\* The answer is stored, but the response of the update is lost: the turn ends as failed.
FinishUnknown(w) ==
  /\ worker[w].pc = "finish"
  /\ MayFinish(worker[w].turn)
  /\ Fault({})
  /\ session' = Answered(w)
  /\ Fails(w)
  /\ UNCHANGED <<drawn, request, quota, provider>>

WorkerFails(w) ==
  /\ worker[w].pc = "fail"
  /\ session' = Failed(worker[w].turn)
  /\ Ends(w)
  /\ UNCHANGED <<drawn, request, quota, provider, broken>>

\* The invocation dies or times out; Lambda delivers its event again.
WorkerDies(w) ==
  /\ worker[w].pc # "idle"
  /\ Fault({worker[w].turn})
  /\ worker' = [worker EXCEPT ![w] = IdleWorker]
  /\ UNCHANGED <<drawn, session, events, request, quota, provider>>

\* POST .../forecast-agent: _agent_plan asks the provider outside a conversation.
AgentPlan ==
  /\ WithinQuota
  /\ quota' = quota + 1
  /\ calls' = calls + 1
  /\ UNCHANGED <<drawn, session, events, request, worker, answered, broken>>

\* GET .../sessions/{session_id}: _agent_session_get
Read == session.status # "none" /\ UNCHANGED vars

-----------------------------------------------------------------------------
RequestStep(r) == MessageUpdate(r) \/ Enqueue(r) \/ RequestFails(r)

WorkerStep(w) ==
  Claim(w) \/ Prepare(w) \/ Call(w) \/ Finish(w) \/ WorkerFails(w)

Next ==
  \/ \E r \in Request :
       \/ Create(r) \/ MessageLook(r)
       \/ RequestStep(r) \/ EnqueueFails(r) \/ RequestStops(r)
  \/ \E w \in Worker :
       \/ \E t \in Turn : Deliver(w, t)
       \/ WorkerStep(w) \/ ClaimFails(w) \/ FinishUnknown(w) \/ WorkerDies(w)
  \/ AgentPlan
  \/ Read

Spec == Init /\ [][Next]_vars

\* Requests and invocations go on, and Lambda delivers the events it accepted.
Fairness ==
  /\ \A r \in Request : WF_vars(RequestStep(r))
  /\ \A w \in Worker : WF_vars(WorkerStep(w))
  /\ \A t \in Turn : SF_vars(\E w \in Worker : Deliver(w, t))

FairSpec == Spec /\ Fairness

-----------------------------------------------------------------------------
(* Properties *)

\* turn_view: a turn is pending until it succeeded or failed.
Pending(t) == session.turn = t /\ session.status \in ActiveStatuses

\* However often its event is delivered, a turn is run at most once.
RunOnce == \A t \in Turn : answered[t] <= 1

\* The conversation is a sequence of turns: a turn that is under way is not
\* displaced by another message, and an answer only appends the turn that was last
\* accepted, however late or often answers arrive.
TurnsInOrder ==
  [][/\ session.turn' # session.turn => session.status \notin ActiveStatuses
     /\ session.history' # session.history =>
          session.history' = Append(session.history, session.turn)]_vars

\* _agent_session_response: what the user may confirm is the plan of the turn that
\* was accepted last, and that turn is over.
RequiresConfirmation ==
  /\ session.draft # NoTurn
  /\ session.status \notin ActiveStatuses

ConfirmableIsLatest ==
  RequiresConfirmation => session.draft = session.turn /\ answered[session.turn] > 0

\* No more turns and plans are run in a day than the limit allows, be they refused,
\* interrupted or delivered twice.
QuotaCoversCalls == calls <= DailyLimit

\* Every turn that was accepted is answered or fails, also if its invocation is refused,
\* a call fails or the response of an update is lost.  Only a request or an invocation
\* that ends without a word, or a claim that cannot be written, may leave the session
\* waiting.
TurnsAnswered ==
  \A t \in Turn : Pending(t) ~> ~Pending(t) \/ t \in lost
=============================================================================
