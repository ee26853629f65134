------------------------- MODULE AgentSessionsProofs -------------------------
(***************************************************************************)
(* Proofs about AgentSessions for any number of tokens, requests,          *)
(* invocations, turns and faults: a turn is run at most once, answers are  *)
(* appended in the order the turns were accepted, what may be confirmed is *)
(* the plan of the last turn, and the quota bounds what is run.            *)
(***************************************************************************)
EXTENDS AgentSessions, FiniteSetTheorems, TLAPS

SessionOK ==
  /\ session \in Session
  /\ session.count = Len(session.history) /\ session.count <= MaxTurns

RequestsOK ==
  /\ request \in [Request -> RequestState]
  /\ \A r \in Request : request[r].pc # "idle" => request[r].turn \in Turn

WorkersOK ==
  /\ worker \in [Worker -> WorkerState]
  /\ \A w \in Worker : worker[w].pc # "idle" => worker[w].turn \in Turn

CountersOK ==
  /\ drawn \in 0 .. MaxTokens
  /\ events \subseteq Turn
  /\ quota \in 0 .. DailyLimit
  /\ answered \in [Turn -> Nat]
  /\ calls \in Nat
  /\ lost \subseteq Turn
  /\ faults \in 0 .. MaxFaults

\* Nothing is known of a token that was not drawn.
TokensDrawn ==
  /\ session.turn <= drawn
  /\ \A t \in events : t <= drawn
  /\ \A r \in Request : request[r].turn <= drawn
  /\ \A w \in Worker : worker[w].turn <= drawn
  /\ \A t \in Turn : t > drawn => answered[t] = 0

\* A token whose message is not stored yet is known to its request only.
Unseen(t) ==
  /\ session.turn # t
  /\ t \notin events
  /\ \A w \in Worker : worker[w].turn # t
  /\ answered[t] = 0

NewTurns ==
  \A r \in Request :
    request[r].pc = "update" =>
      /\ Unseen(request[r].turn)
      /\ \A q \in Request \ {r} : request[q].turn # request[r].turn
      /\ request[r].count < MaxTurns

\* Every turn that was accepted leaves room for its answer.
RoomForAnswer ==
  /\ session.status = "none" =>
       session.count = 0 /\ session.turn = NoTurn /\ session.draft = NoTurn
  /\ session.status # "none" => session.turn \in Turn
  /\ session.status \in ActiveStatuses => session.count < MaxTurns

Working == {"claim", "prepare", "call", "finish"}

\* What an invocation read of the conversation is still so while its turn is under way.
HistoryFresh ==
  \A w \in Worker :
    /\ worker[w].pc \in Working
    /\ session.turn = worker[w].turn
    /\ session.status \in ActiveStatuses
    => worker[w].count = session.count /\ worker[w].history = session.history

\* An invocation that may still ask the provider for an answer to its turn
MayCall(w) == worker[w].pc \in {"prepare", "call"}

\* A turn is claimed once, before it is answered.
ClaimedOnce ==
  /\ \A w \in Worker :
       MayCall(w) =>
         /\ answered[worker[w].turn] = 0
         /\ \A v \in Worker \ {w} : MayCall(v) => worker[v].turn # worker[w].turn
  /\ session.status = "queued" =>
       /\ answered[session.turn] = 0
       /\ \A w \in Worker : MayCall(w) => worker[w].turn # session.turn

\* A plan belongs to the turn that was answered with it.
PlanOfTurn ==
  /\ session.draft # NoTurn => session.draft = session.turn /\ answered[session.turn] > 0
  /\ \A w \in Worker :
       worker[w].pc = "finish" =>
         worker[w].draft \in {NoTurn, worker[w].turn} /\ answered[worker[w].turn] > 0

\* Invocations that paid for an answer and did not ask for it yet
Paid == {w \in Worker : worker[w].pc = "call"}

QuotaHeld == calls + Cardinality(Paid) <= quota

IInv ==
  /\ SessionOK /\ RequestsOK /\ WorkersOK /\ CountersOK
  /\ TokensDrawn
  /\ NewTurns
  /\ RoomForAnswer
  /\ HistoryFresh
  /\ ClaimedOnce
  /\ RunOnce
  /\ PlanOfTurn
  /\ QuotaHeld

-----------------------------------------------------------------------------
(* Steps of one request or of one invocation *)

LEMMA TypesSplit == TypeOK <=> SessionOK /\ RequestsOK /\ WorkersOK /\ CountersOK
BY DEF TypeOK, SessionOK, RequestsOK, WorkersOK, CountersOK

LEMMA IdleTypes ==
  /\ IdleRequest \in RequestState /\ IdleRequest.pc = "idle" /\ IdleRequest.turn = NoTurn
  /\ IdleWorker \in WorkerState /\ IdleWorker.pc = "idle" /\ IdleWorker.turn = NoTurn
<1>1. <<>> \in Seq(Turn)
  OBVIOUS
<1>2. IdleRequest \in RequestState /\ IdleRequest.pc = "idle" /\ IdleRequest.turn = NoTurn
  BY DEF IdleRequest, RequestState
<1>3. IdleWorker \in WorkerState /\ IdleWorker.pc = "idle" /\ IdleWorker.turn = NoTurn
  BY <1>1 DEF IdleWorker, WorkerState
<1> QED
  BY <1>2, <1>3

\* A request moves on.
LEMMA RequestMoves ==
  ASSUME RequestsOK, NEW r \in Request, NEW q \in RequestState,
         q.pc # "idle" => q.turn \in Turn,
         request' = [request EXCEPT ![r] = q]
  PROVE  /\ RequestsOK'
         /\ request'[r] = q
         /\ \A s \in Request \ {r} : request'[s] = request[s]
BY DEF RequestsOK

LEMMA RequestEnds ==
  ASSUME RequestsOK, NEW r \in Request, request' = [request EXCEPT ![r] = IdleRequest]
  PROVE  /\ RequestsOK'
         /\ request'[r].pc = "idle" /\ request'[r].turn = NoTurn
         /\ \A s \in Request \ {r} : request'[s] = request[s]
<1> IdleRequest.pc # "idle" => IdleRequest.turn \in Turn
  BY IdleTypes
<1> QED
  BY IdleTypes, RequestMoves

\* An invocation moves on.
LEMMA WorkerMoves ==
  ASSUME WorkersOK, NEW w \in Worker, NEW v \in WorkerState,
         v.pc # "idle" => v.turn \in Turn,
         worker' = [worker EXCEPT ![w] = v]
  PROVE  /\ WorkersOK'
         /\ worker'[w] = v
         /\ \A u \in Worker \ {w} : worker'[u] = worker[u]
BY DEF WorkersOK

\* An invocation that does not work any more knows its turn at most.
LEMMA WorkerStopsWork ==
  ASSUME WorkersOK, NEW w \in Worker,
         \/ worker' = [worker EXCEPT ![w] = IdleWorker]
         \/ worker[w].pc # "idle" /\ Fails(w)
  PROVE  /\ WorkersOK'
         /\ worker'[w].pc \in {"idle", "fail"}
         /\ worker'[w].turn \in {NoTurn, worker[w].turn}
         /\ \A u \in Worker \ {w} : worker'[u] = worker[u]
<1>1. CASE worker' = [worker EXCEPT ![w] = IdleWorker]
  <2> IdleWorker.pc # "idle" => IdleWorker.turn \in Turn
    BY IdleTypes
  <2> QED
    BY <1>1, IdleTypes, WorkerMoves
<1>2. CASE worker[w].pc # "idle" /\ Fails(w)
  <2> DEFINE v == [IdleWorker EXCEPT !.pc = "fail", !.turn = worker[w].turn]
  <2>1. worker[w].turn \in Turn
    BY <1>2 DEF WorkersOK
  <2>2. v \in WorkerState /\ v.pc = "fail" /\ v.turn = worker[w].turn
    BY <2>1, IdleTypes DEF WorkerState, IdleWorker
  <2>3. worker' = [worker EXCEPT ![w] = v]
    BY <1>2 DEF Fails
  <2> HIDE DEF v
  <2> QED
    BY <2>1, <2>2, <2>3, WorkerMoves
<1> QED
  BY <1>1, <1>2

LEMMA PaidFinite == IsFiniteSet(Paid) /\ Cardinality(Paid) \in Nat
<1>1. IsFiniteSet(Worker)
  BY FS_Interval, LimitAssumption DEF Worker
<1>2. Paid \in SUBSET Worker
  BY DEF Paid
<1> QED
  BY <1>1, <1>2, FS_Subset, FS_CardinalityType

LEMMA PaidShrinks ==
  ASSUME Paid' \subseteq Paid
  PROVE  Cardinality(Paid') \in Nat /\ Cardinality(Paid') <= Cardinality(Paid)
<1>1. Paid' \in SUBSET Paid
  OBVIOUS
<1> HIDE DEF Paid
<1> QED
  BY <1>1, PaidFinite, FS_Subset, FS_CardinalityType

LEMMA InitInvariant == Init => IInv
<1> SUFFICES ASSUME Init PROVE IInv
  OBVIOUS
<1>1. SessionOK
  <2>1. <<>> \in Seq(Turn) /\ Len(<<>>) = 0
    OBVIOUS
  <2> QED
    BY <2>1, LimitAssumption DEF Init, SessionOK, Session, Statuses
<1>2. RequestsOK /\ \A r \in Request : request[r] = IdleRequest
  BY IdleTypes DEF Init, RequestsOK
<1>3. WorkersOK /\ \A w \in Worker : worker[w] = IdleWorker
  BY IdleTypes DEF Init, WorkersOK
<1>4. CountersOK
  BY LimitAssumption DEF Init, CountersOK
<1>5. TokensDrawn
  BY <1>2, <1>3, IdleTypes DEF Init, TokensDrawn, NoTurn
<1>6. NewTurns
  BY <1>2, IdleTypes DEF NewTurns
<1>7. RoomForAnswer
  BY DEF Init, RoomForAnswer, ActiveStatuses
<1>8. HistoryFresh /\ ClaimedOnce /\ PlanOfTurn
  BY <1>3, IdleTypes DEF Init, HistoryFresh, ClaimedOnce, PlanOfTurn, MayCall, Working
<1>9. RunOnce
  BY DEF Init, RunOnce
<1>10. QuotaHeld
  <2>1. Paid = {}
    BY <1>3, IdleTypes DEF Paid
  <2>2. Cardinality(Paid) = 0
    BY <2>1, FS_EmptySet
  <2> QED
    BY <2>2 DEF Init, QuotaHeld
<1> QED
  BY <1>1, <1>2, <1>3, <1>4, <1>5, <1>6, <1>7, <1>8, <1>9, <1>10 DEF IInv

-----------------------------------------------------------------------------
(* Steps that end something *)

\* The conversation stays as it is, or its turn fails.
SessionStays ==
  \/ session' = session
  \/ /\ session.status # "none"
     /\ session' = [session EXCEPT !.status = "failed"]

LEMMA SessionStaysFields ==
  ASSUME SessionOK, RoomForAnswer, SessionStays
  PROVE  /\ SessionOK' /\ RoomForAnswer'
         /\ UNCHANGED <<session.turn, session.count, session.history, session.draft>>
         /\ session'.status \in {session.status, "failed"}
<1>1. CASE session' = session
  BY <1>1 DEF SessionOK, RoomForAnswer
<1>2. CASE session.status # "none" /\ session' = [session EXCEPT !.status = "failed"]
  BY <1>2 DEF SessionOK, RoomForAnswer, Session, Statuses, ActiveStatuses
<1> QED
  BY <1>1, <1>2 DEF SessionStays

LEMMA FailedStays ==
  ASSUME RoomForAnswer, NEW t \in Turn, session' = Failed(t)
  PROVE  SessionStays
BY DEF Failed, SessionStays, RoomForAnswer, Turn, NoTurn

\* An invocation stops working, for whatever reason.
LEMMA StopInvariant ==
  ASSUME IInv, NEW w \in Worker, SessionStays, WorkersOK', CountersOK',
         worker'[w].pc \in {"idle", "fail"},
         worker'[w].turn \in {NoTurn, worker[w].turn},
         \A u \in Worker \ {w} : worker'[u] = worker[u],
         events' \subseteq events,
         UNCHANGED <<drawn, request, quota, answered, calls>>
  PROVE  IInv'
<1>1. /\ SessionOK' /\ RoomForAnswer'
      /\ UNCHANGED <<session.turn, session.count, session.history, session.draft>>
      /\ session'.status \in {session.status, "failed"}
  BY SessionStaysFields DEF IInv
<1>2. RequestsOK'
  BY DEF IInv, RequestsOK
<1>3. TokensDrawn'
  BY <1>1 DEF IInv, TokensDrawn, CountersOK, NoTurn
<1>4. NewTurns'
  <2> SUFFICES ASSUME NEW r \in Request, request[r].pc = "update"
               PROVE  Unseen(request[r].turn)'
    BY DEF IInv, NewTurns
  <2>1. Unseen(request[r].turn) /\ request[r].turn \in Turn
    BY DEF IInv, NewTurns, RequestsOK
  <2>2. \A u \in Worker : worker'[u].turn # request[r].turn
    BY <2>1 DEF Unseen, Turn, NoTurn
  <2> QED
    BY <1>1, <2>1, <2>2 DEF Unseen
<1>5. HistoryFresh'
  BY <1>1 DEF IInv, HistoryFresh, Working, ActiveStatuses
<1>6. ClaimedOnce'
  <2>1. ~MayCall(w)' /\ \A u \in Worker \ {w} : MayCall(u)' <=> MayCall(u)
    BY DEF MayCall
  <2> QED
    BY <1>1, <2>1 DEF IInv, ClaimedOnce
<1>7. RunOnce' /\ PlanOfTurn'
  BY <1>1 DEF IInv, RunOnce, PlanOfTurn
<1>8. QuotaHeld'
  <2>1. Paid' \subseteq Paid
    BY DEF Paid
  <2> QED
    BY <2>1, PaidShrinks, PaidFinite DEF IInv, QuotaHeld, CountersOK
<1> QED
  BY <1>1, <1>2, <1>3, <1>4, <1>5, <1>6, <1>7, <1>8 DEF IInv

\* A request goes on to something else than storing its message, or ends.
LEMMA RequestInvariant ==
  ASSUME IInv, NEW r \in Request, SessionStays, RequestsOK', CountersOK',
         request'[r].pc # "update",
         request'[r].turn \in {NoTurn, request[r].turn},
         \A q \in Request \ {r} : request'[q] = request[q],
         \A t \in events' : t \in events \/ t = request[r].turn,
         UNCHANGED <<drawn, worker, quota, answered, calls>>
  PROVE  IInv'
<1>1. /\ SessionOK' /\ RoomForAnswer'
      /\ UNCHANGED <<session.turn, session.count, session.history, session.draft>>
      /\ session'.status \in {session.status, "failed"}
  BY SessionStaysFields DEF IInv
<1>2. WorkersOK'
  BY DEF IInv, WorkersOK
<1>3. TokensDrawn'
  BY <1>1 DEF IInv, TokensDrawn, CountersOK, NoTurn
<1>4. NewTurns'
  <2> SUFFICES ASSUME NEW q \in Request, request'[q].pc = "update"
               PROVE  /\ Unseen(request[q].turn)'
                      /\ \A p \in Request \ {q} : request'[p].turn # request[q].turn
                      /\ request'[q] = request[q] /\ request[q].count < MaxTurns
    BY DEF NewTurns
  <2>1. /\ q # r /\ request'[q] = request[q] /\ request[q].turn \in Turn
        /\ Unseen(request[q].turn) /\ request[q].count < MaxTurns
        /\ \A p \in Request \ {q} : request[p].turn # request[q].turn
    BY DEF IInv, NewTurns, RequestsOK
  <2>2. \A p \in Request \ {q} : request'[p].turn # request[q].turn
    BY <2>1 DEF Turn, NoTurn
  <2>3. request[q].turn \notin events'
    BY <2>1 DEF Unseen
  <2> QED
    BY <1>1, <2>1, <2>2, <2>3 DEF Unseen
<1>5. HistoryFresh'
  BY <1>1 DEF IInv, HistoryFresh, ActiveStatuses
<1>6. ClaimedOnce' /\ RunOnce' /\ PlanOfTurn'
  BY <1>1 DEF IInv, ClaimedOnce, MayCall, RunOnce, PlanOfTurn
<1>7. QuotaHeld'
  BY DEF IInv, QuotaHeld, Paid
<1> QED
  BY <1>1, <1>2, <1>3, <1>4, <1>5, <1>6, <1>7 DEF IInv

-----------------------------------------------------------------------------
(* Requests *)

LEMMA FaultTypes ==
  ASSUME CountersOK, NEW turns \in SUBSET Turn, Fault(turns)
  PROVE  faults' \in 0 .. MaxFaults /\ lost' \subseteq Turn
BY LimitAssumption DEF CountersOK, Fault

\* A token that was not drawn is not known to anybody.
LEMMA NextToken ==
  ASSUME IInv, NEW t \in Turn, t = drawn + 1
  PROVE  Unseen(t) /\ \A r \in Request : request[r].turn # t
BY DEF IInv, TokensDrawn, CountersOK, Unseen, Turn, SessionOK, Session, RequestsOK,
       RequestState, WorkersOK, WorkerState, NoTurn

\* More tokens are drawn.
LEMMA DrawnMore ==
  ASSUME IInv, drawn' \in Nat, drawn <= drawn'
  PROVE  /\ session.turn <= drawn'
         /\ \A t \in events : t <= drawn'
         /\ \A r \in Request : request[r].turn <= drawn'
         /\ \A w \in Worker : worker[w].turn <= drawn'
         /\ \A t \in Turn : t > drawn' => answered[t] = 0
<1>1. \A t \in Turn \cup {NoTurn} : t \in Int
  BY DEF Turn, NoTurn
<1>2. drawn \in Nat /\ events \subseteq Turn
  BY DEF IInv, CountersOK
<1>3. session.turn \in Turn \cup {NoTurn}
  BY DEF IInv, SessionOK, Session
<1>4. \A r \in Request : request[r].turn \in Turn \cup {NoTurn}
  BY DEF IInv, RequestsOK, RequestState
<1>5. \A w \in Worker : worker[w].turn \in Turn \cup {NoTurn}
  BY DEF IInv, WorkersOK, WorkerState
<1> QED
  BY <1>1, <1>2, <1>3, <1>4, <1>5 DEF IInv, TokensDrawn

\* A message is stored that nobody knew of.
LEMMA QueueInvariant ==
  ASSUME IInv, NEW t \in Turn, Unseen(t), t <= drawn', drawn <= drawn',
         drawn' \in 0 .. MaxTokens,
         session.count < MaxTurns, session' = Queued(t),
         session.status \notin ActiveStatuses,
         RequestsOK', NEW r \in Request, request'[r].pc # "update",
         request'[r].turn = t,
         \A q \in Request \ {r} : request'[q] = request[q] /\ request[q].turn # t,
         UNCHANGED <<events, worker, quota, provider, broken>>
  PROVE  IInv'
<1>1. /\ session'.turn = t /\ session'.status = "queued" /\ session'.draft = NoTurn
      /\ UNCHANGED <<session.count, session.history>>
  BY DEF Queued, IInv, SessionOK, Session
<1>2. SessionOK'
  BY <1>1 DEF IInv, SessionOK, Session, Queued, Statuses, ActiveStatuses
<1>3. WorkersOK' /\ CountersOK'
  BY DEF IInv, WorkersOK, CountersOK, provider, broken
<1>4. TokensDrawn'
  BY <1>1, DrawnMore DEF TokensDrawn, provider
<1>5. NewTurns'
  <2> SUFFICES ASSUME NEW q \in Request, request'[q].pc = "update"
               PROVE  /\ Unseen(request[q].turn)'
                      /\ \A p \in Request \ {q} : request'[p].turn # request[q].turn
                      /\ request'[q] = request[q] /\ request[q].count < MaxTurns
    BY DEF NewTurns
  <2>1. /\ q # r /\ request'[q] = request[q] /\ request[q].turn # t
        /\ Unseen(request[q].turn) /\ request[q].count < MaxTurns
        /\ \A p \in Request \ {q} : request[p].turn # request[q].turn
    BY DEF IInv, NewTurns
  <2>2. \A p \in Request \ {q} : request'[p].turn # request[q].turn
    BY <2>1
  <2> QED
    BY <1>1, <2>1, <2>2 DEF Unseen, provider
<1>6. RoomForAnswer'
  BY <1>1 DEF RoomForAnswer
<1>7. HistoryFresh'
  BY <1>1 DEF HistoryFresh, Unseen
<1>8. ClaimedOnce'
  BY <1>1 DEF IInv, ClaimedOnce, MayCall, Unseen, provider
<1>9. RunOnce' /\ PlanOfTurn'
  BY <1>1 DEF IInv, RunOnce, PlanOfTurn, provider
<1>10. QuotaHeld'
  BY DEF IInv, QuotaHeld, Paid, provider
<1> QED
  BY <1>2, <1>3, <1>4, <1>5, <1>6, <1>7, <1>8, <1>9, <1>10 DEF IInv

LEMMA CreateInvariant ==
  ASSUME IInv, NEW r \in Request, Create(r)
  PROVE  IInv'
<1> DEFINE t == drawn + 1
           q == [pc |-> "enqueue", turn |-> t, count |-> 0]
<1>1. t \in Turn /\ drawn' = t /\ drawn \in Nat
  BY DEF Create, IInv, CountersOK
<1>2. q \in RequestState /\ q.pc = "enqueue" /\ q.turn = t
  BY <1>1 DEF RequestState
<1>3. request' = [request EXCEPT ![r] = q]
  BY DEF Create
<1> HIDE DEF q
<1>4. RequestsOK' /\ request'[r] = q /\ \A p \in Request \ {r} : request'[p] = request[p]
  BY <1>1, <1>2, <1>3, RequestMoves DEF IInv
<1>5. Unseen(t) /\ \A p \in Request : request[p].turn # t
  BY <1>1, NextToken
<1>6. session' = Queued(t)
  BY DEF Create, Queued, IInv, RoomForAnswer, SessionOK, Session
<1>7. session.count < MaxTurns /\ session.status \notin ActiveStatuses
  BY LimitAssumption DEF Create, IInv, RoomForAnswer, ActiveStatuses
<1>8. UNCHANGED <<events, worker, quota, provider, broken>>
  BY DEF Create
<1>9. t <= drawn' /\ drawn <= drawn' /\ drawn' \in 0 .. MaxTokens
  BY <1>1 DEF Turn
<1> HIDE DEF t
<1> QED
  BY <1>1, <1>2, <1>4, <1>5, <1>6, <1>7, <1>8, <1>9, QueueInvariant

LEMMA MessageLookInvariant ==
  ASSUME IInv, NEW r \in Request, MessageLook(r)
  PROVE  IInv'
<1> DEFINE t == drawn + 1
           q == [pc |-> "update", turn |-> t, count |-> session.count]
<1>1. t \in Turn /\ drawn' = t /\ drawn \in Nat
  BY DEF MessageLook, IInv, CountersOK
<1>2. q \in RequestState /\ q.pc = "update" /\ q.turn = t /\ q.count = session.count
  BY <1>1 DEF RequestState, IInv, SessionOK, Session
<1>3. request' = [request EXCEPT ![r] = q] /\ session.count < MaxTurns
  BY DEF MessageLook
<1> HIDE DEF q
<1>4. RequestsOK' /\ request'[r] = q /\ \A p \in Request \ {r} : request'[p] = request[p]
  BY <1>1, <1>2, <1>3, RequestMoves DEF IInv
<1>5. Unseen(t) /\ \A p \in Request : request[p].turn # t
  BY <1>1, NextToken
<1>6. UNCHANGED <<session, events, worker, quota, provider, broken>>
  BY DEF MessageLook
<1>7. SessionOK' /\ WorkersOK' /\ CountersOK'
  BY <1>1, <1>6 DEF IInv, SessionOK, WorkersOK, CountersOK, provider, broken, Turn
<1>8. TokensDrawn'
  <2>1. drawn' \in Nat /\ drawn <= drawn' /\ q.turn <= drawn'
    BY <1>1, <1>2
  <2>2. \A p \in Request : request'[p].turn <= drawn'
    BY <1>4, <2>1, DrawnMore
  <2> QED
    BY <1>6, <2>1, <2>2, DrawnMore DEF TokensDrawn, provider
<1>9. NewTurns'
  <2>1. \A p \in Request : request'[p].pc = "update" =>
          Unseen(request'[p].turn) /\ request'[p].count < MaxTurns
    BY <1>2, <1>3, <1>4, <1>5 DEF IInv, NewTurns
  <2>2. \A u \in Turn : Unseen(u)' <=> Unseen(u)
    BY <1>6 DEF Unseen, provider
  <2>3. \A p \in Request : request'[p].pc = "update" =>
          \A o \in Request \ {p} : request'[o].turn # request'[p].turn
    BY <1>2, <1>4, <1>5 DEF IInv, NewTurns
  <2>4. \A p \in Request : request'[p].pc = "update" => request'[p].turn \in Turn
    BY <1>4 DEF RequestsOK
  <2> QED
    BY <2>1, <2>2, <2>3, <2>4 DEF NewTurns
<1>10. RoomForAnswer' /\ HistoryFresh' /\ ClaimedOnce' /\ RunOnce' /\ PlanOfTurn'
  BY <1>6 DEF IInv, RoomForAnswer, HistoryFresh, ClaimedOnce, MayCall, RunOnce,
              PlanOfTurn, provider
<1>11. QuotaHeld'
  BY <1>6 DEF IInv, QuotaHeld, Paid, provider
<1> QED
  BY <1>4, <1>7, <1>8, <1>9, <1>10, <1>11 DEF IInv

LEMMA RequestStepInvariant ==
  ASSUME IInv, NEW r \in Request,
         RequestStep(r) \/ EnqueueFails(r) \/ RequestStops(r)
  PROVE  IInv'
<1> DEFINE t == request[r].turn
<1>1. t \in Turn /\ request[r] \in RequestState
  BY DEF IInv, RequestsOK, RequestStep, MessageUpdate, Enqueue, RequestFails,
         EnqueueFails, RequestStops
<1>2. UNCHANGED <<drawn, worker, quota, answered, calls>>
  BY DEF RequestStep, MessageUpdate, Enqueue, RequestFails, EnqueueFails, RequestStops,
         provider
<1>3. CASE request' = [request EXCEPT ![r] = IdleRequest] /\ SessionStays
           /\ CountersOK' /\ events' \subseteq events \cup {t}
  <2>1. /\ RequestsOK' /\ request'[r].pc = "idle" /\ request'[r].turn = NoTurn
        /\ \A q \in Request \ {r} : request'[q] = request[q]
    BY <1>3, RequestEnds DEF IInv
  <2> QED
    BY <1>2, <1>3, <2>1, RequestInvariant
<1>4. CASE MessageUpdate(r)
  <2>1. CASE MayQueue(r)
    <3> DEFINE q == [request[r] EXCEPT !.pc = "enqueue", !.count = 0]
    <3>1. request' = [request EXCEPT ![r] = q] /\ session' = Queued(t)
      BY <1>4, <2>1 DEF MessageUpdate
    <3>2. q \in RequestState /\ q.pc = "enqueue" /\ q.turn = t
      BY <1>1 DEF RequestState
    <3>3. request[r].pc = "update" /\ UNCHANGED <<drawn, events, worker, quota, provider, broken>>
      BY <1>4 DEF MessageUpdate
    <3> HIDE DEF q
    <3>4. RequestsOK' /\ request'[r] = q /\ \A p \in Request \ {r} : request'[p] = request[p]
      BY <1>1, <3>1, <3>2, RequestMoves DEF IInv
    <3>5. Unseen(t) /\ (\A p \in Request \ {r} : request[p].turn # t)
      BY <3>3 DEF IInv, NewTurns
    <3>6. session.count < MaxTurns /\ session.status \notin ActiveStatuses
      BY <2>1, <3>3 DEF IInv, NewTurns, MayQueue, ActiveStatuses
    <3>7. t <= drawn' /\ drawn <= drawn' /\ drawn' \in 0 .. MaxTokens
      BY <3>3 DEF IInv, TokensDrawn, CountersOK
    <3> HIDE DEF t
    <3> QED
      BY <1>1, <3>1, <3>2, <3>3, <3>4, <3>5, <3>6, <3>7, QueueInvariant
  <2>2. CASE ~MayQueue(r)
    <3>1. request' = [request EXCEPT ![r] = IdleRequest] /\ UNCHANGED session
      BY <1>4, <2>2 DEF MessageUpdate
    <3>2. UNCHANGED <<drawn, events, quota, answered, calls, lost, faults>>
      BY <1>4 DEF MessageUpdate, provider, broken
    <3> QED
      BY <1>3, <3>1, <3>2 DEF SessionStays, IInv, CountersOK
  <2> QED
    BY <2>1, <2>2
<1>5. CASE Enqueue(r)
  <2>1. events' = events \cup {t} /\ UNCHANGED <<drawn, session, quota, answered, calls, lost, faults>>
    BY <1>5 DEF Enqueue, provider, broken
  <2>2. CountersOK'
    BY <1>1, <2>1 DEF IInv, CountersOK
  <2> QED
    BY <1>3, <1>5, <2>1, <2>2 DEF Enqueue, SessionStays
<1>6. CASE EnqueueFails(r)
  <2> DEFINE q == [request[r] EXCEPT !.pc = "fail"]
  <2>1. q \in RequestState /\ q.pc = "fail" /\ q.turn = t
    BY <1>1 DEF RequestState
  <2>2. request' = [request EXCEPT ![r] = q] /\ UNCHANGED session
    BY <1>6 DEF EnqueueFails
  <2> HIDE DEF q
  <2>3. RequestsOK' /\ request'[r] = q /\ \A p \in Request \ {r} : request'[p] = request[p]
    BY <1>1, <2>1, <2>2, RequestMoves DEF IInv
  <2>4. events' \subseteq events \cup {t}
    BY <1>6 DEF EnqueueFails
  <2>5. CountersOK'
    BY <1>1, <1>2, <1>6, <2>4, FaultTypes DEF EnqueueFails, IInv, CountersOK
  <2> QED
    BY <1>2, <2>1, <2>2, <2>3, <2>4, <2>5, RequestInvariant DEF SessionStays
<1>7. CASE RequestFails(r)
  <2>1. session' = Failed(t) /\ UNCHANGED <<drawn, events, quota, answered, calls, lost, faults>>
    BY <1>7 DEF RequestFails, provider, broken
  <2>2. SessionStays /\ CountersOK'
    BY <1>1, <2>1, FailedStays DEF IInv, CountersOK
  <2> QED
    BY <1>3, <1>7, <2>1, <2>2 DEF RequestFails
<1>8. CASE RequestStops(r)
  <2>1. CountersOK'
    BY <1>1, <1>2, <1>8, FaultTypes DEF RequestStops, IInv, CountersOK
  <2> QED
    BY <1>3, <1>8, <2>1 DEF RequestStops, SessionStays
<1> QED
  BY <1>4, <1>5, <1>6, <1>7, <1>8 DEF RequestStep

-----------------------------------------------------------------------------
(* Invocations *)

LEMMA EndsStep ==
  ASSUME IInv, NEW w \in Worker, worker[w].pc # "idle", Ends(w) \/ Fails(w)
  PROVE  /\ WorkersOK'
         /\ worker'[w].pc \in {"idle", "fail"}
         /\ worker'[w].turn \in {NoTurn, worker[w].turn}
         /\ \A u \in Worker \ {w} : worker'[u] = worker[u]
         /\ events' \subseteq events
<1>1. events' \subseteq events
  BY DEF Ends, Fails
<1>2. worker' = [worker EXCEPT ![w] = IdleWorker] \/ Fails(w)
  BY DEF Ends
<1> QED
  BY <1>1, <1>2, WorkerStopsWork DEF IInv

LEMMA DeliverInvariant ==
  ASSUME IInv, NEW w \in Worker, NEW t \in Turn, Deliver(w, t)
  PROVE  IInv'
<1>1. UNCHANGED <<drawn, session, request, quota, answered, calls, lost, faults>>
  BY DEF Deliver, provider, broken
<1>2. CASE session.turn = t /\ session.status = "queued"
  <2> DEFINE v == [pc |-> "claim", turn |-> t, count |-> session.count,
                   history |-> session.history, draft |-> NoTurn]
  <2>1. worker' = [worker EXCEPT ![w] = v] /\ UNCHANGED events
    BY <1>2 DEF Deliver
  <2>2. /\ v \in WorkerState /\ v.pc = "claim" /\ v.turn = t
        /\ v.count = session.count /\ v.history = session.history
    BY DEF WorkerState, IInv, SessionOK, Session
  <2> HIDE DEF v
  <2>3. WorkersOK' /\ worker'[w] = v /\ \A u \in Worker \ {w} : worker'[u] = worker[u]
    BY <2>1, <2>2, WorkerMoves DEF IInv
  <2>4. SessionOK' /\ RequestsOK' /\ CountersOK'
    BY <1>1, <2>1 DEF IInv, SessionOK, RequestsOK, CountersOK
  <2>5. TokensDrawn'
    BY <1>1, <1>2, <2>1, <2>2, <2>3 DEF IInv, TokensDrawn
  <2>6. NewTurns'
    <3> SUFFICES ASSUME NEW r \in Request, request[r].pc = "update"
                 PROVE  Unseen(request[r].turn)'
      BY <1>1 DEF IInv, NewTurns
    <3>1. Unseen(request[r].turn)
      BY DEF IInv, NewTurns
    <3>2. \A u \in Worker : worker'[u].turn # request[r].turn
      BY <1>2, <2>2, <2>3, <3>1 DEF Unseen
    <3> QED
      BY <1>1, <2>1, <3>1, <3>2 DEF Unseen
  <2>7. RoomForAnswer' /\ RunOnce'
    BY <1>1 DEF IInv, RoomForAnswer, RunOnce
  <2>8. HistoryFresh'
    BY <1>1, <2>2, <2>3 DEF IInv, HistoryFresh
  <2>9. ClaimedOnce'
    <3>1. ~MayCall(w)' /\ \A u \in Worker \ {w} : MayCall(u)' <=> MayCall(u)
      BY <2>2, <2>3 DEF MayCall
    <3> QED
      BY <1>1, <2>3, <3>1 DEF IInv, ClaimedOnce
  <2>10. PlanOfTurn'
    BY <1>1, <2>2, <2>3 DEF IInv, PlanOfTurn
  <2>11. QuotaHeld'
    <3>1. Paid' \subseteq Paid
      BY <2>2, <2>3 DEF Paid
    <3> QED
      BY <1>1, <3>1, PaidShrinks, PaidFinite DEF IInv, QuotaHeld, CountersOK
  <2> QED
    BY <2>3, <2>4, <2>5, <2>6, <2>7, <2>8, <2>9, <2>10, <2>11 DEF IInv
<1>3. CASE ~(session.turn = t /\ session.status = "queued")
  <2>1. events' \subseteq events /\ UNCHANGED worker /\ worker[w].pc = "idle"
    BY <1>3 DEF Deliver, Takes
  <2>2. CountersOK' /\ WorkersOK' /\ SessionStays
    BY <1>1, <2>1 DEF IInv, CountersOK, WorkersOK, SessionStays
  <2> QED
    BY <1>1, <2>1, <2>2, StopInvariant
<1> QED
  BY <1>2, <1>3

LEMMA ClaimInvariant ==
  ASSUME IInv, NEW w \in Worker, Claim(w)
  PROVE  IInv'
<1> DEFINE t == worker[w].turn
<1>1. /\ t \in Turn /\ worker[w] \in WorkerState /\ worker[w].pc = "claim"
      /\ UNCHANGED <<drawn, request, quota, answered, calls, lost, faults>>
  BY DEF IInv, WorkersOK, Claim, provider, broken
<1>2. CASE MayClaim(t)
  <2> DEFINE v == [worker[w] EXCEPT !.pc = "prepare"]
  <2>1. /\ worker' = [worker EXCEPT ![w] = v] /\ UNCHANGED events
        /\ session' = [session EXCEPT !.status = "processing"]
    BY <1>2 DEF Claim
  <2>2. /\ v \in WorkerState /\ v.pc = "prepare" /\ v.turn = t
        /\ v.count = worker[w].count /\ v.history = worker[w].history
    BY <1>1 DEF WorkerState
  <2>3. session.turn = t /\ session.status = "queued"
    BY <1>2 DEF MayClaim
  <2>4. /\ session'.status = "processing"
        /\ UNCHANGED <<session.turn, session.count, session.history, session.draft>>
    BY <2>1 DEF IInv, SessionOK, Session
  <2> HIDE DEF v
  <2>5. WorkersOK' /\ worker'[w] = v /\ \A u \in Worker \ {w} : worker'[u] = worker[u]
    BY <1>1, <2>1, <2>2, WorkerMoves DEF IInv
  <2>6. SessionOK' /\ RequestsOK' /\ CountersOK'
    BY <1>1, <2>1, <2>4 DEF IInv, SessionOK, Session, Statuses, ActiveStatuses,
                            RequestsOK, CountersOK
  <2>7. TokensDrawn'
    BY <1>1, <2>1, <2>2, <2>4, <2>5 DEF IInv, TokensDrawn
  <2>8. NewTurns'
    <3> SUFFICES ASSUME NEW r \in Request, request[r].pc = "update"
                 PROVE  Unseen(request[r].turn)'
      BY <1>1 DEF IInv, NewTurns
    <3>1. Unseen(request[r].turn)
      BY DEF IInv, NewTurns
    <3>2. \A u \in Worker : worker'[u].turn # request[r].turn
      BY <2>2, <2>5, <3>1 DEF Unseen
    <3> QED
      BY <1>1, <2>1, <2>4, <3>1, <3>2 DEF Unseen
  <2>9. RoomForAnswer' /\ RunOnce'
    BY <1>1, <2>3, <2>4 DEF IInv, RoomForAnswer, RunOnce, ActiveStatuses
  <2>10. HistoryFresh'
    <3>1. \A u \in Worker : worker'[u].pc \in Working => worker[u].pc \in Working
      BY <1>1, <2>5 DEF Working
    <3>2. \A u \in Worker : /\ worker'[u].turn = worker[u].turn
                            /\ worker'[u].count = worker[u].count
                            /\ worker'[u].history = worker[u].history
      BY <2>2, <2>5
    <3> QED
      BY <2>3, <2>4, <3>1, <3>2 DEF IInv, HistoryFresh, ActiveStatuses
  <2>11. ClaimedOnce'
    <3>1. /\ answered[t] = 0 /\ session'.status # "queued"
          /\ \A u \in Worker : MayCall(u) => worker[u].turn # t
      BY <2>3, <2>4 DEF IInv, ClaimedOnce
    <3>2. \A u \in Worker \ {w} : MayCall(u)' <=> MayCall(u)
      BY <2>5 DEF MayCall
    <3> QED
      BY <1>1, <2>2, <2>5, <3>1, <3>2 DEF IInv, ClaimedOnce
  <2>12. PlanOfTurn'
    BY <1>1, <2>2, <2>4, <2>5 DEF IInv, PlanOfTurn
  <2>13. QuotaHeld'
    <3>1. Paid' \subseteq Paid
      BY <2>2, <2>5 DEF Paid
    <3> QED
      BY <1>1, <3>1, PaidShrinks, PaidFinite DEF IInv, QuotaHeld, CountersOK
  <2> QED
    BY <2>5, <2>6, <2>7, <2>8, <2>9, <2>10, <2>11, <2>12, <2>13 DEF IInv
<1>3. CASE ~MayClaim(t)
  <2>1. Ends(w) /\ UNCHANGED session
    BY <1>3 DEF Claim
  <2>2. /\ WorkersOK' /\ events' \subseteq events
        /\ worker'[w].pc \in {"idle", "fail"} /\ worker'[w].turn \in {NoTurn, worker[w].turn}
        /\ \A u \in Worker \ {w} : worker'[u] = worker[u]
    BY <1>1, <2>1, EndsStep
  <2>3. CountersOK' /\ SessionStays
    BY <1>1, <2>1, <2>2 DEF IInv, CountersOK, SessionStays
  <2> QED
    BY <1>1, <2>2, <2>3, StopInvariant
<1> QED
  BY <1>2, <1>3

\* An invocation ends without having changed anything but perhaps the status.
LEMMA WorkerEndsInvariant ==
  ASSUME IInv, NEW w \in Worker, ClaimFails(w) \/ WorkerFails(w) \/ WorkerDies(w)
  PROVE  IInv'
<1> DEFINE t == worker[w].turn
<1>1. /\ t \in Turn /\ worker[w].pc # "idle"
      /\ UNCHANGED <<drawn, request, quota, answered, calls>>
  BY DEF IInv, WorkersOK, ClaimFails, WorkerFails, WorkerDies, provider
<1>2. worker' = [worker EXCEPT ![w] = IdleWorker] /\ events' \subseteq events
  BY DEF ClaimFails, WorkerFails, WorkerDies, Ends
<1>3. /\ WorkersOK'
      /\ worker'[w].pc \in {"idle", "fail"} /\ worker'[w].turn \in {NoTurn, worker[w].turn}
      /\ \A u \in Worker \ {w} : worker'[u] = worker[u]
  BY <1>2, WorkerStopsWork DEF IInv
<1>4. SessionStays
  <2>1. session' = session \/ session' = Failed(t)
    BY DEF ClaimFails, WorkerFails, WorkerDies
  <2> QED
    BY <1>1, <2>1, FailedStays DEF IInv, SessionStays
<1>5. faults' \in 0 .. MaxFaults /\ lost' \subseteq Turn
  <2>1. Fault({t}) \/ UNCHANGED broken
    BY DEF ClaimFails, WorkerFails, WorkerDies
  <2> QED
    BY <1>1, <2>1, FaultTypes DEF IInv, CountersOK, broken
<1>6. CountersOK'
  BY <1>1, <1>2, <1>5 DEF IInv, CountersOK
<1> QED
  BY <1>1, <1>2, <1>3, <1>4, <1>6, StopInvariant

\* Only the place of an invocation that goes on with its turn changes.
LEMMA GoesOn ==
  ASSUME IInv, NEW w \in Worker, NEW v \in WorkerState, v.pc # "idle",
         worker[w].pc \in Working, v.turn = worker[w].turn,
         v.count = worker[w].count, v.history = worker[w].history,
         worker' = [worker EXCEPT ![w] = v],
         UNCHANGED <<drawn, session, events, request>>
  PROVE  /\ SessionOK' /\ RequestsOK' /\ WorkersOK' /\ RoomForAnswer' /\ HistoryFresh'
         /\ worker'[w] = v
         /\ \A u \in Worker \ {w} : worker'[u] = worker[u]
<1>1. v.turn \in Turn
  BY DEF IInv, WorkersOK, Working
<1>2. WorkersOK' /\ worker'[w] = v /\ \A u \in Worker \ {w} : worker'[u] = worker[u]
  BY <1>1, WorkerMoves DEF IInv
<1>3. HistoryFresh'
  BY <1>2 DEF IInv, HistoryFresh
<1> QED
  BY <1>2, <1>3 DEF IInv, SessionOK, RequestsOK, RoomForAnswer

LEMMA PrepareInvariant ==
  ASSUME IInv, NEW w \in Worker, Prepare(w)
  PROVE  IInv'
<1>1. /\ worker[w].turn \in Turn /\ worker[w] \in WorkerState /\ worker[w].pc = "prepare"
      /\ UNCHANGED <<drawn, session, request, answered, calls, lost, faults>>
  BY DEF IInv, WorkersOK, Prepare, provider, broken
<1>2. CASE WithinQuota /\ quota' = quota + 1 /\ UNCHANGED events
           /\ worker' = [worker EXCEPT ![w].pc = "call"]
  <2> DEFINE v == [worker[w] EXCEPT !.pc = "call"]
  <2>1. /\ v \in WorkerState /\ v.pc = "call" /\ v.turn = worker[w].turn
        /\ v.count = worker[w].count /\ v.history = worker[w].history
    BY <1>1 DEF WorkerState
  <2>2. worker' = [worker EXCEPT ![w] = v]
    BY <1>2
  <2> HIDE DEF v
  <2>3. /\ SessionOK' /\ RequestsOK' /\ WorkersOK' /\ RoomForAnswer' /\ HistoryFresh'
        /\ worker'[w] = v
        /\ \A u \in Worker \ {w} : worker'[u] = worker[u]
    BY <1>1, <1>2, <2>1, <2>2, GoesOn DEF Working
  <2>4. CountersOK'
    BY <1>1, <1>2, LimitAssumption DEF IInv, CountersOK, WithinQuota
  <2>5. \A u \in Worker : worker'[u].turn = worker[u].turn
    BY <2>1, <2>3
  <2>6. TokensDrawn'
    BY <1>1, <1>2, <2>5 DEF IInv, TokensDrawn
  <2>7. NewTurns'
    BY <1>1, <1>2, <2>5 DEF IInv, NewTurns, Unseen
  <2>8. ClaimedOnce'
    <3>1. \A u \in Worker : MayCall(u)' <=> MayCall(u)
      BY <1>1, <2>1, <2>3 DEF MayCall
    <3> QED
      BY <1>1, <2>5, <3>1 DEF IInv, ClaimedOnce
  <2>9. RunOnce' /\ PlanOfTurn'
    BY <1>1, <2>1, <2>3 DEF IInv, RunOnce, PlanOfTurn
  <2>10. QuotaHeld'
    <3>1. Paid' = Paid \cup {w} /\ w \notin Paid
      BY <1>1, <2>1, <2>3 DEF Paid
    <3>2. Cardinality(Paid') = Cardinality(Paid) + 1
      BY <3>1, PaidFinite, FS_AddElement
    <3> QED
      BY <1>1, <1>2, <3>2, PaidFinite DEF IInv, QuotaHeld, CountersOK
  <2> QED
    BY <2>3, <2>4, <2>6, <2>7, <2>8, <2>9, <2>10 DEF IInv
<1>3. CASE Fails(w) /\ UNCHANGED quota
  <2>1. /\ WorkersOK' /\ events' \subseteq events
        /\ worker'[w].pc \in {"idle", "fail"} /\ worker'[w].turn \in {NoTurn, worker[w].turn}
        /\ \A u \in Worker \ {w} : worker'[u] = worker[u]
    BY <1>1, <1>3, EndsStep
  <2>2. CountersOK' /\ SessionStays
    BY <1>1, <1>3, <2>1 DEF IInv, CountersOK, SessionStays
  <2> QED
    BY <1>1, <1>3, <2>1, <2>2, StopInvariant
<1> QED
  BY <1>2, <1>3 DEF Prepare

LEMMA CallInvariant ==
  ASSUME IInv, NEW w \in Worker, Call(w)
  PROVE  IInv'
<1> DEFINE t == worker[w].turn
<1>1. /\ t \in Turn /\ worker[w] \in WorkerState /\ worker[w].pc = "call"
      /\ UNCHANGED <<drawn, session, request, events, quota, lost, faults>>
  BY DEF IInv, WorkersOK, Call, broken, Fails
<1>2. /\ answered \in [Turn -> Nat] /\ answered[t] = 0
      /\ answered' = [answered EXCEPT ![t] = @ + 1] /\ calls' = calls + 1
  BY <1>1 DEF IInv, ClaimedOnce, MayCall, Call, CountersOK
<1>3. /\ answered' \in [Turn -> Nat] /\ answered'[t] = 1
      /\ \A u \in Turn \ {t} : answered'[u] = answered[u]
  BY <1>1, <1>2
<1>4. /\ WorkersOK' /\ HistoryFresh'
      /\ worker'[w].pc \in {"finish", "fail"}
      /\ worker'[w].turn \in {NoTurn, t}
      /\ worker'[w].pc = "finish" => worker'[w].turn = t /\ worker'[w].draft \in {NoTurn, t}
      /\ \A u \in Worker \ {w} : worker'[u] = worker[u]
  <2>1. ASSUME NEW d \in {NoTurn, t},
               worker' = [worker EXCEPT ![w].pc = "finish", ![w].draft = d]
        PROVE  <1>4
    <3> DEFINE v == [worker[w] EXCEPT !.pc = "finish", !.draft = d]
    <3>1. /\ v \in WorkerState /\ v.pc = "finish" /\ v.turn = t /\ v.draft = d
          /\ v.count = worker[w].count /\ v.history = worker[w].history
      BY <1>1 DEF WorkerState
    <3>2. worker' = [worker EXCEPT ![w] = v]
      BY <2>1
    <3> HIDE DEF v
    <3> QED
      BY <1>1, <3>1, <3>2, GoesOn DEF Working
  <2>2. CASE Fails(w)
    <3> DEFINE v == [IdleWorker EXCEPT !.pc = "fail", !.turn = t]
    <3>1. v \in WorkerState /\ v.pc = "fail" /\ v.turn = t
      BY <1>1, IdleTypes DEF WorkerState, IdleWorker
    <3>2. worker' = [worker EXCEPT ![w] = v]
      BY <2>2 DEF Fails
    <3> HIDE DEF v
    <3>3. WorkersOK' /\ worker'[w] = v /\ \A u \in Worker \ {w} : worker'[u] = worker[u]
      BY <1>1, <3>1, <3>2, WorkerMoves DEF IInv
    <3>4. HistoryFresh'
      BY <1>1, <3>1, <3>3 DEF IInv, HistoryFresh, Working
    <3> QED
      BY <3>1, <3>3, <3>4
  <2> QED
    BY <2>1, <2>2 DEF Call
<1>5. SessionOK' /\ RequestsOK' /\ RoomForAnswer'
  BY <1>1 DEF IInv, SessionOK, RequestsOK, RoomForAnswer
<1>6. CountersOK'
  BY <1>1, <1>2, <1>3 DEF IInv, CountersOK
<1>7. t <= drawn
  BY DEF IInv, TokensDrawn
<1>8. TokensDrawn'
  <2>1. \A u \in Turn : u > drawn => answered'[u] = 0
    BY <1>1, <1>3, <1>7 DEF IInv, TokensDrawn, CountersOK, Turn
  <2>2. \A u \in Worker : worker'[u].turn <= drawn
    BY <1>4, <1>7 DEF IInv, TokensDrawn, CountersOK, NoTurn
  <2> QED
    BY <1>1, <2>1, <2>2 DEF IInv, TokensDrawn
<1>9. NewTurns'
  <2> SUFFICES ASSUME NEW r \in Request, request[r].pc = "update"
               PROVE  Unseen(request[r].turn)'
    BY <1>1 DEF IInv, NewTurns
  <2>1. Unseen(request[r].turn) /\ request[r].turn \in Turn
    BY DEF IInv, NewTurns, RequestsOK
  <2>2. request[r].turn # t /\ request[r].turn # NoTurn
    BY <2>1 DEF Unseen, Turn, NoTurn
  <2>3. \A u \in Worker : worker'[u].turn # request[r].turn
    BY <1>4, <2>1, <2>2 DEF Unseen
  <2> QED
    BY <1>1, <1>3, <2>1, <2>2, <2>3 DEF Unseen
<1>10. ClaimedOnce'
  <2>1. ~MayCall(w)' /\ \A u \in Worker \ {w} : MayCall(u)' <=> MayCall(u)
    BY <1>4 DEF MayCall
  <2>2. MayCall(w)
    BY <1>1 DEF MayCall
  <2>3. \A u \in Worker \ {w} : MayCall(u) =>
          /\ worker[u].turn # t /\ worker[u].turn \in Turn /\ answered[worker[u].turn] = 0
          /\ \A v \in Worker \ {u} : MayCall(v) => worker[v].turn # worker[u].turn
    BY <2>2 DEF IInv, ClaimedOnce, WorkersOK, MayCall
  <2>4. session.status = "queued" =>
          /\ session.turn # t /\ session.turn \in Turn /\ answered[session.turn] = 0
          /\ \A u \in Worker : MayCall(u) => worker[u].turn # session.turn
    BY <2>2 DEF IInv, ClaimedOnce, RoomForAnswer
  <2>5. \A u \in Worker : MayCall(u)' =>
          /\ u # w /\ MayCall(u) /\ worker'[u].turn = worker[u].turn
          /\ answered'[worker'[u].turn] = 0
    BY <1>3, <1>4, <2>1, <2>3
  <2>6. \A u \in Worker : MayCall(u)' =>
          \A v \in Worker \ {u} : MayCall(v)' => worker'[v].turn # worker'[u].turn
    BY <2>3, <2>5
  <2>7. session.status = "queued" =>
          /\ answered'[session.turn] = 0
          /\ \A u \in Worker : MayCall(u)' => worker'[u].turn # session.turn
    BY <1>3, <2>4, <2>5
  <2> QED
    BY <1>1, <2>5, <2>6, <2>7 DEF ClaimedOnce
<1>11. RunOnce'
  BY <1>3 DEF IInv, RunOnce
<1>12. PlanOfTurn'
  <2>1. session.draft # NoTurn =>
          session.draft = session.turn /\ answered'[session.turn] > 0
    <3>1. session.draft # NoTurn => session.draft = session.turn /\ session.turn \in Turn
                                    /\ answered[session.turn] > 0
      BY DEF IInv, PlanOfTurn, RoomForAnswer
    <3> QED
      BY <1>2, <1>3, <3>1
  <2>2. \A u \in Worker : worker'[u].pc = "finish" =>
          worker'[u].draft \in {NoTurn, worker'[u].turn} /\ answered'[worker'[u].turn] > 0
    <3>1. \A u \in Worker \ {w} : worker[u].pc = "finish" =>
            /\ worker[u].draft \in {NoTurn, worker[u].turn} /\ worker[u].turn \in Turn
            /\ answered[worker[u].turn] > 0
      BY DEF IInv, PlanOfTurn, WorkersOK
    <3>2. \A u \in Worker \ {w} : worker[u].pc = "finish" => answered'[worker[u].turn] > 0
      BY <1>2, <1>3, <3>1
    <3> QED
      BY <1>3, <1>4, <3>1, <3>2
  <2> QED
    BY <1>1, <2>1, <2>2 DEF PlanOfTurn
<1>13. QuotaHeld'
  <2>1. Paid' = Paid \ {w} /\ w \in Paid
    BY <1>1, <1>4 DEF Paid
  <2>2. Cardinality(Paid') = Cardinality(Paid) - 1
    BY <2>1, PaidFinite, FS_RemoveElement
  <2> QED
    BY <1>1, <1>2, <2>2, PaidFinite DEF IInv, QuotaHeld, CountersOK
<1> QED
  BY <1>4, <1>5, <1>6, <1>8, <1>9, <1>10, <1>11, <1>12, <1>13 DEF IInv

\* What an answer that may be stored does to the conversation
LEMMA AnsweredFields ==
  ASSUME IInv, NEW w \in Worker, worker[w].pc = "finish", MayFinish(worker[w].turn),
         session' = Answered(w)
  PROVE  /\ session'.status = "succeeded" /\ session.status = "processing"
         /\ session'.turn = session.turn /\ session.turn = worker[w].turn
         /\ session.turn \in Turn
         /\ session'.history = Append(session.history, session.turn)
         /\ session'.count = session.count + 1 /\ session.count < MaxTurns
         /\ session'.draft = worker[w].draft
         /\ SessionOK'
<1>1. /\ session.turn = worker[w].turn /\ session.status = "processing"
      /\ worker[w] \in WorkerState /\ worker[w].turn \in Turn
  BY DEF IInv, WorkersOK, MayFinish
<1>2. worker[w].count = session.count /\ worker[w].history = session.history
  BY <1>1 DEF IInv, HistoryFresh, Working, ActiveStatuses
<1>3. session.count < MaxTurns
  BY <1>1 DEF IInv, RoomForAnswer, ActiveStatuses
<1> DEFINE h == Append(session.history, session.turn)
<1>4. /\ session \in Session /\ session.count = Len(session.history)
      /\ session.history \in Seq(Turn) /\ session.count \in Nat
  BY DEF IInv, SessionOK, Session
<1>5. h \in Seq(Turn) /\ Len(h) = session.count + 1
  BY <1>1, <1>4
<1>6. worker[w].draft \in Turn \cup {NoTurn}
  BY <1>1 DEF WorkerState
<1>7. session' = [session EXCEPT !.status = "succeeded", !.count = session.count + 1,
                                 !.history = h, !.draft = worker[w].draft]
  BY <1>1, <1>2 DEF Answered
<1> HIDE DEF h
<1>8. /\ session'.status = "succeeded" /\ session'.turn = session.turn
      /\ session'.history = h /\ session'.count = session.count + 1
      /\ session'.draft = worker[w].draft
  BY <1>4, <1>7 DEF Session
<1>9. session' \in Session
  <2> DEFINE S == Seq(Turn)
  <2>1. h \in S /\ session.count + 1 \in Nat
    BY <1>4, <1>5
  <2>2. session \in [status : Statuses, turn : Turn \cup {NoTurn}, count : Nat,
                    history : S, draft : Turn \cup {NoTurn}]
    BY <1>4 DEF Session
  <2>3. "succeeded" \in Statuses
    BY DEF Statuses
  <2> HIDE DEF S
  <2>4. session' \in [status : Statuses, turn : Turn \cup {NoTurn}, count : Nat,
                     history : S, draft : Turn \cup {NoTurn}]
    BY <1>6, <1>7, <2>1, <2>2, <2>3
  <2> QED
    BY <2>4 DEF S, Session
<1>10. SessionOK'
  BY <1>3, <1>4, <1>5, <1>8, <1>9, LimitAssumption DEF SessionOK
<1> QED
  BY <1>1, <1>3, <1>8, <1>10 DEF h

LEMMA FinishInvariant ==
  ASSUME IInv, NEW w \in Worker, Finish(w) \/ FinishUnknown(w)
  PROVE  IInv'
<1> DEFINE t == worker[w].turn
<1>2. /\ worker[w].pc = "finish" /\ t \in Turn
      /\ UNCHANGED <<drawn, request, quota, answered, calls>>
  BY DEF IInv, WorkersOK, Finish, FinishUnknown, provider
<1>3. /\ WorkersOK' /\ events' \subseteq events
      /\ worker'[w].pc \in {"idle", "fail"} /\ worker'[w].turn \in {NoTurn, t}
      /\ \A u \in Worker \ {w} : worker'[u] = worker[u]
  <2>1. Ends(w) \/ Fails(w)
    BY DEF Finish, FinishUnknown
  <2> QED
    BY <1>2, <2>1, EndsStep
<1>4. CountersOK'
  <2>1. Fault({}) \/ UNCHANGED broken
    BY DEF Finish, FinishUnknown
  <2>2. faults' \in 0 .. MaxFaults /\ lost' \subseteq Turn
    BY <1>2, <2>1, FaultTypes DEF IInv, CountersOK, broken
  <2> QED
    BY <1>2, <1>3, <2>2 DEF IInv, CountersOK
<1>5. CASE MayFinish(t) /\ session' = Answered(w)
  <2>1. /\ session'.status = "succeeded"
        /\ session'.turn = session.turn /\ session.turn = t
        /\ session'.count = session.count + 1 /\ session.count < MaxTurns
        /\ session'.draft = worker[w].draft
        /\ SessionOK'
    BY <1>2, <1>5, AnsweredFields
  <2>2. RequestsOK'
    BY <1>2 DEF IInv, RequestsOK
  <2>3. TokensDrawn'
    BY <1>2, <1>3, <2>1 DEF IInv, TokensDrawn, CountersOK, NoTurn
  <2>4. NewTurns'
    <3> SUFFICES ASSUME NEW r \in Request, request[r].pc = "update"
                 PROVE  Unseen(request[r].turn)'
      BY <1>2 DEF IInv, NewTurns
    <3>1. Unseen(request[r].turn) /\ request[r].turn \in Turn
      BY DEF IInv, NewTurns, RequestsOK
    <3>2. \A u \in Worker : worker'[u].turn # request[r].turn
      BY <1>3, <3>1 DEF Unseen, Turn, NoTurn
    <3> QED
      BY <1>2, <1>3, <2>1, <3>1, <3>2 DEF Unseen
  <2>5. RoomForAnswer' /\ HistoryFresh'
    BY <1>2, <2>1 DEF RoomForAnswer, HistoryFresh, ActiveStatuses
  <2>6. ClaimedOnce'
    <3>1. ~MayCall(w)' /\ \A u \in Worker \ {w} : MayCall(u)' <=> MayCall(u)
      BY <1>3 DEF MayCall
    <3> QED
      BY <1>2, <1>3, <2>1, <3>1 DEF IInv, ClaimedOnce
  <2>7. RunOnce' /\ PlanOfTurn'
    BY <1>2, <1>3, <2>1 DEF IInv, RunOnce, PlanOfTurn
  <2>8. QuotaHeld'
    <3>1. Paid' \subseteq Paid
      BY <1>3 DEF Paid
    <3> QED
      BY <1>2, <3>1, PaidShrinks, PaidFinite DEF IInv, QuotaHeld, CountersOK
  <2> QED
    BY <1>3, <1>4, <2>1, <2>2, <2>3, <2>4, <2>5, <2>6, <2>7, <2>8 DEF IInv
<1>6. CASE UNCHANGED session
  BY <1>2, <1>3, <1>4, <1>6, StopInvariant DEF SessionStays
<1> QED
  BY <1>5, <1>6 DEF Finish, FinishUnknown

LEMMA AgentPlanInvariant ==
  ASSUME IInv, AgentPlan
  PROVE  IInv'
<1>1. /\ quota' = quota + 1 /\ calls' = calls + 1
      /\ UNCHANGED <<drawn, session, events, request, worker, answered, lost, faults>>
  BY DEF AgentPlan, broken
<1>2. SessionOK' /\ RequestsOK' /\ WorkersOK'
  BY <1>1 DEF IInv, SessionOK, RequestsOK, WorkersOK
<1>3. CountersOK'
  BY <1>1, LimitAssumption DEF IInv, CountersOK, AgentPlan, WithinQuota
<1>4. TokensDrawn' /\ NewTurns' /\ RoomForAnswer' /\ HistoryFresh'
  BY <1>1 DEF IInv, TokensDrawn, NewTurns, Unseen, RoomForAnswer, HistoryFresh
<1>5. ClaimedOnce' /\ RunOnce' /\ PlanOfTurn'
  BY <1>1 DEF IInv, ClaimedOnce, MayCall, RunOnce, PlanOfTurn
<1>6. QuotaHeld'
  <2>1. Cardinality(Paid') = Cardinality(Paid)
    BY <1>1 DEF Paid
  <2> QED
    BY <1>1, <2>1, PaidFinite DEF IInv, QuotaHeld, CountersOK
<1> QED
  BY <1>2, <1>3, <1>4, <1>5, <1>6 DEF IInv

LEMMA StutterInvariant ==
  ASSUME IInv, UNCHANGED vars
  PROVE  IInv'
<1>1. SessionOK' /\ RequestsOK' /\ WorkersOK' /\ CountersOK'
  BY DEF IInv, SessionOK, RequestsOK, WorkersOK, CountersOK, vars, provider, broken
<1>2. TokensDrawn' /\ NewTurns' /\ RoomForAnswer' /\ HistoryFresh'
  BY DEF IInv, TokensDrawn, NewTurns, Unseen, RoomForAnswer, HistoryFresh, vars, provider
<1>3. ClaimedOnce' /\ RunOnce' /\ PlanOfTurn' /\ QuotaHeld'
  BY DEF IInv, ClaimedOnce, MayCall, RunOnce, PlanOfTurn, QuotaHeld, Paid, vars, provider
<1> QED
  BY <1>1, <1>2, <1>3 DEF IInv

LEMMA NextInvariant == IInv /\ [Next]_vars => IInv'
<1> SUFFICES ASSUME IInv, [Next]_vars PROVE IInv'
  OBVIOUS
<1>1. ASSUME NEW r \in Request,
             \/ Create(r) \/ MessageLook(r)
             \/ RequestStep(r) \/ EnqueueFails(r) \/ RequestStops(r)
      PROVE  IInv'
  BY <1>1, CreateInvariant, MessageLookInvariant, RequestStepInvariant
<1>2. ASSUME NEW w \in Worker,
             \/ \E t \in Turn : Deliver(w, t)
             \/ WorkerStep(w) \/ ClaimFails(w) \/ FinishUnknown(w) \/ WorkerDies(w)
      PROVE  IInv'
  BY <1>2, DeliverInvariant, ClaimInvariant, PrepareInvariant, CallInvariant,
     FinishInvariant, WorkerEndsInvariant DEF WorkerStep
<1>3. CASE AgentPlan
  BY <1>3, AgentPlanInvariant
<1>4. CASE UNCHANGED vars
  BY <1>4, StutterInvariant
<1> QED
  BY <1>1, <1>2, <1>3, <1>4 DEF Next, Read

\* The inductive invariant
THEOREM Invariant == Spec => []IInv
BY InitInvariant, NextInvariant, PTL DEF Spec

-----------------------------------------------------------------------------
(* What is promised *)

\* Every variable has its type; the length of the history and turn_count agree and
\* stay within AGENT_SESSION_MAX_TURNS, though it is checked only when a message comes.
THEOREM TypeCorrect == Spec => []TypeOK
<1>1. IInv => TypeOK
  BY TypesSplit DEF IInv
<1> QED
  BY Invariant, <1>1, PTL

\* A turn is run at most once, however often Lambda delivers its event.
THEOREM TurnRunOnce == Spec => []RunOnce
<1>1. IInv => RunOnce
  BY DEF IInv
<1> QED
  BY Invariant, <1>1, PTL

\* What the user may confirm is the plan of the turn that was accepted last.
THEOREM PlanIsLatest == Spec => []ConfirmableIsLatest
<1>1. IInv => ConfirmableIsLatest
  BY DEF IInv, ConfirmableIsLatest, RequiresConfirmation, PlanOfTurn
<1> QED
  BY Invariant, <1>1, PTL

\* The daily limit bounds the turns and plans the provider is asked for.
THEOREM QuotaBinds == Spec => []QuotaCoversCalls
<1>1. IInv => QuotaCoversCalls
  BY PaidFinite, LimitAssumption DEF IInv, QuotaHeld, QuotaCoversCalls, CountersOK
<1> QED
  BY Invariant, <1>1, PTL

\* A turn under way is not displaced, and an answer only appends the turn that was
\* accepted last to the history as it is.
THEOREM HistoryInOrder == Spec => TurnsInOrder
<1> DEFINE Ok == /\ session.turn' # session.turn => session.status \notin ActiveStatuses
                 /\ session.history' # session.history =>
                      session.history' = Append(session.history, session.turn)
<1>1. ASSUME IInv, [Next]_vars
      PROVE  Ok
  <2>1. CASE UNCHANGED session
    BY <2>1
  <2>2. ASSUME NEW t \in Turn, session' = Failed(t)
        PROVE  Ok
    BY <1>1, <2>2 DEF Failed, IInv, SessionOK, Session
  <2>3. ASSUME NEW r \in Request, Create(r)
        PROVE  Ok
    BY <1>1, <2>3 DEF Create, IInv, SessionOK, Session, ActiveStatuses
  <2>4. ASSUME NEW r \in Request, MessageUpdate(r)
        PROVE  Ok
    BY <1>1, <2>4 DEF MessageUpdate, MayQueue, Queued, IInv, SessionOK, Session,
                      ActiveStatuses
  <2>5. ASSUME NEW r \in Request, RequestFails(r)
        PROVE  Ok
    BY <1>1, <2>2, <2>5 DEF RequestFails, IInv, RequestsOK
  <2>6. ASSUME NEW w \in Worker, Claim(w)
        PROVE  Ok
    BY <1>1, <2>6 DEF Claim, IInv, SessionOK, Session
  <2>7. ASSUME NEW w \in Worker, Finish(w) \/ FinishUnknown(w)
        PROVE  Ok
    <3>1. CASE UNCHANGED session
      BY <3>1
    <3>2. CASE /\ worker[w].pc = "finish" /\ MayFinish(worker[w].turn)
               /\ session' = Answered(w)
      BY <1>1, <3>2, AnsweredFields
    <3> QED
      BY <2>7, <3>1, <3>2 DEF Finish, FinishUnknown
  <2>8. ASSUME NEW w \in Worker, WorkerFails(w)
        PROVE  Ok
    BY <1>1, <2>2, <2>8 DEF WorkerFails, IInv, WorkersOK
  <2>9. ASSUME NEW r \in Request,
               MessageLook(r) \/ Enqueue(r) \/ EnqueueFails(r) \/ RequestStops(r)
        PROVE  UNCHANGED session
    BY <2>9 DEF MessageLook, Enqueue, EnqueueFails, RequestStops
  <2>10. ASSUME NEW w \in Worker,
                \/ \E t \in Turn : Deliver(w, t)
                \/ Prepare(w) \/ Call(w) \/ ClaimFails(w) \/ WorkerDies(w)
         PROVE  UNCHANGED session
    BY <2>10 DEF Deliver, Prepare, Call, ClaimFails, WorkerDies
  <2>11. CASE AgentPlan \/ Read \/ UNCHANGED vars
    BY <2>11 DEF AgentPlan, Read, vars
  <2> QED
    BY <1>1, <2>1, <2>3, <2>4, <2>5, <2>6, <2>7, <2>8, <2>9, <2>10, <2>11
       DEF Next, RequestStep, WorkerStep
<1> QED
  BY Invariant, <1>1, PTL DEF Spec, TurnsInOrder
=============================================================================
