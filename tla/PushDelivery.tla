------------------------------ MODULE PushDelivery ------------------------------
(***************************************************************************)
(* Push notifications: a write is broadcast to the queue in Valkey of each *)
(* active session, and one subscriber task per session pops the queue and  *)
(* sends to the client (services/push_broadcast.py, push_subscriber.py,    *)
(* valkey_client.py, tools/_push_helpers.py, tools/register_session.py).   *)
(*                                                                         *)
(* Each action is what happens between two awaits: one command (or one     *)
(* MULTI) of Valkey, or one send. Valkey outlives the server process.      *)
(***************************************************************************)
EXTENDS Naturals, Sequences, FiniteSets, Valkey

CONSTANTS
    Conn,          \* MCP sessions of clients, open at first and closed once
    Session,       \* session ids, numbered in the order in which they are minted
    Message,       \* writes, numbered in the order in which their broadcasts start
    MaxAttempts,   \* MAX_DELIVERY_ATTEMPTS
    Faults         \* what may go wrong or be done twice in this instance

ASSUME PushAssumption ==
    /\ Session \subseteq Nat /\ Message \subseteq Nat
    /\ MaxAttempts \in Nat \ {0}
    /\ None \notin Conn \cup Session
    /\ Faults \subseteq {"crash", "outage", "reregister", "unbind"}

VARIABLES
    active,     \* Valkey: the set of active sessions
    queue,      \* Valkey: the broadcast queue of each session, oldest first
    conn,       \* each connection: its state, bound session id and cleanup hook
    wiring,     \* each connection: a session that is registered and not yet wired
    closing,    \* each connection: a session that its cleanup has still to deregister
    sub,        \* the subscriber task of each session
    cast,       \* the broadcast of each write
    sent,       \* history: what each subscriber handed to its client, in order
    pushed,     \* history: what broadcasts put in each queue, in order
    dropped,    \* history: what each session was denied, for a reason of the code
    minted      \* history: the ids that registrations have had

pushVars == <<active, queue, conn, wiring, closing, sub, cast, sent, pushed, dropped, minted>>
valkey == <<active, queue>>
history == <<sent, pushed, dropped, minted>>

Envelope == [msg : Message, attempt : 0 .. MaxAttempts - 1]
Connection == [state : {"open", "closed"},
               sid : Session \cup {None}, cleanup : Session \cup {None}]
NoTask == [state |-> "none", conn |-> None]
Task == {NoTask}
        \cup [state : {"popping"}, conn : Conn]
        \cup [state : {"sending"}, conn : Conn, env : Envelope]
NoCast == [stage |-> "none"]
Done == [stage |-> "done"]
Cast == {NoCast, Done}
        \cup [stage : {"embedding"}, writer : Session \cup {None}]
        \cup [stage : {"pushing"}, targets : SUBSET Session]

PushInit ==
    /\ active = {}
    /\ queue = [s \in Session |-> <<>>]
    /\ conn = [c \in Conn |-> [state |-> "open", sid |-> None, cleanup |-> None]]
    /\ wiring = [c \in Conn |-> None]
    /\ closing = [c \in Conn |-> None]
    /\ sub = [s \in Session |-> NoTask]
    /\ cast = [m \in Message |-> NoCast]
    /\ sent = [s \in Session |-> <<>>]
    /\ pushed = [s \in Session |-> <<>>]
    /\ dropped = [s \in Session |-> {}]
    /\ minted = {}

Open(c) == conn[c].state = "open"
Running(s) == sub[s].state # "none"
Queued(s) == {queue[s][i].msg : i \in DOMAIN queue[s]}

First(S) == {x \in S : \A y \in S : x <= y}
\* uuid4() of register_session: an id that no registration has had.
NewSession == First(Session \ minted)
NewMessage == First({m \in Message : cast[m] = NoCast})

-----------------------------------------------------------------------------
(* Registration and disconnection of a client *)

MayRegister(c) ==
    /\ Open(c) /\ wiring[c] = None
    /\ conn[c].sid = None \/ "reregister" \in Faults

\* The session is bound to the connection and added to the active set.
Register(c) ==
    /\ MayRegister(c)
    /\ \E s \in NewSession :
        /\ conn' = [conn EXCEPT ![c].sid = s]
        /\ active' = active \cup {s}
        /\ wiring' = [wiring EXCEPT ![c] = s]
        /\ minted' = minted \cup {s}
    /\ UNCHANGED <<queue, closing, sub, cast, sent, pushed, dropped>>

\* Valkey is away: the session is bound, and never wired into the pipeline.
RegisterOffline(c) ==
    /\ "outage" \in Faults
    /\ MayRegister(c)
    /\ \E s \in NewSession :
        /\ conn' = [conn EXCEPT ![c].sid = s]
        /\ minted' = minted \cup {s}
    /\ UNCHANGED <<valkey, wiring, closing, sub, cast, sent, pushed, dropped>>

\* The cleanup hook is registered once per connection, for the first session.
Hooked(c, s) == IF conn[c].cleanup = None THEN s ELSE conn[c].cleanup

Wire(c) ==
    LET s == wiring[c] IN
    /\ s # None
    /\ sub' = [sub EXCEPT ![s] = [state |-> "popping", conn |-> c]]
    /\ conn' = [conn EXCEPT ![c].cleanup = Hooked(c, s)]
    /\ wiring' = [wiring EXCEPT ![c] = None]
    /\ UNCHANGED <<valkey, closing, cast, history>>

\* Cancelling a task loses the notification that it had popped and not sent.
InFlight(s) == IF sub[s].state = "sending" THEN {sub[s].env.msg} ELSE {}

\* The exit stack of the connection unwinds: the hook cancels the subscriber, then
\* deregisters. A registration that was under way ends before it has a hook.
Disconnect(c) ==
    LET s == conn[c].cleanup IN
    /\ Open(c)
    /\ conn' = [conn EXCEPT ![c].state = "closed", ![c].sid = None]
    /\ closing' = [closing EXCEPT ![c] = s]
    /\ wiring' = [wiring EXCEPT ![c] = None]
    /\ IF s = None
       THEN UNCHANGED <<sub, dropped>>
       ELSE /\ sub' = [sub EXCEPT ![s] = NoTask]
            /\ dropped' = [dropped EXCEPT ![s] = @ \cup InFlight(s)]
    /\ UNCHANGED <<valkey, cast, sent, pushed, minted>>

\* SREM and DEL in one MULTI: the queue goes with the session.
Deregister(c) ==
    LET s == closing[c] IN
    /\ s # None
    /\ active' = active \ {s}
    /\ queue' = [queue EXCEPT ![s] = <<>>]
    /\ dropped' = [dropped EXCEPT ![s] = @ \cup Queued(s)]
    /\ closing' = [closing EXCEPT ![c] = None]
    /\ UNCHANGED <<conn, wiring, sub, cast, sent, pushed, minted>>

FailDeregister(c) ==
    /\ "outage" \in Faults
    /\ closing[c] # None
    /\ closing' = [closing EXCEPT ![c] = None]
    /\ UNCHANGED <<valkey, conn, wiring, sub, cast, history>>

-----------------------------------------------------------------------------
(* Broadcast of a write *)

\* The id that a broadcast excludes: the session bound to the connection of the
\* writer, or the user, which is no session, when the binding has expired.
WriterIds(c) == {conn[c].sid} \cup (IF "unbind" \in Faults THEN {None} ELSE {})

\* The fast path: nothing is embedded when there is nobody else to tell.
StartBroadcast(c, m) ==
    /\ Open(c) /\ wiring[c] = None
    /\ m \in NewMessage
    /\ \E w \in WriterIds(c) :
        cast' = [cast EXCEPT ![m] =
                    IF active \ {w} = {} THEN Done
                    ELSE [stage |-> "embedding", writer |-> w]]
    /\ UNCHANGED <<valkey, conn, wiring, closing, sub, history>>

PushingTo(targets) ==
    IF targets = {} THEN Done ELSE [stage |-> "pushing", targets |-> targets]

\* The set of sessions is read again after the embedding.
Enumerate(m) ==
    /\ cast[m].stage = "embedding"
    /\ cast' = [cast EXCEPT ![m] =
                    PushingTo(active \ {cast[m].writer})]
    /\ UNCHANGED <<valkey, conn, wiring, closing, sub, history>>

\* Valkey is away when the sessions are read: nobody is told of the write.
FailBroadcast(m) ==
    /\ "outage" \in Faults
    /\ cast[m].stage = "embedding"
    /\ cast' = [cast EXCEPT ![m] = Done]
    /\ UNCHANGED <<valkey, conn, wiring, closing, sub, history>>

WithTarget(m, s) == cast
WithoutTarget(m, s) == [cast EXCEPT ![m] = PushingTo(@.targets \ {s})]

EnqueuedFirst(q, env) == <<env>> \o q
Enqueued(q, env) == Append(q, env)

\* LPUSH at the end that is popped last.
PushTo(m, s) ==
    /\ cast[m].stage = "pushing" /\ s \in cast[m].targets
    /\ queue' = [queue EXCEPT ![s] = Enqueued(@, [msg |-> m, attempt |-> 0])]
    /\ pushed' = [pushed EXCEPT ![s] = Append(@, m)]
    /\ cast' = WithoutTarget(m, s)
    /\ UNCHANGED <<active, conn, wiring, closing, sub, sent, dropped, minted>>

\* The focus of the session is far from the memory, or Valkey refuses the push.
SkipTarget(m, s) ==
    /\ cast[m].stage = "pushing" /\ s \in cast[m].targets
    /\ cast' = WithoutTarget(m, s)
    /\ UNCHANGED <<valkey, conn, wiring, closing, sub, history>>

-----------------------------------------------------------------------------
(* Delivery to a client *)

Pop(s) ==
    /\ sub[s].state = "popping" /\ queue[s] # <<>>
    /\ sub' = [sub EXCEPT ![s] = [state |-> "sending", conn |-> @.conn, env |-> Head(queue[s])]]
    /\ queue' = [queue EXCEPT ![s] = Tail(@)]
    /\ UNCHANGED <<active, conn, wiring, closing, cast, history>>

Popping(s) == [state |-> "popping", conn |-> sub[s].conn]

Send(s) ==
    /\ sub[s].state = "sending" /\ Open(sub[s].conn)
    /\ sent' = [sent EXCEPT ![s] = Append(@, sub[s].env)]
    /\ sub' = [sub EXCEPT ![s] = Popping(s)]
    /\ UNCHANGED <<valkey, conn, wiring, closing, cast, pushed, dropped, minted>>

LastAttempt(env) == env.attempt >= MaxAttempts - 1
AgainUncounted(env) == env
Again(env) == [env EXCEPT !.attempt = @ + 1]

RetryForgotten(s) ==
    /\ sub[s].state = "sending" /\ ~LastAttempt(sub[s].env)
    /\ sub' = [sub EXCEPT ![s] = Popping(s)]
    /\ UNCHANGED <<valkey, conn, wiring, closing, cast, history>>

\* The notification goes back into the queue, behind what came after it.
Retry(s) ==
    /\ sub[s].state = "sending" /\ ~LastAttempt(sub[s].env)
    /\ queue' = [queue EXCEPT ![s] = Enqueued(@, Again(sub[s].env))]
    /\ sub' = [sub EXCEPT ![s] = Popping(s)]
    /\ UNCHANGED <<active, conn, wiring, closing, cast, history>>

\* It is given up after the last attempt, or when Valkey refuses to take it back.
Discard(s) ==
    /\ sub[s].state = "sending"
    /\ LastAttempt(sub[s].env) \/ "outage" \in Faults
    /\ dropped' = [dropped EXCEPT ![s] = @ \cup InFlight(s)]
    /\ sub' = [sub EXCEPT ![s] = Popping(s)]
    /\ UNCHANGED <<valkey, conn, wiring, closing, cast, sent, pushed, minted>>

SubscriberStep(s) == Pop(s) \/ Send(s) \/ Retry(s) \/ Discard(s)

\* Every push sets the queue's time to live, which passes while nobody pops.
Expirable(s) == queue[s] # <<>> /\ sub[s].state # "popping"

ExpireQueue(s) ==
    /\ Expirable(s)
    /\ queue' = [queue EXCEPT ![s] = <<>>]
    /\ dropped' = [dropped EXCEPT ![s] = @ \cup Queued(s)]
    /\ UNCHANGED <<active, conn, wiring, closing, sub, cast, sent, pushed, minted>>

-----------------------------------------------------------------------------
\* The server process dies: what is in Valkey stays, and nothing cleans it up.
Crash ==
    /\ "crash" \in Faults
    /\ \E c \in Conn : Open(c)
    /\ conn' = [c \in Conn |-> IF Open(c) THEN [conn[c] EXCEPT !.state = "closed", !.sid = None]
                               ELSE conn[c]]
    /\ wiring' = [c \in Conn |-> None]
    /\ closing' = [c \in Conn |-> None]
    /\ sub' = [s \in Session |-> NoTask]
    /\ cast' = [m \in Message |-> IF cast[m] = NoCast THEN NoCast ELSE Done]
    /\ dropped' = [s \in Session |-> dropped[s] \cup InFlight(s)]
    /\ UNCHANGED <<valkey, sent, pushed, minted>>

PushNext ==
    \/ \E c \in Conn : \/ Register(c) \/ RegisterOffline(c) \/ Wire(c)
                       \/ Disconnect(c) \/ Deregister(c) \/ FailDeregister(c)
    \/ \E c \in Conn, m \in Message : StartBroadcast(c, m)
    \/ \E m \in Message : Enumerate(m) \/ FailBroadcast(m)
    \/ \E m \in Message, s \in Session : PushTo(m, s) \/ SkipTarget(m, s)
    \/ \E s \in Session : SubscriberStep(s) \/ ExpireQueue(s)
    \/ Crash

PushSpec == PushInit /\ [][PushNext]_pushVars

\* The loop of a subscriber goes on, and time passes. Nobody else need do anything.
Fairness == \A s \in Session : WF_pushVars(SubscriberStep(s)) /\ WF_pushVars(ExpireQueue(s))

FairSpec == PushSpec /\ Fairness

-----------------------------------------------------------------------------
(* Properties *)

PushTypeOK ==
    /\ active \subseteq Session
    /\ queue \in [Session -> Seq(Envelope)]
    /\ conn \in [Conn -> Connection]
    /\ wiring \in [Conn -> Session \cup {None}]
    /\ closing \in [Conn -> Session \cup {None}]
    /\ sub \in [Session -> Task]
    /\ cast \in [Message -> Cast]
    /\ sent \in [Session -> Seq(Envelope)]
    /\ pushed \in [Session -> Seq(Message)]
    /\ dropped \in [Session -> SUBSET Message]
    /\ minted \subseteq Session

SentTo(s) == {sent[s][i].msg : i \in DOMAIN sent[s]}
PushedTo(s) == {pushed[s][i] : i \in DOMAIN pushed[s]}

\* However sends fail and are retried, a client is sent a notification at most once
\* per session (MAX_DELIVERY_ATTEMPTS counts failures).
AtMostOnce ==
    \A s \in Session : \A i, j \in DOMAIN sent[s] :
        sent[s][i].msg = sent[s][j].msg => i = j

\* Notifications that were sent at the first attempt arrive in the order in which
\* they were broadcast to the session; a retried one may be overtaken.
FirstAttemptsInOrder ==
    \A s \in Session : \A j \in DOMAIN sent[s] : \A i \in 1 .. j - 1 :
        sent[s][i].attempt = 0 /\ sent[s][j].attempt = 0 =>
            \E a, b \in DOMAIN pushed[s] :
                a < b /\ pushed[s][a] = sent[s][i].msg /\ pushed[s][b] = sent[s][j].msg

\* A notification that was pushed is in the queue, in the hands of the subscriber,
\* sent, or was dropped at one of the places where the code may drop it.
NothingVanishes ==
    \A s \in Session : PushedTo(s) \subseteq Queued(s) \cup InFlight(s) \cup SentTo(s) \cup dropped[s]

\* Every notification that was pushed is sent or dropped in the end: no retry goes on
\* for ever, and no queue keeps a notification that nobody will pop.
EveryPushIsSettled ==
    \A s \in Session, m \in Message :
        m \in PushedTo(s) ~> m \in SentTo(s) \cup dropped[s]
=============================================================================
