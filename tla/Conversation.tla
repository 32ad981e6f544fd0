----------------------------- MODULE Conversation -----------------------------
(***************************************************************************)
(* Conversations under their row locks: agents change a conversation from  *)
(* the page they have open, workers record inbound messages, wake snoozed  *)
(* conversations and record outcomes, a synchronisation rewrites the       *)
(* phone.  Sources: conversation(), event() and the commands of            *)
(* inbox/service.go and operations.go, materializeMessage and              *)
(* materializeStatus of materialize.go, the three transactions of          *)
(* worker.go, persistSnapshot of meta/sync.go and the keys of              *)
(* 00004_guarded_inbox.sql.                                                *)
(*                                                                         *)
(* A lock is one step, so statements of several transactions interleave;   *)
(* what a transaction writes is seen when it commits.  A lock released     *)
(* goes to those who waited for it; the database breaks a ring of waits by *)
(* aborting one of it.  A row that an insert refers to is locked, too:     *)
(* left out are the rows that nobody locks FOR UPDATE in turn.  XMutant    *)
(* before X is a plausible bug in X that the run must detect.              *)
(***************************************************************************)
EXTENDS Naturals, Sequences, FiniteSets

CONSTANTS
    None,
    Agents, Workers, Syncer,
    Conversations,
    Teams,
    Reach,         \* the teams whose conversations an agent may see and change;
                   \* None among them for one of the whole organization
    Desk,          \* the conversation an agent has open
    Author,        \* of the one note
    NoteOf,        \* the conversation of the note,
    IntentOf,      \* and that of the one intent in dispatch
    Patches,       \* the changes of status and handoff that agents ask for
    Messages, NumEvents,
    ItemsOf,       \* the inbound messages and the statuses an event carries, in payload
                   \* order
    Scenes,        \* who takes part, which conversations are snoozed then, what each worker
                   \* still has to end of a dispatch, and the faults that count as had
    MaxNow, MaxRequests, MaxFaults    \* bounds

Procs  == Agents \cup Workers \cup {Syncer}
Events == 1..NumEvents
Status   == {"OPEN", "RESOLVED", "SNOOZED"}
Handoff  == {"WAITING_AGENT", "HUMAN"}
Patch    == [status : Status \cup {""}, handoff : Handoff \cup {""}]
\* basis is 0 for a message that is not TEXT or whose time is not trusted; message is
\* its provider id, or the fact that a status states of the message sent to conv.
Item     == [kind : {"message", "status"}, message : Messages, conv : Conversations, basis : Nat]

ASSUME ConversationAssumption ==
    /\ Reach \in [Agents -> SUBSET (Teams \cup {None})]
    /\ Desk \in [Agents -> Conversations]
    /\ Author \in Agents /\ NoteOf \in Conversations /\ IntentOf \in Conversations
    /\ Patches \subseteq Patch
    /\ NumEvents \in Nat /\ ItemsOf \in [Events -> Seq(Item)]
    \* A status that an event repeats changes nothing.
    /\ \A e \in Events : \A m, n \in DOMAIN ItemsOf[e] :
          /\ ItemsOf[e][m].kind = "status" /\ ItemsOf[e][n].kind = "status"
          /\ ItemsOf[e][m].message = ItemsOf[e][n].message
          => m = n
    /\ Scenes \subseteq [cast : SUBSET Procs, asleep : SUBSET Conversations,
                         duty : [Workers -> {"none", "finish", "authorize"}],
                         faults : 0..MaxFaults]
    /\ \A scene \in Scenes : \A w \in Workers :
           /\ scene.duty[w] # "none" => w \in scene.cast
           /\ \A v \in Workers : scene.duty[v] = "finish" /\ scene.duty[w] = "finish" => v = w
    /\ MaxNow \in Nat /\ MaxRequests \in Nat /\ MaxFaults \in Nat
    /\ Agents \cap Workers = {} /\ Syncer \notin Agents \cup Workers

VARIABLES
    conv,      \* conversations, each with its inbound messages
    draft,     \* a conversation as the holder of its lock has rewritten it
    note,      \* internal_notes, the one note
    intent,    \* outbound_intents, the one intent
    done,      \* inbox_materializations
    doing,     \* what transaction a process has open
    todo,      \* the locks it still needs for the statements decided on
    held,      \* the locks it has
    woken,     \* those whose wait has just ended
    seen,      \* the page an agent's request was made from
    event, pos,  \* the event a worker materializes, and how far it is
    since,     \* now() of a worker's transaction
    duty,      \* the end of a dispatch that a worker still has in memory
    requests,  \* how many an agent has made, and synchronisations run
    now, cast, faults

dataVars == <<conv, note, intent, done>>
lockVars == <<doing, todo, held, woken>>
workVars == <<event, pos, since, duty>>
vars == <<dataVars, draft, lockVars, seen, workVars, requests, now, cast, faults>>

Row(c)     == <<"conversation", c>>
Contact(c) == <<"recipient", c>>
Phone  == <<"phone", None>>
Waba   == <<"waba", None>>
Note   == <<"note", None>>
Intent == <<"intent", None>>
Sent(c)    == <<"sent", c>>        \* the outbound message of the conversation
Fact(m)    == <<"fact", m>>        \* a status that is inserted and not committed
Rows   == {Row(c) : c \in Conversations} \cup {Contact(c) : c \in Conversations}
          \cup {Sent(c) : c \in Conversations} \cup {Fact(m) : m \in Messages}
          \cup {Phone, Waba, Note, Intent}

\* The four modes of a row lock: that of a row which a new one refers to, FOR SHARE,
\* that of an UPDATE which touches no unique key, and FOR UPDATE.
Lock   == [row : Rows, mode : {"key share", "share", "update", "exclusive"}]
KeyShare(r)  == [row |-> r, mode |-> "key share"]
Share(r)     == [row |-> r, mode |-> "share"]
Update(r)    == [row |-> r, mode |-> "update"]
Exclusive(r) == [row |-> r, mode |-> "exclusive"]

Thread == [status : Status, until : Nat, handoff : Handoff, epoch : Nat,
           team : Teams \cup {None}, assignment : Nat, revision : Nat, sequence : Nat,
           log : SUBSET [message : Messages, sequence : Nat, basis : Nat],
           window : Nat, eligible : Messages \cup {None}]
NoteRow == [body : {"written", "edited", ""}, revision : Nat, redacted : {"no", "yes"}]
Asked  == {"patch", "assign", "edit", "redact"}
Doing  == Asked \cup {"idle", "materialize", "settle", "wake", "authorize", "finish", "sync"}
NewThread(t) == [status |-> "OPEN", until |-> 0, handoff |-> "WAITING_AGENT", epoch |-> 1,
                 team |-> t, assignment |-> 1, revision |-> 1, sequence |-> 0, log |-> {},
                 window |-> 0, eligible |-> None]
Snoozed(t) == [NewThread(t) EXCEPT !.status = "SNOOZED", !.until = 1, !.revision = 2]
NewNote == [body |-> "written", revision |-> 1, redacted |-> "no"]
NoPage  == [row |-> NewThread(None), note |-> NewNote]

\* At most one worker has the outcome of the intent; others may still hold a
\* claim to it that they lost.
Init ==
    /\ \E t \in Teams, scene \in Scenes :
          /\ conv = [c \in Conversations |-> IF c \in scene.asleep THEN Snoozed(t) ELSE NewThread(t)]
          /\ cast = scene.cast /\ duty = scene.duty /\ faults = scene.faults
    /\ draft = conv
    /\ note = NewNote /\ intent = "DISPATCHING" /\ done = {}
    /\ doing = [p \in Procs |-> "idle"]
    /\ todo = [p \in Procs |-> <<>>]
    /\ held = [p \in Procs |-> {}]
    /\ woken = {}
    /\ seen = [a \in Agents |-> NoPage]
    /\ event = [w \in Workers |-> 0] /\ pos = [w \in Workers |-> 0]
    /\ since = [w \in Workers |-> 0]
    /\ requests = [p \in Agents \cup {Syncer} |-> 0]
    /\ now = 0

------------------------------------------------------------------------------
(* Locks *)

Conflict(k, l) ==
    /\ k.row = l.row
    /\ \/ "exclusive" \in {k.mode, l.mode}
       \/ "update" \in {k.mode, l.mode} /\ "key share" \notin {k.mode, l.mode}

\* Whom the next lock of p has to wait for.
Blockers(p) ==
    IF todo[p] = <<>> THEN {}
    ELSE {q \in Procs \ {p} : \E k \in held[q] : Conflict(k, Head(todo[p]))}

MyTurn(p) ==
    p \in woken \/ \A q \in woken : \/ todo[q] = <<>> \/ Blockers(q) # {}
                                     \/ ~Conflict(Head(todo[q]), Head(todo[p]))

Acquire(p) ==
    /\ todo[p] # <<>>
    /\ Blockers(p) = {} /\ MyTurn(p)
    /\ held' = [held EXCEPT ![p] = @ \cup {Head(todo[p])}]
    /\ todo' = [todo EXCEPT ![p] = Tail(@)]
    /\ woken' = woken \ {p}
    /\ UNCHANGED <<dataVars, draft, doing, seen, workVars>>

Start(p, what, locks) ==
    /\ p \in cast /\ doing[p] = "idle"
    /\ doing' = [doing EXCEPT ![p] = what]
    /\ todo' = [todo EXCEPT ![p] = locks]
    /\ UNCHANGED <<held, woken>>

Ready(p, what) == doing[p] = what /\ todo[p] = <<>>

Needs(p, locks) ==
    /\ todo' = [todo EXCEPT ![p] = locks]
    /\ UNCHANGED <<doing, held, woken>>

Mine(p, c) == held[p] \cap {Update(Row(c)), Exclusive(Row(c))} # {}

\* event() inserts a row of inbox_events, which refers to the conversation's.
Event(p, c) == IF Mine(p, c) THEN <<>> ELSE <<KeyShare(Row(c))>>

End(p) ==
    /\ doing' = [doing EXCEPT ![p] = "idle"]
    /\ todo' = [todo EXCEPT ![p] = <<>>]
    /\ held' = [held EXCEPT ![p] = {}]
    /\ woken' = (woken \cup {q \in Procs : p \in Blockers(q)}) \ {p}

\* The rows p has locked are committed as d has them.
Commit(p, d) ==
    /\ conv' = [c \in Conversations |-> IF Mine(p, c) THEN d[c] ELSE conv[c]]
    /\ draft' = d
    /\ End(p)

Rollback(p) ==
    /\ draft' = [c \in Conversations |-> IF Mine(p, c) THEN conv[c] ELSE draft[c]]
    /\ End(p)
    /\ UNCHANGED dataVars

------------------------------------------------------------------------------
(* Agents *)

\* inbox_permission over the conversation's assignment; every statement that
\* reads a conversation for an agent has it in its WHERE clause.
InReach(a) == conv[Desk[a]].team \in Reach[a]

\* The anchors of the sender before the conversation.
AnchoredMutant(c) == <<Exclusive(Row(c)), Share(Contact(c)), Share(Phone), Share(Waba)>>
Anchored(c) == <<Share(Contact(c)), Share(Phone), Share(Waba), Exclusive(Row(c))>>

\* GET of the conversation and, later, a request made from that page.  While it
\* has no lock the request may as well not have been sent yet.
Ask(a, what) ==
    /\ requests[a] < MaxRequests
    /\ InReach(a)
    /\ what \in {"edit", "redact"} => Desk[a] = NoteOf
    /\ Start(a, what, Anchored(Desk[a]))
    /\ seen' = [seen EXCEPT ![a] = [row |-> conv[Desk[a]], note |-> note]]
    /\ requests' = [requests EXCEPT ![a] = @ + 1]
    /\ UNCHANGED <<dataVars, draft, workVars, now, faults>>

Close(a) == seen' = [seen EXCEPT ![a] = NoPage]

\* The anchors are looked up through the conversation: out of reach there is
\* nothing to lock.
NotFound(a) ==
    /\ doing[a] \in Asked /\ held[a] = {} /\ ~InReach(a)
    /\ Rollback(a)
    /\ Close(a) /\ UNCHANGED workVars

\* PATCH, with what x asks for; snoozes run to the next tick.
Patched(r, x) ==
    [r EXCEPT !.status   = IF x.status = "" THEN @ ELSE x.status,
              !.until    = IF x.status = "" THEN @ ELSE IF x.status = "SNOOZED" THEN now + 1 ELSE 0,
              !.epoch    = IF x.handoff \in {"", r.handoff} THEN @ ELSE @ + 1,
              !.handoff  = IF x.handoff = "" THEN @ ELSE x.handoff,
              !.revision = @ + 1]

Assigned(r, t) ==
    [r EXCEPT !.team = t, !.assignment = @ + 1, !.revision = @ + 1]

\* To a team the agent may assign to, or to none.
Results(a, r) ==
    IF doing[a] = "patch" THEN {Patched(r, x) : x \in Patches}
                          ELSE {Assigned(r, t) : t \in Reach[a] \cup {None}}

Current(a) ==
    LET r == draft[Desk[a]] IN
    CASE doing[a] = "patch"  -> seen[a].row.revision = r.revision
      [] doing[a] = "assign" -> seen[a].row.assignment = r.assignment
      [] OTHER -> FALSE

\* The last statement of PATCH and assignment, or the refusal of the request.
Change(a) ==
    LET c == Desk[a]
        r == draft[c] IN
    /\ doing[a] \in {"patch", "assign"} /\ todo[a] = <<>> /\ Mine(a, c)
    /\ \/ /\ InReach(a) /\ Current(a)
          /\ \E changed \in Results(a, r) : Commit(a, [draft EXCEPT ![c] = changed])
          /\ UNCHANGED <<note, intent, done>>
       \/ /\ ~(InReach(a) /\ Current(a))
          /\ Rollback(a)
    /\ Close(a) /\ UNCHANGED workVars

\* noteChange reads the note again, now locked, before it compares.
LockNote(a) ==
    /\ doing[a] \in {"edit", "redact"} /\ todo[a] = <<>> /\ Mine(a, Desk[a])
    /\ Exclusive(Note) \notin held[a]
    /\ \/ InReach(a) /\ Needs(a, <<Exclusive(Note)>>) /\ UNCHANGED <<dataVars, draft, seen>>
       \/ ~InReach(a) /\ Rollback(a) /\ Close(a)
    /\ UNCHANGED workVars

Editable(a) ==
    /\ seen[a].note.revision = note.revision /\ note.redacted = "no"
    /\ doing[a] = "edit" => a = Author

ChangeNote(a) ==
    /\ doing[a] \in {"edit", "redact"} /\ todo[a] = <<>>
    /\ Exclusive(Note) \in held[a]
    /\ \/ /\ Editable(a)
          /\ note' = [body |-> IF doing[a] = "edit" THEN "edited" ELSE "",
                      revision |-> note.revision + 1,
                      redacted |-> IF doing[a] = "edit" THEN "no" ELSE "yes"]
          /\ Commit(a, draft)
          /\ UNCHANGED <<intent, done>>
       \/ ~Editable(a) /\ Rollback(a)
    /\ Close(a) /\ UNCHANGED workVars

Request(a) == NotFound(a) \/ Change(a) \/ LockNote(a) \/ ChangeNote(a)

------------------------------------------------------------------------------
(* Inbound messages and statuses *)

\* FOR UPDATE SKIP LOCKED in the order of received_at.  (A claim on a snapshot that has
\* become stale is in Delivery: here it would find every message known.)
Claimable == {e \in Events \ done : \A w \in Workers : event[w] # e}

Materialize(w) ==
    /\ Start(w, "materialize", <<>>)
    /\ \E e \in Claimable : /\ \A d \in Claimable : e <= d
                            /\ event' = [event EXCEPT ![w] = e]
    /\ pos' = [pos EXCEPT ![w] = 1]
    /\ UNCHANGED <<dataVars, draft, seen, since, duty, requests, now, faults>>

Items(w)   == ItemsOf[event[w]]
NextItem(w) == Items(w)[pos[w]]

Advance(w) == pos' = [pos EXCEPT ![w] = @ + 1]

AtItem(w, kind) == /\ Ready(w, "materialize") /\ pos[w] <= Len(Items(w))
                   /\ NextItem(w).kind = kind

\* The upserts of recipient and conversation lock both; the latter sets a column of a
\* unique key.
LockThread(w) ==
    LET c == NextItem(w).conv IN
    /\ AtItem(w, "message") /\ ~Mine(w, c)
    /\ Needs(w, <<Update(Contact(c)), Exclusive(Row(c))>>)
    /\ UNCHANGED <<dataVars, draft, seen, workVars>>

\* INSERT of the message ON CONFLICT (provider_id) DO NOTHING.
KnownMutant(r, i) == FALSE
Known(r, i) == \E m \in r.log : m.message = i.message

Recorded(r, i) ==
    [r EXCEPT !.sequence = @ + 1,
              !.revision = @ + 1,
              !.log      = @ \cup {[message |-> i.message, sequence |-> r.sequence + 1,
                                    basis |-> i.basis]},
              !.status   = IF @ = "SNOOZED" THEN "OPEN" ELSE @,
              !.until    = IF r.status = "SNOOZED" THEN 0 ELSE @,
              !.window   = IF i.basis > @ THEN i.basis ELSE @,
              !.eligible = IF i.basis > r.window THEN i.message ELSE @]

Record(w) ==
    LET i == NextItem(w) IN
    /\ AtItem(w, "message") /\ Mine(w, i.conv)
    /\ draft' = [draft EXCEPT ![i.conv] = IF Known(@, i) THEN @ ELSE Recorded(@, i)]
    /\ Advance(w)
    /\ UNCHANGED <<dataVars, lockVars, seen, event, since, duty>>

\* INSERT of a status ON CONFLICT (fact_hash) DO NOTHING: an equal one that is not
\* committed yet is waited for.
Stored(i) == \E e \in done : \E n \in DOMAIN ItemsOf[e] :
                 ItemsOf[e][n].kind = "status" /\ ItemsOf[e][n].message = i.message
Inserted(w) == Exclusive(Fact(NextItem(w).message)) \in held[w]

Insert(w) ==
    /\ AtItem(w, "status") /\ ~Inserted(w)
    /\ IF Stored(NextItem(w)) THEN Advance(w) /\ UNCHANGED lockVars
       ELSE Needs(w, <<Exclusive(Fact(NextItem(w).message))>>) /\ UNCHANGED pos
    /\ UNCHANGED <<dataVars, draft, seen, event, since, duty>>

\* The one waited for was committed.
Told(w) ==
    /\ AtItem(w, "status") /\ Inserted(w) /\ Stored(NextItem(w))
    /\ held' = [held EXCEPT ![w] = @ \ {Exclusive(Fact(NextItem(w).message))}]
    /\ Advance(w)
    /\ UNCHANGED <<dataVars, draft, doing, todo, woken, seen, event, since, duty>>

\* correlateStatus: a message with that provider id, if there is one, is locked and
\* projected (Delivery has what comes of it), and an event tells of it.
Correlate(w) ==
    LET c == NextItem(w).conv IN
    /\ AtItem(w, "status") /\ Inserted(w) /\ ~Stored(NextItem(w))
    /\ \/ Advance(w) /\ UNCHANGED lockVars
       \/ /\ Exclusive(Sent(c)) \notin held[w]
          /\ Needs(w, <<Exclusive(Sent(c))>> \o Event(w, c))
          /\ UNCHANGED pos
    /\ UNCHANGED <<dataVars, draft, seen, event, since, duty>>

Forget(w) ==
    /\ event' = [event EXCEPT ![w] = 0]
    /\ pos' = [pos EXCEPT ![w] = 0]
    /\ since' = [since EXCEPT ![w] = 0]

Materialized(w) ==
    /\ Ready(w, "materialize") /\ pos[w] > Len(Items(w))
    /\ Commit(w, draft)
    /\ done' = done \cup {event[w]}
    /\ Forget(w)
    /\ UNCHANGED <<note, intent, seen, duty>>

------------------------------------------------------------------------------
(* recoverUncertain *)

Due(r, t) == r.status = "SNOOZED" /\ r.until <= t
DueAt(t)  == {c \in Conversations : Due(conv[c], t)}
Stale     == intent = "DISPATCHING" /\ now >= 1       \* dispatched at time 0

\* A pass that would find nothing is left out.
Recover(w) ==
    /\ Stale \/ DueAt(now) # {}
    /\ Start(w, "settle", IF Stale THEN <<Update(Intent)>> ELSE <<>>)
    /\ since' = [since EXCEPT ![w] = now]
    /\ UNCHANGED <<dataVars, draft, seen, event, pos, duty, requests, now, faults>>

\* The intent is still in dispatch: its message and an event follow.
Overdue(w) == /\ Update(Intent) \in held[w] /\ intent = "DISPATCHING"
              /\ Update(Sent(IntentOf)) \notin held[w]
GiveUp(w) ==
    /\ Ready(w, "settle") /\ Overdue(w)
    /\ Needs(w, <<Update(Sent(IntentOf))>> \o Event(w, IntentOf))
    /\ UNCHANGED <<dataVars, draft, seen, workVars>>

Orders(D) == {s \in [1..Cardinality(D) -> D] : \A c \in D : \E n \in DOMAIN s : s[n] = c}

\* The UPDATE of all due conversations: it takes the rows that its snapshot finds
\* due in the order of its scan and tests each again once it is locked.
Sweep(w) ==
    /\ Ready(w, "settle") /\ ~Overdue(w)
    /\ doing' = [doing EXCEPT ![w] = "wake"]
    /\ \E s \in Orders(DueAt(since[w])) :
           todo' = [todo EXCEPT ![w] = [n \in DOMAIN s |-> Update(Row(s[n]))]]
    /\ UNCHANGED <<dataVars, draft, held, woken, seen, workVars>>

SilentMutant(r, t) ==
    IF Due(r, t) THEN [r EXCEPT !.status = "OPEN", !.until = 0] ELSE r
AwakeMutant(r, t) == [r EXCEPT !.status = "OPEN", !.until = 0, !.revision = @ + 1]
Awake(r, t) ==
    IF Due(r, t) THEN [r EXCEPT !.status = "OPEN", !.until = 0, !.revision = @ + 1] ELSE r

WakeMutant(w) ==
    /\ Ready(w, "wake")
    /\ Commit(w, [c \in Conversations |-> IF Mine(w, c) THEN Awake(draft[c], since[w])
                                          ELSE draft[c]])
    /\ Forget(w)
    /\ UNCHANGED <<note, intent, done, seen, duty>>
Wake(w) ==
    /\ Ready(w, "wake")
    /\ Commit(w, [c \in Conversations |-> IF Mine(w, c) THEN Awake(draft[c], since[w])
                                          ELSE draft[c]])
    /\ intent' = IF Update(Intent) \in held[w] /\ intent = "DISPATCHING"
                 THEN "UNCERTAIN" ELSE intent
    /\ Forget(w)
    /\ UNCHANGED <<note, done, seen, duty>>

------------------------------------------------------------------------------
(* The two ends of a dispatch, and the synchronisation *)

Discharge(w) == duty' = [duty EXCEPT ![w] = "none"]

\* A stalled worker comes to authorize the claim it lost.
Authorize(w) ==
    /\ duty[w] = "authorize" /\ Discharge(w)
    /\ Start(w, "authorize", Anchored(IntentOf) \o <<Exclusive(Intent)>>)
    /\ UNCHANGED <<dataVars, draft, seen, event, pos, since, requests, now, faults>>

\* Its lease is not in the intent: it goes away.
Stand(w) ==
    /\ Ready(w, "authorize")
    /\ Rollback(w)
    /\ UNCHANGED <<seen, workVars>>

Finish(w) ==
    /\ duty[w] = "finish" /\ Discharge(w)
    /\ Start(w, "finish", <<Update(Intent)>>)
    /\ UNCHANGED <<dataVars, draft, seen, event, pos, since, requests, now, faults>>

\* The intent still waits for its outcome: the message's row and, where the provider
\* accepted, the conversation's are written; any other outcome is an event only.
LockOutcome(w) ==
    /\ Ready(w, "finish") /\ intent = "DISPATCHING"
    /\ Update(Sent(IntentOf)) \notin held[w]
    /\ \/ Needs(w, <<Update(Sent(IntentOf)), Update(Row(IntentOf))>>)
       \/ Needs(w, <<Update(Sent(IntentOf))>> \o Event(w, IntentOf))
    /\ UNCHANGED <<dataVars, draft, seen, workVars>>

Conclude(w) ==
    /\ Ready(w, "finish")
    /\ \/ /\ intent = "DISPATCHING" /\ Update(Sent(IntentOf)) \in held[w]
          /\ intent' = IF Mine(w, IntentOf) THEN "ACCEPTED" ELSE "FAILED"
          /\ Commit(w, [draft EXCEPT ![IntentOf].revision =
                            IF Mine(w, IntentOf) THEN @ + 1 ELSE @])
          /\ UNCHANGED <<note, done>>
       \/ /\ intent # "DISPATCHING"
          /\ Rollback(w)
    /\ UNCHANGED <<seen, workVars>>

\* persistSnapshot: the WABA, then its phones; what it writes is Sync's matter.
Synchronize ==
    /\ requests[Syncer] < MaxRequests
    /\ Start(Syncer, "sync", <<Update(Waba), Update(Phone)>>)
    /\ requests' = [requests EXCEPT ![Syncer] = @ + 1]
    /\ UNCHANGED <<dataVars, draft, seen, workVars, now, faults>>

Synchronized ==
    /\ Ready(Syncer, "sync")
    /\ Rollback(Syncer)
    /\ UNCHANGED <<seen, workVars>>

------------------------------------------------------------------------------
(* Failures, and the whole *)

\* p is on a ring of waits: it waits, and is in a set in which, however it is parted,
\* some of the one part wait for some of the other.
InRing(p) ==
    /\ Blockers(p) # {}
    /\ \E S \in SUBSET cast :
           /\ p \in S /\ S # {p}
           /\ \A T \in (SUBSET S) \ {{}, S} : \E q \in T : Blockers(q) \cap (S \ T) # {}

Abandon(p) ==
    /\ Rollback(p)
    /\ IF p \in Workers THEN Forget(p) ELSE UNCHANGED <<event, pos, since>>
    /\ IF p \in Agents THEN Close(p) ELSE UNCHANGED seen
    /\ UNCHANGED duty

\* deadlock_timeout of the database.
DeadlockDetected(p) == InRing(p) /\ Abandon(p)

\* A crash, a lost connection, or lock_timeout.
Fault(p) ==
    /\ doing[p] # "idle" /\ faults < MaxFaults
    /\ faults' = faults + 1
    /\ Abandon(p)
    /\ UNCHANGED <<now, requests>>

Tick ==
    /\ now < MaxNow
    /\ now' = now + 1
    /\ UNCHANGED <<dataVars, draft, lockVars, seen, workVars, requests, faults>>

Work(w) == \/ LockThread(w) \/ Record(w) \/ Insert(w) \/ Told(w) \/ Correlate(w)
           \/ Materialized(w)
           \/ GiveUp(w) \/ Sweep(w) \/ Wake(w)
           \/ Stand(w) \/ LockOutcome(w) \/ Conclude(w)

Answered(p) ==
    /\ \/ Acquire(p) \/ DeadlockDetected(p)
       \/ p \in Agents /\ Request(p)
       \/ p \in Workers /\ Work(p)
       \/ p = Syncer /\ Synchronized
    /\ UNCHANGED <<requests, now, faults>>

\* The worker's loop: what it holds of a dispatch, then events and recovery.
Loop(w) ==
    \/ Authorize(w) \/ Finish(w)
    \/ duty[w] = "none" /\ (Materialize(w) \/ Recover(w))

Begin == \/ \E a \in Agents, what \in Asked : Ask(a, what)
         \/ Synchronize

Next ==
    /\ \/ Begin
       \/ \E p \in Procs : Answered(p) \/ Fault(p)
       \/ \E w \in Workers : Loop(w)
       \/ Tick
    /\ UNCHANGED cast

Spec == Init /\ [][Next]_vars

\* Each process's statements are answered, each worker loops, and the clock runs.
LiveSpec ==
    /\ Spec
    /\ \A p \in Procs : WF_vars(Answered(p) /\ UNCHANGED cast)
    /\ \A w \in Workers : WF_vars(Loop(w) /\ UNCHANGED cast)
    /\ WF_vars(Tick /\ UNCHANGED cast)

------------------------------------------------------------------------------
(* Properties *)

\* What an agent changes is as the agent saw it and within the agent's reach at
\* that moment, whoever else changed it meanwhile: the revision a request carries
\* stands for everything on the page, since every writer moves it.  A note that was
\* redacted under an edit stays so (operations.go:243, 269, 348-368;
\* materialize.go:189; worker.go:186, 223).
ChangesBuildOnWhatWasSeen ==
    [][\A a \in Agents :
          LET row == conv[Desk[a]]
              changes == conv'[Desk[a]] # row IN
          doing[a] # "idle" /\ doing'[a] = "idle" =>
              /\ changes \/ note' # note => row.team \in Reach[a]
              /\ changes /\ doing[a] = "patch" => seen[a].row = row
              /\ changes /\ doing[a] = "assign" => seen[a].row.team = row.team
              /\ note' # note => seen[a].note = note /\ note.redacted = "no"]_vars

\* A snooze ends for a cause only: its time, a new inbound message, or an agent.
\* A recovery that waited for the row does not wake what was snoozed again
\* meanwhile (worker.go:223; docs/01-prd-master.md:15).
SnoozeEndsForCause ==
    [][\A c \in Conversations :
          conv[c].status = "SNOOZED" /\ conv'[c].status # "SNOOZED" =>
              \/ conv'[c].sequence > conv[c].sequence
              \/ conv[c].until <= now
              \/ \E a \in Agents : Desk[a] = c /\ doing[a] = "patch" /\ doing'[a] = "idle"]_vars

\* Three transactions only can catch an agent's request in a ring of waits: a
\* synchronisation, a recovery that wakes several conversations, and a materialization
\* that told of a status in the agent's conversation, whose row its event refers to,
\* and goes on to what the agent's request has anchored.  All else takes what it
\* shares with a request in the request's order (service.go:104-107, 121-127;
\* materialize.go:164, 282; worker.go:223; 00004_guarded_inbox.sql:112).
RequestsWaitInOrder ==
    \A a \in Agents :
        InRing(a) => \/ doing[Syncer] = "sync"
                     \/ \E w \in Workers : doing[w] = "wake"
                     \/ \E w \in Workers : /\ doing[w] = "materialize"
                                            /\ KeyShare(Row(Desk[a])) \in held[w]

\* The inbound messages of a row, and its window, are in order.
Accounted(r) ==
    /\ {m.sequence : m \in r.log} = 1..r.sequence
    /\ \A m, n \in r.log : m.message = n.message \/ m.sequence = n.sequence => m = n
    /\ \A m \in r.log : m.basis <= r.window
    /\ r.window > 0 => \E m \in r.log : m.message = r.eligible /\ m.basis = r.window

\* However events repeat, cross and are retried, a conversation's inbound messages
\* are numbered without gap or repetition, each once, and the service window stands
\* on the latest trusted text among them, never on the one that came last
\* (materialize.go:177-206; docs/28-sprint-3-evidence.md:27).
InboundAccounted == \A c \in Conversations : Accounted(conv[c])

Landed == /\ done = Events
          /\ intent # "DISPATCHING"
          /\ DueAt(now) = {}

\* Deadlocks, waits and faults only delay: every event is materialized, no intent
\* stays DISPATCHING and no snooze outlasts its time (worker.go:172, 201, 223;
\* materialize.go:140; sync.go:80).
EverythingLands == []<>(Landed \/ cast \cap Workers = {})
==============================================================================
