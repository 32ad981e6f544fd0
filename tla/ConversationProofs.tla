-------------------------- MODULE ConversationProofs --------------------------
(***************************************************************************)
(* Agents change what they saw, inbound messages are accounted for, a      *)
(* snooze ends for a cause and requests keep the order of locks, for any   *)
(* agents, workers, conversations and events, however transactions         *)
(* interleave, ring and fail.  The argument: rows are locked exclusively,  *)
(* a draft is ahead of its committed row exactly by its revision, and so   *)
(* one revision never stands for two states of a conversation; and what a  *)
(* process waits for says what it holds, so no ring leads back to it.      *)
(***************************************************************************)
EXTENDS Conversation, SequenceTheorems, TLAPS

Page == [row : Thread, note : NoteRow]

Shape ==
    /\ conv \in [Conversations -> Thread] /\ draft \in [Conversations -> Thread]
    /\ note \in NoteRow /\ now \in Nat
    /\ seen \in [Agents -> Page]
    /\ doing = [p \in Procs |-> doing[p]]
    /\ todo = [p \in Procs |-> todo[p]] /\ \A a \in Agents : todo[a] \in Seq(Lock)
    /\ held = [p \in Procs |-> held[p]]

\* A worker that materializes is somewhere in an event.
Places ==
    /\ event = [w \in Workers |-> event[w]] /\ pos = [w \in Workers |-> pos[w]]
    /\ \A w \in Workers : doing[w] = "materialize" =>
           event[w] \in Events /\ pos[w] \in Nat \ {0}

\* Nobody has or wants a lock outside a transaction, and no two hold conflicting ones.
LocksApart ==
    /\ \A p \in Procs : doing[p] = "idle" => held[p] = {} /\ todo[p] = <<>>
    /\ \A p, q \in Procs : p # q =>
           \A k \in held[p], l \in held[q] : ~Conflict(k, l)

\* s is a state of the conversation after r.
Grows(r, s) == /\ s.revision > r.revision /\ s.assignment >= r.assignment
               /\ s.assignment = r.assignment => s.team = r.team
Later(r, s) == s = r \/ Grows(r, s)

\* A draft nobody holds is the row, and so is a draft an agent holds.
Drafts ==
    /\ \A c \in Conversations : Later(conv[c], draft[c])
    /\ \A c \in Conversations : (\A p \in Procs : ~Mine(p, c)) => draft[c] = conv[c]
    /\ \A a \in Agents, c \in Conversations : Mine(a, c) => draft[c] = conv[c]

\* A page under a request shows the row or an earlier state of it.
Pages ==
    \A a \in Agents : doing[a] # "idle" =>
        /\ Later(seen[a].row, conv[Desk[a]])
        /\ seen[a].note = note \/ seen[a].note.revision < note.revision

\* Who has come to lock the note has its conversation, within reach.
NoteReached ==
    \A a \in Agents :
        \/ Exclusive(Note) \in held[a]
        \/ \E n \in DOMAIN todo[a] : todo[a][n] = Exclusive(Note)
        => Mine(a, Desk[a]) /\ InReach(a)

Counted == \A c \in Conversations : Accounted(conv[c]) /\ Accounted(draft[c])

Inv == Shape /\ Places /\ LocksApart /\ Drafts /\ Pages /\ NoteReached /\ Counted

\* The body of ChangesBuildOnWhatWasSeen.
Informed ==
    \A a \in Agents :
        LET row == conv[Desk[a]]
            changes == conv'[Desk[a]] # row IN
        doing[a] # "idle" /\ doing'[a] = "idle" =>
            /\ changes \/ note' # note => row.team \in Reach[a]
            /\ changes /\ doing[a] = "patch" => seen[a].row = row
            /\ changes /\ doing[a] = "assign" => seen[a].row.team = row.team
            /\ note' # note => seen[a].note = note /\ note.redacted = "no"

------------------------------------------------------------------------------
(* What becomes of a row *)

Names == {"status", "until", "handoff", "epoch", "team", "assignment", "revision",
          "sequence", "log", "window", "eligible"}
Fields(u) ==
    [status |-> u.status, until |-> u.until, handoff |-> u.handoff, epoch |-> u.epoch,
     team |-> u.team, assignment |-> u.assignment, revision |-> u.revision,
     sequence |-> u.sequence, log |-> u.log, window |-> u.window, eligible |-> u.eligible]

LEMMA Named == ASSUME NEW r \in Thread PROVE DOMAIN r = Names
BY DEF Thread, Names

\* Fields of their types make a row.
LEMMA Typing ==
    ASSUME NEW u, u = [f \in Names |-> u[f]],
           u.status \in Status, u.until \in Nat, u.handoff \in Handoff, u.epoch \in Nat,
           u.team \in Teams \cup {None}, u.assignment \in Nat, u.revision \in Nat,
           u.sequence \in Nat,
           u.log \in SUBSET [message : Messages, sequence : Nat, basis : Nat],
           u.window \in Nat, u.eligible \in Messages \cup {None}
    PROVE  u \in Thread
<1> DEFINE L == [message : Messages, sequence : Nat, basis : Nat]
<1> u.log \in SUBSET L OBVIOUS
<1>1. u = Fields(u)
    <2>1. DOMAIN Fields(u) = Names BY DEF Fields, Names
    <2>2. \A f \in Names : Fields(u)[f] = u[f] BY DEF Fields, Names
    <2>3. Fields(u) = [f \in Names |-> Fields(u)[f]] BY <2>1 DEF Fields
    <2> QED BY <2>2, <2>3
<1> HIDE DEF L
<1>2. Fields(u) \in [status : Status, until : Nat, handoff : Handoff, epoch : Nat,
           team : Teams \cup {None}, assignment : Nat, revision : Nat, sequence : Nat,
           log : SUBSET L, window : Nat, eligible : Messages \cup {None}]
    BY DEF Fields
<1> QED BY <1>1, <1>2 DEF Thread, L

LEMMA Growing ==
    ASSUME NEW r \in Thread, NEW s \in Thread, NEW u \in Thread, Later(r, s), Later(s, u)
    PROVE  Later(r, u)
BY DEF Later, Grows, Thread

LEMMA NewIsAccounted ==
    ASSUME NEW t \in Teams \cup {None}
    PROVE  /\ NewThread(t) \in Thread /\ Accounted(NewThread(t))
           /\ Snoozed(t) \in Thread /\ Accounted(Snoozed(t))
<1>1. NewThread(t) \in Thread BY DEF NewThread, Thread, Status, Handoff
<1>2. /\ NewThread(t).log = {} /\ NewThread(t).sequence = 0 /\ NewThread(t).window = 0
    BY DEF NewThread
<1>3. Snoozed(t) \in Thread BY <1>1 DEF Snoozed, Thread, Status
<1>4. /\ Snoozed(t).log = {} /\ Snoozed(t).sequence = 0 /\ Snoozed(t).window = 0
    BY <1>1, <1>2 DEF Snoozed, Thread
<1> QED BY <1>1, <1>2, <1>3, <1>4 DEF Accounted

LEMMA PatchGrows ==
    ASSUME NEW r \in Thread, Accounted(r), NEW x \in Patches, now \in Nat
    PROVE  /\ Patched(r, x) \in Thread /\ Grows(r, Patched(r, x))
           /\ Accounted(Patched(r, x))
<1> x \in Patch BY ConversationAssumption
<1> DEFINE u == Patched(r, x)
<1>1. u \in Thread
    <2>1. u = [f \in Names |-> u[f]] BY Named DEF Patched
    <2>5. x.status \in Status \cup {""} /\ x.handoff \in Handoff \cup {""} BY DEF Patch
    <2>6. u.status = IF x.status = "" THEN r.status ELSE x.status BY DEF Patched, Thread
    <2>7. u.handoff = IF x.handoff = "" THEN r.handoff ELSE x.handoff BY DEF Patched, Thread
    <2>8. u.until = IF x.status = "" THEN r.until
                    ELSE IF x.status = "SNOOZED" THEN now + 1 ELSE 0 BY DEF Patched, Thread
    <2>9. u.epoch = IF x.handoff \in {"", r.handoff} THEN r.epoch ELSE r.epoch + 1
        BY DEF Patched, Thread
    <2>10. r.status \in Status /\ r.until \in Nat /\ r.handoff \in Handoff /\ r.epoch \in Nat
        BY DEF Thread
    <2>2. u.status \in Status /\ u.until \in Nat /\ u.handoff \in Handoff /\ u.epoch \in Nat
        <3> HIDE DEF u
        <3>1. u.status \in Status BY <2>5, <2>6, <2>10
        <3>2. u.handoff \in Handoff BY <2>5, <2>7, <2>10
        <3> now + 1 \in Nat /\ 0 \in Nat /\ r.epoch + 1 \in Nat BY <2>10
        <3>3. u.until \in Nat BY <2>8, <2>10, Zenon
        <3>4. u.epoch \in Nat BY <2>9, <2>10, Zenon
        <3> QED BY <3>1, <3>2, <3>3, <3>4
    <2>3. u.team \in Teams \cup {None} /\ u.assignment \in Nat /\ u.revision \in Nat
        BY DEF Patched, Thread
    <2>4. /\ u.sequence \in Nat /\ u.window \in Nat /\ u.eligible \in Messages \cup {None}
          /\ u.log \in SUBSET [message : Messages, sequence : Nat, basis : Nat]
        BY DEF Patched, Thread
    <2> HIDE DEF u
    <2> QED BY <2>1, <2>2, <2>3, <2>4, Typing
<1>2. /\ u.revision = r.revision + 1 /\ u.assignment = r.assignment /\ u.team = r.team
      /\ u.log = r.log /\ u.sequence = r.sequence /\ u.window = r.window /\ u.eligible = r.eligible
    BY DEF Patched, Thread
<1> HIDE DEF u
<1>3. Grows(r, u) BY <1>2 DEF Grows, Thread
<1>4. Accounted(u) BY <1>2 DEF Accounted
<1> QED BY <1>1, <1>3, <1>4 DEF u

LEMMA AssignmentGrows ==
    ASSUME NEW r \in Thread, Accounted(r), NEW t \in Teams \cup {None}
    PROVE  /\ Assigned(r, t) \in Thread /\ Grows(r, Assigned(r, t))
           /\ Accounted(Assigned(r, t))
<1> DEFINE u == Assigned(r, t)
<1>1. u \in Thread
    <2>1. u = [f \in Names |-> u[f]] BY Named DEF Assigned
    <2>2. u.status \in Status /\ u.until \in Nat /\ u.handoff \in Handoff /\ u.epoch \in Nat
        BY DEF Assigned, Thread, Status, Handoff
    <2>3. u.team \in Teams \cup {None} /\ u.assignment \in Nat /\ u.revision \in Nat
        BY DEF Assigned, Thread
    <2>4. /\ u.sequence \in Nat /\ u.window \in Nat /\ u.eligible \in Messages \cup {None}
          /\ u.log \in SUBSET [message : Messages, sequence : Nat, basis : Nat]
        BY DEF Assigned, Thread
    <2> HIDE DEF u
    <2> QED BY <2>1, <2>2, <2>3, <2>4, Typing
<1>2. /\ u.revision = r.revision + 1 /\ u.assignment = r.assignment + 1
      /\ u.log = r.log /\ u.sequence = r.sequence /\ u.window = r.window /\ u.eligible = r.eligible
    BY DEF Assigned, Thread
<1> HIDE DEF u
<1>3. Grows(r, u) BY <1>2 DEF Grows, Thread
<1>4. Accounted(u) BY <1>2 DEF Accounted
<1> QED BY <1>1, <1>3, <1>4 DEF u

LEMMA WakingGrows ==
    ASSUME NEW r \in Thread, Accounted(r), NEW t
    PROVE  /\ Awake(r, t) \in Thread /\ Later(r, Awake(r, t)) /\ Accounted(Awake(r, t))
<1> DEFINE u == [r EXCEPT !.status = "OPEN", !.until = 0, !.revision = @ + 1]
<1>1. u \in Thread
    <2>1. u = [f \in Names |-> u[f]] BY Named
    <2>2. u.status \in Status /\ u.until \in Nat /\ u.handoff \in Handoff /\ u.epoch \in Nat
        BY DEF Thread, Status
    <2>3. u.team \in Teams \cup {None} /\ u.assignment \in Nat /\ u.revision \in Nat
        BY DEF Thread
    <2>4. /\ u.sequence \in Nat /\ u.window \in Nat /\ u.eligible \in Messages \cup {None}
          /\ u.log \in SUBSET [message : Messages, sequence : Nat, basis : Nat]
        BY DEF Thread
    <2> HIDE DEF u
    <2> QED BY <2>1, <2>2, <2>3, <2>4, Typing
<1>2. /\ u.revision = r.revision + 1 /\ u.assignment = r.assignment /\ u.team = r.team
      /\ u.log = r.log /\ u.sequence = r.sequence /\ u.window = r.window /\ u.eligible = r.eligible
    BY DEF Thread
<1>3. Awake(r, t) = r \/ Awake(r, t) = u BY DEF Awake
<1> HIDE DEF u
<1>4. Grows(r, u) BY <1>2 DEF Grows, Thread
<1>5. Accounted(u) BY <1>2 DEF Accounted
<1> QED BY <1>1, <1>3, <1>4, <1>5 DEF Later

LEMMA AcceptanceGrows ==
    ASSUME NEW r \in Thread, Accounted(r)
    PROVE  LET u == [r EXCEPT !.revision = @ + 1] IN
           u \in Thread /\ Grows(r, u) /\ Accounted(u)
<1> DEFINE u == [r EXCEPT !.revision = @ + 1]
<1>1. u \in Thread BY DEF Thread
<1>2. /\ u.revision = r.revision + 1 /\ u.assignment = r.assignment /\ u.team = r.team
      /\ u.log = r.log /\ u.sequence = r.sequence /\ u.window = r.window /\ u.eligible = r.eligible
    BY DEF Thread
<1> HIDE DEF u
<1>3. Grows(r, u) BY <1>2 DEF Grows, Thread
<1>4. Accounted(u) BY <1>2 DEF Accounted
<1> QED BY <1>1, <1>3, <1>4 DEF u

\* A message that is new gets the next number and moves the window forwards only.
LEMMA RecordingGrows ==
    ASSUME NEW r \in Thread, Accounted(r), NEW i \in Item, ~Known(r, i)
    PROVE  /\ Recorded(r, i) \in Thread /\ Grows(r, Recorded(r, i))
           /\ Accounted(Recorded(r, i))
<1> DEFINE u == Recorded(r, i)
           m == [message |-> i.message, sequence |-> r.sequence + 1, basis |-> i.basis]
<1>1. u \in Thread
    <2>1. r.sequence \in Nat /\ i.message \in Messages /\ i.basis \in Nat BY DEF Thread, Item
    <2>2. m \in [message : Messages, sequence : Nat, basis : Nat] BY <2>1
    <2>3. r.log \cup {m} \in SUBSET [message : Messages, sequence : Nat, basis : Nat]
        BY <2>2 DEF Thread
    <2> HIDE DEF m
    <2> HIDE DEF u
    <2>4. u = [f \in Names |-> u[f]] BY Named DEF u, Recorded
    <2>5. u.status \in Status /\ u.until \in Nat /\ u.handoff \in Handoff /\ u.epoch \in Nat
        BY DEF u, Recorded, Thread, Status
    <2>6. u.team \in Teams \cup {None} /\ u.assignment \in Nat /\ u.revision \in Nat
        BY DEF u, Recorded, Thread
    <2>7. u.sequence \in Nat /\ u.window \in Nat /\ u.eligible \in Messages \cup {None}
        BY <2>1 DEF u, Recorded, Thread
    <2>8. u.log = r.log \cup {m} BY DEF u, Recorded, m, Thread
    <2>9. u.log \in SUBSET [message : Messages, sequence : Nat, basis : Nat]
        BY <2>3, <2>8
    <2> QED BY <2>4, <2>5, <2>6, <2>7, <2>9, Typing
<1>2. /\ u.revision = r.revision + 1 /\ u.assignment = r.assignment /\ u.team = r.team
      /\ u.log = r.log \cup {m} /\ u.sequence = r.sequence + 1
      /\ u.window = IF i.basis > r.window THEN i.basis ELSE r.window
      /\ u.eligible = IF i.basis > r.window THEN i.message ELSE r.eligible
    BY DEF Recorded, Thread
<1>3. /\ m.message = i.message /\ m.sequence = r.sequence + 1 /\ m.basis = i.basis
      /\ i.basis \in Nat /\ r.window \in Nat /\ r.sequence \in Nat
      /\ \A n \in r.log : n.sequence \in Nat /\ n.basis \in Nat
    BY DEF Thread, Item
<1> HIDE DEF u, m
<1>4. Grows(r, u) BY <1>2 DEF Grows, Thread
<1>5. Accounted(u)
    <2>1. \A n \in r.log : n.message # m.message /\ n.sequence <= r.sequence
        BY <1>3 DEF Known, Accounted
    <2>2. {n.sequence : n \in u.log} = {n.sequence : n \in r.log} \cup {r.sequence + 1}
        BY <1>2, <1>3
    <2>3. {n.sequence : n \in u.log} = 1..u.sequence
        BY <1>2, <1>3, <2>2 DEF Accounted
    <2>4. \A n, l \in u.log : n.message = l.message \/ n.sequence = l.sequence => n = l
        BY <1>2, <1>3, <2>1 DEF Accounted
    <2>5. \A n \in u.log : n.basis <= u.window
        BY <1>2, <1>3 DEF Accounted
    <2>6. u.window > 0 => \E n \in u.log : n.message = u.eligible /\ n.basis = u.window
        BY <1>2, <1>3 DEF Accounted
    <2> QED BY <2>3, <2>4, <2>5, <2>6 DEF Accounted
<1> QED BY <1>1, <1>4, <1>5 DEF u

------------------------------------------------------------------------------
(* What becomes of the locks *)

\* p ends its transaction: its rows are as their drafts now are, ahead of what they
\* were or the same, and nobody else's change.
Settled(p) ==
    /\ End(p)
    /\ \A c \in Conversations :
           IF Mine(p, c)
           THEN conv'[c] = draft'[c] /\ Later(conv[c], conv'[c]) /\ Accounted(conv'[c])
           ELSE conv'[c] = conv[c] /\ draft'[c] = draft[c]

\* What else a step of p leaves as it is.
Others(p) == /\ \A a \in Agents \ {p} : seen'[a] = seen[a]
             /\ note' = note \/ note'.revision > note.revision

\* The locks with which a transaction may write a row exclude each other.
LEMMA Excluding ==
    ASSUME NEW r, NEW k \in {Update(r), Exclusive(r)}, NEW l \in {Update(r), Exclusive(r)}
    PROVE  Conflict(k, l)
<1>1. k.row = r /\ k.mode \in {"update", "exclusive"} BY DEF Update, Exclusive
<1>2. l.row = r /\ l.mode \in {"update", "exclusive"} BY DEF Update, Exclusive
<1>3. CASE k.mode = "exclusive" \/ l.mode = "exclusive" BY <1>1, <1>2, <1>3 DEF Conflict
<1>4. CASE k.mode = "update" /\ l.mode = "update" BY <1>1, <1>2, <1>4 DEF Conflict
<1> QED BY <1>1, <1>2, <1>3, <1>4

LEMMA Alone ==
    ASSUME LocksApart, NEW p \in Procs, NEW q \in Procs, p # q, NEW c, Mine(p, c)
    PROVE  ~Mine(q, c)
<1> SUFFICES ASSUME Mine(q, c) PROVE FALSE OBVIOUS
<1>1. PICK k \in {Update(Row(c)), Exclusive(Row(c))} : k \in held[p] BY DEF Mine
<1>2. PICK l \in {Update(Row(c)), Exclusive(Row(c))} : l \in held[q] BY DEF Mine
<1>3. Conflict(k, l) BY Excluding
<1> QED BY <1>1, <1>2, <1>3 DEF LocksApart

LEMMA Ended ==
    ASSUME Inv, NEW p \in Procs, End(p)
    PROVE  /\ doing' = [q \in Procs |-> IF q = p THEN "idle" ELSE doing[q]]
           /\ todo' = [q \in Procs |-> IF q = p THEN <<>> ELSE todo[q]]
           /\ held' = [q \in Procs |-> IF q = p THEN {} ELSE held[q]]
BY DEF Inv, Shape, End

LEMMA EndedApart ==
    ASSUME Inv, NEW p \in Procs, End(p)
    PROVE  LocksApart'
<1> USE Ended
<1>1. \A q \in Procs : held'[q] \subseteq held[q] BY DEF Inv
<1>2. \A q \in Procs : doing'[q] = "idle" => held'[q] = {} /\ todo'[q] = <<>>
    BY DEF Inv, LocksApart
<1> QED BY <1>1, <1>2 DEF Inv, LocksApart

LEMMA SettledKeeps ==
    ASSUME Inv, Shape', NEW p \in Procs, Settled(p), Others(p)
    PROVE  LocksApart' /\ Drafts' /\ Pages' /\ NoteReached' /\ Counted'
<1> End(p) BY DEF Settled
<1>1. LocksApart' BY EndedApart
<1>2. \A c \in Conversations : Mine(p, c) =>
          conv'[c] = draft'[c] /\ Later(conv[c], conv'[c]) /\ Accounted(conv'[c])
    BY DEF Settled
<1>3. \A c \in Conversations : ~Mine(p, c) => conv'[c] = conv[c] /\ draft'[c] = draft[c]
    BY DEF Settled
<1>4. \A q \in Procs : held'[q] = IF q = p THEN {} ELSE held[q] BY Ended
<1>5. \A q \in Procs, c \in Conversations : Mine(q, c)' => q # p /\ Mine(q, c)
    BY <1>4 DEF Mine
<1>6. \A q \in Procs, c \in Conversations : q # p /\ Mine(q, c) => Mine(q, c)'
    BY <1>4 DEF Mine
<1>7. \A c \in Conversations : Later(conv[c], conv'[c]) BY <1>2, <1>3 DEF Later
<1>8. Drafts'
    <2>1. ASSUME NEW c \in Conversations PROVE Later(conv[c], draft[c])'
        BY <1>2, <1>3 DEF Inv, Drafts, Later, Grows
    <2>2. ASSUME NEW c \in Conversations, \A q \in Procs : ~Mine(q, c)'
          PROVE  draft'[c] = conv'[c]
        <3>1. CASE Mine(p, c) BY <3>1, <1>2
        <3>2. CASE ~Mine(p, c)
            <4>1. \A q \in Procs : ~Mine(q, c) BY <2>2, <3>2, <1>6
            <4> QED BY <4>1, <3>2, <1>3 DEF Inv, Drafts
        <3> QED BY <3>1, <3>2
    <2>3. ASSUME NEW a \in Agents, NEW c \in Conversations, Mine(a, c)'
          PROVE  draft'[c] = conv'[c]
        <3>1. a \in Procs BY DEF Procs
        <3>2. a # p /\ Mine(a, c) BY <2>3, <3>1, <1>5
        <3>3. ~Mine(p, c) BY <3>1, <3>2, Alone DEF Inv
        <3> QED BY <3>2, <3>3, <1>3 DEF Inv, Drafts
    <2> QED BY <2>1, <2>2, <2>3 DEF Drafts
<1>9. Pages'
    <2> SUFFICES ASSUME NEW a \in Agents, doing'[a] # "idle"
                 PROVE  /\ Later(seen[a].row, conv[Desk[a]])'
                        /\ seen'[a].note = note' \/ seen'[a].note.revision < note'.revision
        BY DEF Pages
    <2>1. a \in Procs /\ Desk[a] \in Conversations BY ConversationAssumption DEF Procs
    <2>2. a # p /\ doing[a] # "idle" BY <2>1, Ended
    <2>3. seen'[a] = seen[a] BY <2>2 DEF Others
    <2>4. /\ Later(seen[a].row, conv[Desk[a]])
          /\ seen[a].note = note \/ seen[a].note.revision < note.revision
        BY <2>2 DEF Inv, Pages
    <2>5. Later(conv[Desk[a]], conv'[Desk[a]]) BY <2>1, <1>7
    <2>6. seen[a].row \in Thread /\ conv[Desk[a]] \in Thread /\ conv'[Desk[a]] \in Thread
        BY <2>1 DEF Inv, Shape, Page
    <2>7. Later(seen[a].row, conv'[Desk[a]]) BY <2>4, <2>5, <2>6, Growing
    <2>8. seen[a].note \in NoteRow /\ note \in NoteRow /\ note' \in NoteRow
        BY DEF Inv, Shape, Page
    <2>9. seen[a].note = note' \/ seen[a].note.revision < note'.revision
        <3>1. /\ seen[a].note.revision \in Nat
              /\ note.revision \in Nat /\ note'.revision \in Nat
            BY <2>8 DEF NoteRow
        <3>2. note' = note \/ note'.revision > note.revision BY DEF Others
        <3>3. CASE note' = note BY <3>3, <2>4
        <3>4. CASE note'.revision > note.revision
            <4>1. seen[a].note.revision <= note.revision BY <2>4, <3>1
            <4> QED BY <4>1, <3>1, <3>4
        <3> QED BY <3>2, <3>3, <3>4
    <2> QED BY <2>3, <2>7, <2>9
<1>10. NoteReached'
    <2> SUFFICES ASSUME NEW a \in Agents,
                        \/ Exclusive(Note) \in held'[a]
                        \/ \E n \in DOMAIN todo'[a] : todo'[a][n] = Exclusive(Note)
                 PROVE  (Mine(a, Desk[a]) /\ InReach(a))'
        BY DEF NoteReached
    <2>1. a \in Procs /\ Desk[a] \in Conversations BY ConversationAssumption DEF Procs
    <2>2. a # p /\ held'[a] = held[a] /\ todo'[a] = todo[a] BY <2>1, Ended
    <2>3. Mine(a, Desk[a]) /\ InReach(a) BY <2>2 DEF Inv, NoteReached
    <2>4. ~Mine(p, Desk[a]) BY <2>1, <2>2, <2>3, Alone DEF Inv
    <2>5. conv'[Desk[a]] = conv[Desk[a]] BY <2>1, <2>4, <1>3
    <2> QED BY <2>2, <2>3, <2>5 DEF Mine, InReach
<1>11. Counted'
    BY <1>2, <1>3 DEF Inv, Counted
<1> QED BY <1>1, <1>8, <1>9, <1>10, <1>11

LEMMA RollbackSettles ==
    ASSUME Inv, NEW p \in Procs, Rollback(p)
    PROVE  Settled(p) /\ conv' = conv /\ draft' \in [Conversations -> Thread] /\ note' = note
BY DEF Inv, Shape, Rollback, Settled, dataVars, Counted, Later

\* d is what a commit of p may make of the drafts.
Mended(p, d) ==
    \A c \in Conversations :
        \/ d[c] = draft[c]
        \/ Mine(p, c) /\ d[c] \in Thread /\ Later(draft[c], d[c]) /\ Accounted(d[c])

LEMMA CommitSettles ==
    ASSUME Inv, NEW p \in Procs, NEW d \in [Conversations -> Thread], Mended(p, d), Commit(p, d)
    PROVE  /\ Settled(p)
           /\ conv' \in [Conversations -> Thread] /\ draft' \in [Conversations -> Thread]
<1>1. conv' = [c \in Conversations |-> IF Mine(p, c) THEN d[c] ELSE conv[c]] /\ draft' = d
    BY DEF Commit
<1>2. conv' \in [Conversations -> Thread] BY <1>1 DEF Inv, Shape
<1>3. ASSUME NEW c \in Conversations
      PROVE  IF Mine(p, c)
             THEN conv'[c] = draft'[c] /\ Later(conv[c], conv'[c]) /\ Accounted(conv'[c])
             ELSE conv'[c] = conv[c] /\ draft'[c] = draft[c]
    <2>1. CASE Mine(p, c)
        <3>1. conv'[c] = d[c] /\ draft'[c] = d[c] BY <1>1, <2>1
        <3>2. Later(conv[c], draft[c]) /\ Accounted(draft[c]) BY DEF Inv, Drafts, Counted
        <3>3. conv[c] \in Thread /\ draft[c] \in Thread /\ d[c] \in Thread BY DEF Inv, Shape
        <3>4. d[c] = draft[c] \/ (Later(draft[c], d[c]) /\ Accounted(d[c])) BY DEF Mended
        <3>5. Later(draft[c], d[c]) /\ Accounted(d[c]) BY <3>2, <3>4 DEF Later
        <3>6. Later(conv[c], d[c]) BY <3>2, <3>3, <3>5, Growing
        <3> QED BY <2>1, <3>1, <3>5, <3>6
    <2>2. CASE ~Mine(p, c) BY <1>1, <2>2 DEF Mended
    <2> QED BY <2>1, <2>2
<1> QED BY <1>1, <1>2, <1>3 DEF Settled, Commit

\* Where the workers other than p are in their events, they stay.
Elsewhere(p) ==
    /\ event' = [w \in Workers |-> event'[w]] /\ pos' = [w \in Workers |-> pos'[w]]
    /\ \A w \in Workers \ {p} : event'[w] = event[w] /\ pos'[w] = pos[w]

LEMMA EndKeeps ==
    ASSUME Inv, NEW p \in Procs, Settled(p), Others(p), Elsewhere(p),
           conv' \in [Conversations -> Thread], draft' \in [Conversations -> Thread],
           note' \in NoteRow, now' = now, seen' \in [Agents -> Page]
    PROVE  Inv'
<1> End(p) BY DEF Settled
<1>1. Shape'
    <2>1. \A a \in Agents : a \in Procs BY DEF Procs
    <2>2. ASSUME NEW a \in Agents PROVE todo'[a] \in Seq(Lock)
        <3>1. todo'[a] = <<>> \/ todo'[a] = todo[a] BY <2>1, Ended
        <3>2. <<>> \in Seq(Lock) OBVIOUS
        <3>3. todo[a] \in Seq(Lock) BY DEF Inv, Shape
        <3> QED BY <3>1, <3>2, <3>3
    <2> QED BY <2>2, Ended DEF Inv, Shape
<1>2. Places'
    <2>1. \A w \in Workers : w \in Procs BY DEF Procs
    <2>2. ASSUME NEW w \in Workers, doing'[w] = "materialize"
          PROVE  event'[w] \in Events /\ pos'[w] \in Nat \ {0}
        <3>1. w # p /\ doing[w] = "materialize" BY <2>1, <2>2, Ended
        <3> QED BY <3>1 DEF Inv, Places, Elsewhere
    <2> QED BY <2>2 DEF Places, Elsewhere
<1> QED BY <1>1, <1>2, SettledKeeps DEF Inv

------------------------------------------------------------------------------
(* What goes on within a transaction *)

LEMMA Acquired ==
    ASSUME Inv, NEW p \in Procs, Acquire(p), now' = now
    PROVE  Inv'
<1> DEFINE l == Head(todo[p])
<1>0. /\ conv' = conv /\ draft' = draft /\ note' = note /\ doing' = doing /\ seen' = seen
      /\ event' = event /\ pos' = pos
      /\ todo[p] # <<>>
    BY DEF Acquire, dataVars, workVars
<1>1. held' = [q \in Procs |-> IF q = p THEN held[p] \cup {l} ELSE held[q]]
    BY DEF Acquire, Inv, Shape
<1>2. todo' = [q \in Procs |-> IF q = p THEN Tail(todo[p]) ELSE todo[q]]
    BY DEF Acquire, Inv, Shape
<1>3. \A q \in Procs \ {p} : \A k \in held[q] : ~Conflict(k, l)
    BY DEF Acquire, Blockers
<1> HIDE DEF l
<1>4. Shape'
    <2>1. \A a \in Agents : a \in Procs BY DEF Procs
    <2>2. ASSUME NEW a \in Agents PROVE todo'[a] \in Seq(Lock)
        <3>1. todo[a] \in Seq(Lock) BY DEF Inv, Shape
        <3>2. CASE a = p
            <4>1. Tail(todo[p]) \in Seq(Lock) BY <3>1, <3>2, <1>0
            <4> QED BY <4>1, <3>2, <1>2, <2>1
        <3>3. CASE a # p BY <3>1, <3>3, <1>2, <2>1
        <3> QED BY <3>2, <3>3
    <2> QED BY <2>2, <1>0, <1>1, <1>2 DEF Inv, Shape
<1>5. Places' BY <1>0 DEF Inv, Places
<1>6. LocksApart'
    <2>1. \A q \in Procs : doing'[q] = "idle" => held'[q] = {} /\ todo'[q] = <<>>
        BY <1>0, <1>1, <1>2 DEF Inv, LocksApart
    <2>2. ASSUME NEW q \in Procs, NEW r \in Procs, q # r, NEW k \in held'[q], NEW m \in held'[r]
          PROVE  ~Conflict(k, m)
        <3>1. CASE k \in held[q] /\ m \in held[r] BY <3>1, <2>2 DEF Inv, LocksApart
        <3>2. CASE q = p /\ k = l
            BY <3>2, <2>2, <1>1, <1>3 DEF Conflict
        <3>3. CASE r = p /\ m = l
            BY <3>3, <2>2, <1>1, <1>3 DEF Conflict
        <3> QED BY <2>2, <1>1, <3>1, <3>2, <3>3
    <2> QED BY <2>1, <2>2 DEF LocksApart
<1>7. ASSUME NEW q \in Procs, NEW c \in Conversations, Mine(q, c)', ~Mine(q, c)
      PROVE  q = p /\ l \in {Update(Row(c)), Exclusive(Row(c))}
    <2>1. PICK k \in {Update(Row(c)), Exclusive(Row(c))} : k \in held'[q] BY <1>7 DEF Mine
    <2>2. k \notin held[q] BY <1>7 DEF Mine
    <2> QED BY <2>1, <2>2, <1>1
<1>8. \A q \in Procs, c \in Conversations : Mine(q, c) => Mine(q, c)'
    BY <1>1 DEF Mine
<1>9. Drafts'
    <2>1. \A c \in Conversations : Later(conv[c], draft[c])'
        BY <1>0 DEF Inv, Drafts, Later, Grows
    <2>2. ASSUME NEW c \in Conversations, \A q \in Procs : ~Mine(q, c)'
          PROVE  draft'[c] = conv'[c]
        <3>1. \A q \in Procs : ~Mine(q, c) BY <2>2, <1>8
        <3> QED BY <3>1, <1>0 DEF Inv, Drafts
    <2>3. ASSUME NEW a \in Agents, NEW c \in Conversations, Mine(a, c)'
          PROVE  draft'[c] = conv'[c]
        <3>1. a \in Procs BY DEF Procs
        <3>2. CASE Mine(a, c) BY <3>2, <1>0 DEF Inv, Drafts
        <3>3. CASE ~Mine(a, c)
            <4>1. a = p /\ l \in {Update(Row(c)), Exclusive(Row(c))} BY <2>3, <3>1, <3>3, <1>7
            <4>2. \A q \in Procs \ {p} : ~Mine(q, c)
                <5> SUFFICES ASSUME NEW q \in Procs \ {p}, Mine(q, c) PROVE FALSE OBVIOUS
                <5>1. PICK k \in {Update(Row(c)), Exclusive(Row(c))} : k \in held[q] BY DEF Mine
                <5>2. Conflict(k, l) BY <4>1, Excluding
                <5> QED BY <5>1, <5>2, <1>3
            <4>3. \A q \in Procs : ~Mine(q, c) BY <4>1, <4>2, <3>3
            <4> QED BY <4>3, <1>0 DEF Inv, Drafts
        <3> QED BY <3>2, <3>3
    <2> QED BY <2>1, <2>2, <2>3 DEF Drafts
<1>10. Pages' BY <1>0 DEF Inv, Pages, Later, Grows
<1>11. NoteReached'
    <2> SUFFICES ASSUME NEW a \in Agents,
                        \/ Exclusive(Note) \in held'[a]
                        \/ \E n \in DOMAIN todo'[a] : todo'[a][n] = Exclusive(Note)
                 PROVE  (Mine(a, Desk[a]) /\ InReach(a))'
        BY DEF NoteReached
    <2>1. a \in Procs /\ Desk[a] \in Conversations BY ConversationAssumption DEF Procs
    <2>2. \/ Exclusive(Note) \in held[a]
          \/ \E n \in DOMAIN todo[a] : todo[a][n] = Exclusive(Note)
        <3>1. CASE a # p BY <3>1, <2>1, <1>1, <1>2
        <3>2. CASE a = p
            <4>1. todo[a] \in Seq(Lock) /\ todo[a] # <<>> BY <3>2, <1>0 DEF Inv, Shape
            <4>2. l = todo[a][1] /\ 1 \in DOMAIN todo[a] BY <3>2, <4>1 DEF l
            <4>3. \A n \in DOMAIN Tail(todo[a]) :
                     n + 1 \in DOMAIN todo[a] /\ Tail(todo[a])[n] = todo[a][n + 1]
                BY <4>1
            <4>4. CASE Exclusive(Note) \in held'[a]
                BY <4>4, <3>2, <2>1, <1>1, <4>2
            <4>5. CASE \E n \in DOMAIN todo'[a] : todo'[a][n] = Exclusive(Note)
                <5>1. todo'[a] = Tail(todo[a]) BY <3>2, <2>1, <1>2
                <5> QED BY <5>1, <4>5, <4>3
            <4> QED BY <4>4, <4>5
        <3> QED BY <3>1, <3>2
    <2>3. Mine(a, Desk[a]) /\ InReach(a) BY <2>2 DEF Inv, NoteReached
    <2>4. Mine(a, Desk[a])' BY <2>1, <2>3, <1>1 DEF Mine
    <2> QED BY <2>3, <2>4, <1>0 DEF InReach
<1>12. Counted' BY <1>0 DEF Inv, Counted
<1> QED BY <1>4, <1>5, <1>6, <1>9, <1>10, <1>11, <1>12 DEF Inv

\* p, which is to go on with `what', has to wait for other locks; it may have
\* rewritten drafts of its own.
Turned(p, what, locks) ==
    /\ doing' = [q \in Procs |-> IF q = p THEN what ELSE doing[q]]
    /\ todo' = [q \in Procs |-> IF q = p THEN locks ELSE todo[q]]
    /\ held' = held /\ conv' = conv /\ note' = note /\ now' = now
    /\ \A c \in Conversations :
           \/ draft'[c] = draft[c]
           \/ p \in Workers /\ Mine(p, c) /\ Later(draft[c], draft'[c]) /\ Accounted(draft'[c])

LEMMA TurnedKeeps ==
    ASSUME Inv, NEW p \in Procs, NEW what, what # "idle", NEW locks, Turned(p, what, locks),
           draft' \in [Conversations -> Thread], seen' \in [Agents -> Page], Places',
           \A a \in Agents : doing'[a] # "idle" =>
               \/ doing[a] # "idle" /\ seen'[a] = seen[a]
               \/ seen'[a] = [row |-> conv[Desk[a]], note |-> note],
           p \in Agents =>
               /\ locks \in Seq(Lock)
               /\ (\E n \in DOMAIN locks : locks[n] = Exclusive(Note)) =>
                      Mine(p, Desk[p]) /\ InReach(p)
    PROVE  Inv'
<1>0. /\ \A q \in Procs : doing'[q] = IF q = p THEN what ELSE doing[q]
      /\ \A q \in Procs : todo'[q] = IF q = p THEN locks ELSE todo[q]
      /\ held' = held /\ conv' = conv /\ note' = note /\ now' = now
    BY DEF Turned
<1>1. Shape'
    <2>1. \A a \in Agents : a \in Procs BY DEF Procs
    <2>2. ASSUME NEW a \in Agents PROVE todo'[a] \in Seq(Lock)
        <3>1. CASE a = p BY <3>1, <1>0, <2>1
        <3>2. CASE a # p BY <3>2, <1>0, <2>1 DEF Inv, Shape
        <3> QED BY <3>1, <3>2
    <2>3. /\ doing' = [q \in Procs |-> doing'[q]] /\ todo' = [q \in Procs |-> todo'[q]]
          /\ held' = [q \in Procs |-> held'[q]]
        BY DEF Turned, Inv, Shape
    <2> QED BY <2>2, <2>3, <1>0 DEF Inv, Shape
<1>2. LocksApart'
    BY <1>0 DEF Inv, LocksApart
<1>3. \A q \in Procs, c \in Conversations : Mine(q, c)' <=> Mine(q, c)
    BY <1>0 DEF Mine
<1>4. \A c \in Conversations :
          \/ draft'[c] = draft[c]
          \/ p \in Workers /\ Mine(p, c) /\ Later(draft[c], draft'[c]) /\ Accounted(draft'[c])
    BY DEF Turned
<1>5. Drafts'
    <2>1. ASSUME NEW c \in Conversations PROVE Later(conv'[c], draft'[c])
        <3>1. Later(conv[c], draft[c]) BY DEF Inv, Drafts
        <3>2. draft[c] \in Thread /\ conv[c] \in Thread /\ draft'[c] \in Thread BY DEF Inv, Shape
        <3>3. CASE draft'[c] = draft[c] BY <3>1, <3>3, <1>0
        <3>4. CASE Later(draft[c], draft'[c]) BY <3>1, <3>2, <3>4, <1>0, Growing
        <3> QED BY <3>3, <3>4, <1>4
    <2>2. ASSUME NEW c \in Conversations, \A q \in Procs : ~Mine(q, c)'
          PROVE  draft'[c] = conv'[c]
        <3>1. \A q \in Procs : ~Mine(q, c) BY <2>2, <1>3
        <3>2. draft'[c] = draft[c] BY <3>1, <1>4
        <3> QED BY <3>1, <3>2, <1>0 DEF Inv, Drafts
    <2>3. ASSUME NEW a \in Agents, NEW c \in Conversations, Mine(a, c)'
          PROVE  draft'[c] = conv'[c]
        <3>1. a \in Procs BY DEF Procs
        <3>2. Mine(a, c) BY <2>3, <3>1, <1>3
        <3>3. p \in Workers => a # p BY ConversationAssumption
        <3>4. p \in Workers => ~Mine(p, c) BY <3>1, <3>2, <3>3, Alone DEF Inv
        <3>5. draft'[c] = draft[c] BY <3>4, <1>4
        <3> QED BY <3>2, <3>5, <1>0 DEF Inv, Drafts
    <2>4. \A c \in Conversations : Later(conv[c], draft[c])' BY <2>1 DEF Later, Grows
    <2> QED BY <2>2, <2>3, <2>4 DEF Drafts
<1>6. Pages'
    <2> SUFFICES ASSUME NEW a \in Agents, doing'[a] # "idle"
                 PROVE  /\ Later(seen'[a].row, conv'[Desk[a]])
                        /\ seen'[a].note = note' \/ seen'[a].note.revision < note'.revision
        BY DEF Pages, Later, Grows
    <2>1. CASE doing[a] # "idle" /\ seen'[a] = seen[a] BY <2>1, <1>0 DEF Inv, Pages
    <2>2. CASE seen'[a] = [row |-> conv[Desk[a]], note |-> note] BY <2>2, <1>0 DEF Later
    <2> QED BY <2>1, <2>2
<1>7. NoteReached'
    <2> SUFFICES ASSUME NEW a \in Agents,
                        \/ Exclusive(Note) \in held'[a]
                        \/ \E n \in DOMAIN todo'[a] : todo'[a][n] = Exclusive(Note)
                 PROVE  (Mine(a, Desk[a]) /\ InReach(a))'
        BY DEF NoteReached
    <2>1. a \in Procs /\ Desk[a] \in Conversations BY ConversationAssumption DEF Procs
    <2>2. Mine(a, Desk[a]) /\ InReach(a)
        <3>1. CASE Exclusive(Note) \in held[a] BY <3>1 DEF Inv, NoteReached
        <3>2. CASE \E n \in DOMAIN todo[a] : todo[a][n] = Exclusive(Note)
            BY <3>2 DEF Inv, NoteReached
        <3>3. CASE a = p /\ \E n \in DOMAIN locks : locks[n] = Exclusive(Note) BY <3>3
        <3> QED BY <3>1, <3>2, <3>3, <1>0, <2>1
    <2> QED BY <2>1, <2>2, <1>0 DEF Mine, InReach
<1>8. Counted'
    BY <1>0, <1>4 DEF Inv, Counted
<1> QED BY <1>1, <1>2, <1>5, <1>6, <1>7, <1>8 DEF Inv

LEMMA Staying ==
    ASSUME Inv, event' = event, pos' = pos,
           \A w \in Workers : doing'[w] = "materialize" => doing[w] = "materialize"
    PROVE  Places'
BY DEF Inv, Places

LEMMA StartTurns ==
    ASSUME Inv, NEW p \in Procs, NEW what, NEW locks, Start(p, what, locks),
           UNCHANGED <<conv, draft, note, now>>
    PROVE  /\ Turned(p, what, locks) /\ draft' \in [Conversations -> Thread]
           /\ doing[p] = "idle"
BY DEF Inv, Shape, Start, Turned

LEMMA NeedsTurns ==
    ASSUME Inv, NEW p \in Procs, NEW locks, Needs(p, locks),
           UNCHANGED <<conv, draft, note, now>>
    PROVE  /\ Turned(p, doing[p], locks) /\ draft' \in [Conversations -> Thread]
           /\ doing' = doing
<1>1. /\ doing' = doing /\ held' = held /\ conv' = conv /\ draft' = draft /\ note' = note
      /\ now' = now
    BY DEF Needs
<1>2. doing' = [q \in Procs |-> IF q = p THEN doing[p] ELSE doing[q]] BY <1>1 DEF Inv, Shape
<1>3. todo' = [q \in Procs |-> IF q = p THEN locks ELSE todo[q]] BY DEF Needs, Inv, Shape
<1> QED BY <1>1, <1>2, <1>3 DEF Turned, Inv, Shape

\* A turn of a worker or of the synchronisation.
LEMMA WorkerTurns ==
    ASSUME Inv, NEW p \in Procs, p \notin Agents, NEW what, what # "idle", NEW locks,
           Turned(p, what, locks), draft' \in [Conversations -> Thread], seen' = seen, Places'
    PROVE  Inv'
<1>1. seen' \in [Agents -> Page] BY DEF Inv, Shape
<1>2. ASSUME NEW a \in Agents, doing'[a] # "idle"
      PROVE  doing[a] # "idle" /\ seen'[a] = seen[a]
    BY <1>2 DEF Turned, Procs
<1> QED BY <1>1, <1>2, TurnedKeeps

LEMMA Closed ==
    ASSUME Inv, NEW a \in Agents, Close(a)
    PROVE  seen' \in [Agents -> Page] /\ \A b \in Agents \ {a} : seen'[b] = seen[b]
<1>1. NoPage \in Page
    BY NewIsAccounted DEF NoPage, Page, NoteRow, NewNote
<1> QED BY <1>1 DEF Inv, Shape, Close

LEMMA Forgotten ==
    ASSUME Inv, NEW w \in Workers, Forget(w)
    PROVE  Elsewhere(w)
BY DEF Inv, Places, Forget, Elsewhere

LEMMA Unmoved ==
    ASSUME Inv, NEW p \in Procs, event' = event, pos' = pos
    PROVE  Elsewhere(p)
BY DEF Inv, Places, Elsewhere

LEMMA RollbackKeeps ==
    ASSUME Inv, NEW p \in Procs, Rollback(p), now' = now, Elsewhere(p),
           seen' \in [Agents -> Page], \A b \in Agents \ {p} : seen'[b] = seen[b]
    PROVE  Inv'
<1>1. /\ Settled(p) /\ conv' = conv /\ draft' \in [Conversations -> Thread] /\ note' = note
    BY RollbackSettles
<1>2. Others(p) BY <1>1 DEF Others
<1>3. conv' \in [Conversations -> Thread] /\ note' \in NoteRow BY <1>1 DEF Inv, Shape
<1> QED BY <1>1, <1>2, <1>3, EndKeeps

LEMMA CommitKeeps ==
    ASSUME Inv, NEW p \in Procs, NEW d \in [Conversations -> Thread], Mended(p, d), Commit(p, d),
           now' = now, Elsewhere(p), note' \in NoteRow,
           note' = note \/ note'.revision > note.revision,
           seen' \in [Agents -> Page], \A b \in Agents \ {p} : seen'[b] = seen[b]
    PROVE  Inv'
<1>1. /\ Settled(p)
      /\ conv' \in [Conversations -> Thread] /\ draft' \in [Conversations -> Thread]
    BY CommitSettles
<1>2. Others(p) BY DEF Others
<1> QED BY <1>1, <1>2, EndKeeps

------------------------------------------------------------------------------
(* Agents *)

LEMMA AskKeeps ==
    ASSUME Inv, NEW a \in Agents, NEW what \in Asked, Ask(a, what)
    PROVE  Inv'
<1> DEFINE locks == Anchored(Desk[a])
           page  == [row |-> conv[Desk[a]], note |-> note]
<1>0. a \in Procs /\ Desk[a] \in Conversations BY ConversationAssumption DEF Procs
<1>1. /\ Start(a, what, locks) /\ UNCHANGED <<conv, draft, note, now, event, pos>>
      /\ seen' = [seen EXCEPT ![a] = page]
    BY DEF Ask, dataVars, workVars
<1>2. locks \in Seq(Lock)
    BY <1>0 DEF Anchored, Lock, Share, Exclusive, Rows
<1>3. \A n \in DOMAIN locks : locks[n] # Exclusive(Note)
    <2>1. \A n \in DOMAIN locks : locks[n] \in {Share(Contact(Desk[a])), Share(Phone),
                                               Share(Waba), Exclusive(Row(Desk[a]))}
        BY DEF Anchored
    <2>2. Exclusive(Note) # Exclusive(Row(Desk[a])) BY DEF Exclusive, Note, Row
    <2>3. \A r, s : Share(r) # Exclusive(s) BY DEF Share, Exclusive
    <2> QED BY <2>1, <2>2, <2>3
<1> HIDE DEF locks
<1>4. /\ Turned(a, what, locks) /\ draft' \in [Conversations -> Thread]
    BY <1>0, <1>1, StartTurns
<1>5. page \in Page BY <1>0 DEF Page, Inv, Shape
<1>6. seen' \in [Agents -> Page] BY <1>1, <1>5 DEF Inv, Shape
<1>7. what # "idle" /\ what # "materialize" BY DEF Asked
<1>8. Places'
    <2>1. \A w \in Workers : w \in Procs BY DEF Procs
    <2> QED BY <2>1, <1>1, <1>4, <1>7, Staying DEF Turned
<1>9. ASSUME NEW b \in Agents, doing'[b] # "idle"
      PROVE  \/ doing[b] # "idle" /\ seen'[b] = seen[b]
             \/ seen'[b] = [row |-> conv[Desk[b]], note |-> note]
    <2>1. CASE b = a BY <2>1, <1>1 DEF Inv, Shape
    <2>2. CASE b # a
        <3>1. b \in Procs BY DEF Procs
        <3> QED BY <3>1, <2>2, <1>9, <1>1, <1>4 DEF Turned, Inv, Shape
    <2> QED BY <2>1, <2>2
<1> QED BY <1>0, <1>2, <1>3, <1>4, <1>6, <1>7, <1>8, <1>9, TurnedKeeps

LEMMA Refused ==
    ASSUME Inv, NEW a \in Agents, Rollback(a), Close(a), UNCHANGED workVars, now' = now
    PROVE  Inv'
<1>1. a \in Procs BY DEF Procs
<1>2. Elsewhere(a) BY <1>1, Unmoved DEF workVars
<1> QED BY <1>1, <1>2, Closed, RollbackKeeps

LEMMA ResultsGrow ==
    ASSUME Inv, NEW a \in Agents, NEW u \in Results(a, draft[Desk[a]])
    PROVE  u \in Thread /\ Grows(draft[Desk[a]], u) /\ Accounted(u)
<1> DEFINE r == draft[Desk[a]]
<1>1. Desk[a] \in Conversations /\ Reach[a] \subseteq Teams \cup {None}
    BY ConversationAssumption
<1>2. r \in Thread /\ Accounted(r) /\ now \in Nat BY <1>1 DEF Inv, Shape, Counted
<1>3. \/ \E x \in Patches : u = Patched(r, x)
      \/ \E t \in Reach[a] \cup {None} : u = Assigned(r, t)
    BY DEF Results
<1> HIDE DEF r
<1>4. ASSUME NEW x \in Patches, u = Patched(r, x)
      PROVE  u \in Thread /\ Grows(r, u) /\ Accounted(u)
    BY <1>2, <1>4, PatchGrows
<1>5. ASSUME NEW t \in Reach[a] \cup {None}, u = Assigned(r, t)
      PROVE  u \in Thread /\ Grows(r, u) /\ Accounted(u)
    BY <1>1, <1>2, <1>5, AssignmentGrows
<1>6. u \in Thread /\ Grows(r, u) /\ Accounted(u) BY <1>3, <1>4, <1>5
<1> QED BY <1>6 DEF r

LEMMA ChangeKeeps ==
    ASSUME Inv, NEW a \in Agents, Change(a), now' = now
    PROVE  Inv'
<1> DEFINE c == Desk[a]
<1>0. a \in Procs /\ c \in Conversations BY ConversationAssumption DEF Procs
<1>1. Mine(a, c) /\ Close(a) /\ UNCHANGED workVars BY DEF Change
<1>2. Elsewhere(a) BY <1>0, <1>1, Unmoved DEF workVars
<1>3. CASE Rollback(a) BY <1>1, <1>3, Refused
<1>4. ASSUME NEW u \in Results(a, draft[c]), Commit(a, [draft EXCEPT ![c] = u]), note' = note
      PROVE  Inv'
    <2> DEFINE d == [draft EXCEPT ![c] = u]
    <2>1. u \in Thread /\ Grows(draft[c], u) /\ Accounted(u) BY <1>4, ResultsGrow
    <2>2. d \in [Conversations -> Thread] BY <2>1 DEF Inv, Shape
    <2>3. \A b \in Conversations : d[b] = IF b = c THEN u ELSE draft[b] BY DEF Inv, Shape
    <2>4. Commit(a, d) BY <1>4
    <2> HIDE DEF d
    <2>5. Mended(a, d) BY <2>1, <2>3, <1>1 DEF Mended, Later
    <2>6. note' \in NoteRow BY <1>4 DEF Inv, Shape
    <2> QED BY <2>2, <2>4, <2>5, <2>6, <1>0, <1>1, <1>2, <1>4, Closed, CommitKeeps
<1> QED BY <1>3, <1>4 DEF Change

LEMMA LockNoteKeeps ==
    ASSUME Inv, NEW a \in Agents, LockNote(a), now' = now
    PROVE  Inv'
<1>0. a \in Procs /\ Desk[a] \in Conversations BY ConversationAssumption DEF Procs
<1>1. CASE Rollback(a) /\ Close(a) BY <1>1, Refused DEF LockNote
<1>2. CASE InReach(a) /\ Needs(a, <<Exclusive(Note)>>) /\ UNCHANGED <<dataVars, draft, seen>>
    <2>1. UNCHANGED <<conv, draft, note, now, seen, event, pos>>
        BY <1>2 DEF LockNote, dataVars, workVars
    <2>2. /\ Turned(a, doing[a], <<Exclusive(Note)>>) /\ draft' \in [Conversations -> Thread]
          /\ doing' = doing
        BY <1>0, <1>2, <2>1, NeedsTurns
    <2>3. doing[a] # "idle" /\ Mine(a, Desk[a]) BY DEF LockNote
    <2>4. Places' BY <2>1, <2>2, Staying
    <2>5. <<Exclusive(Note)>> \in Seq(Lock) BY DEF Exclusive, Lock, Rows
    <2>6. seen' \in [Agents -> Page] BY <2>1 DEF Inv, Shape
    <2>7. \A b \in Agents : doing'[b] # "idle" => doing[b] # "idle" /\ seen'[b] = seen[b]
        BY <2>1, <2>2
    <2> QED BY <1>0, <1>2, <2>2, <2>3, <2>4, <2>5, <2>6, <2>7, TurnedKeeps
<1> QED BY <1>1, <1>2 DEF LockNote

LEMMA ChangeNoteKeeps ==
    ASSUME Inv, NEW a \in Agents, ChangeNote(a), now' = now
    PROVE  Inv'
<1>0. a \in Procs BY DEF Procs
<1>1. Close(a) /\ UNCHANGED workVars BY DEF ChangeNote
<1>2. Elsewhere(a) BY <1>0, <1>1, Unmoved DEF workVars
<1>3. CASE Rollback(a) BY <1>1, <1>3, Refused
<1>4. CASE Commit(a, draft) /\ ~Rollback(a)
    <2>1. note' = [body |-> IF doing[a] = "edit" THEN "edited" ELSE "",
                   revision |-> note.revision + 1,
                   redacted |-> IF doing[a] = "edit" THEN "no" ELSE "yes"]
        BY <1>4 DEF ChangeNote
    <2>2. note' \in NoteRow /\ note'.revision > note.revision
        <3> DEFINE n == note.revision + 1
        <3>1. note.revision \in Nat BY DEF Inv, Shape, NoteRow
        <3>2. n \in Nat /\ n > note.revision BY <3>1
        <3> HIDE DEF n
        <3>3. note'.revision = n BY <2>1 DEF n
        <3> QED BY <2>1, <3>2, <3>3 DEF NoteRow, n
    <2>3. draft \in [Conversations -> Thread] /\ Mended(a, draft) BY DEF Inv, Shape, Mended
    <2> QED BY <1>0, <1>1, <1>2, <1>4, <2>2, <2>3, Closed, CommitKeeps
<1> QED BY <1>3, <1>4 DEF ChangeNote

LEMMA RequestKeeps ==
    ASSUME Inv, NEW a \in Agents, Request(a), now' = now
    PROVE  Inv'
<1>1. CASE NotFound(a) BY <1>1, Refused DEF NotFound
<1> QED BY <1>1, ChangeKeeps, LockNoteKeeps, ChangeNoteKeeps DEF Request

------------------------------------------------------------------------------
(* Workers *)

LEMMA WorkersApart == \A w \in Workers : w \in Procs /\ w \notin Agents
BY ConversationAssumption DEF Procs

LEMMA MaterializeKeeps ==
    ASSUME Inv, NEW w \in Workers, Materialize(w)
    PROVE  Inv'
<1>1. Start(w, "materialize", <<>>) /\ UNCHANGED <<conv, draft, note, now, seen>>
    BY DEF Materialize, dataVars
<1>2. Turned(w, "materialize", <<>>) /\ draft' \in [Conversations -> Thread]
    BY <1>1, WorkersApart, StartTurns
<1>3. PICK e \in Events : event' = [event EXCEPT ![w] = e] /\ pos' = [pos EXCEPT ![w] = 1]
    BY DEF Materialize, Claimable
<1>4. Places'
    <2>1. event' = [v \in Workers |-> event'[v]] /\ pos' = [v \in Workers |-> pos'[v]]
        BY <1>3 DEF Inv, Places
    <2>2. ASSUME NEW v \in Workers, doing'[v] = "materialize"
          PROVE  event'[v] \in Events /\ pos'[v] \in Nat \ {0}
        <3>1. CASE v = w BY <3>1, <1>3 DEF Inv, Places
        <3>2. CASE v # w
            BY <3>2, <2>2, <1>2, <1>3, WorkersApart DEF Inv, Places, Turned
        <3> QED BY <3>1, <3>2
    <2> QED BY <2>1, <2>2 DEF Places
<1> QED BY <1>1, <1>2, <1>4, WorkersApart, WorkerTurns

\* Transactions whose locks and statements leave the rows to the end.
LEMMA StartKeeps ==
    ASSUME Inv, NEW p \in Procs, p \notin Agents, NEW what \in Doing \ {"idle", "materialize"},
           NEW locks, Start(p, what, locks), UNCHANGED <<conv, draft, note, now, seen, event, pos>>
    PROVE  Inv'
<1>1. Turned(p, what, locks) /\ draft' \in [Conversations -> Thread] BY StartTurns
<1>2. Places' BY <1>1, WorkersApart, Staying DEF Turned
<1> QED BY <1>1, <1>2, WorkerTurns

LEMMA NeedsKeeps ==
    ASSUME Inv, NEW p \in Procs, p \notin Agents, doing[p] # "idle", NEW locks, Needs(p, locks),
           UNCHANGED <<conv, draft, note, now, seen, event, pos>>
    PROVE  Inv'
<1>1. /\ Turned(p, doing[p], locks) /\ draft' \in [Conversations -> Thread]
      /\ doing' = doing
    BY NeedsTurns
<1>2. Places' BY <1>1, Staying
<1> QED BY <1>1, <1>2, WorkerTurns

\* A worker goes on to the next item of its event.
LEMMA AdvancePlaces ==
    ASSUME Inv, NEW w \in Workers, doing[w] = "materialize", Advance(w), UNCHANGED <<doing, event>>
    PROVE  Places'
<1>1. pos' = [pos EXCEPT ![w] = pos[w] + 1] BY DEF Advance
<1>2. pos[w] \in Nat \ {0} BY DEF Inv, Places
<1>3. pos[w] + 1 \in Nat \ {0} BY <1>2
<1>4. ASSUME NEW v \in Workers, doing'[v] = "materialize"
      PROVE  event'[v] \in Events /\ pos'[v] \in Nat \ {0}
    <2>1. event[v] \in Events /\ pos[v] \in Nat \ {0} BY <1>4 DEF Inv, Places
    <2>2. pos'[v] = IF v = w THEN pos[w] + 1 ELSE pos[v] BY <1>1 DEF Inv, Places
    <2> QED BY <2>1, <2>2, <1>3
<1>5. event' = [v \in Workers |-> event'[v]] /\ pos' = [v \in Workers |-> pos'[v]]
    BY <1>1 DEF Inv, Places
<1> QED BY <1>4, <1>5 DEF Places

LEMMA AdvanceKeeps ==
    ASSUME Inv, NEW w \in Workers, doing[w] = "materialize", Advance(w),
           UNCHANGED <<conv, draft, note, now, seen, event, doing, todo, held>>
    PROVE  Inv'
<1>1. Places' BY AdvancePlaces
<1>2. Turned(w, "materialize", todo[w])
    <2>1. /\ doing' = [q \in Procs |-> IF q = w THEN "materialize" ELSE doing[q]]
          /\ todo' = [q \in Procs |-> IF q = w THEN todo[w] ELSE todo[q]]
        BY DEF Inv, Shape
    <2> QED BY <2>1 DEF Turned
<1>3. draft' \in [Conversations -> Thread] BY DEF Inv, Shape
<1> QED BY <1>1, <1>2, <1>3, WorkersApart, WorkerTurns

LEMMA LockThreadKeeps ==
    ASSUME Inv, NEW w \in Workers, LockThread(w), now' = now
    PROVE  Inv'
<1>1. doing[w] # "idle" BY DEF LockThread, AtItem, Ready
<1>2. PICK locks : Needs(w, locks) BY DEF LockThread
<1>3. UNCHANGED <<conv, draft, note, now, seen, event, pos>>
    BY DEF LockThread, dataVars, workVars
<1> QED BY <1>1, <1>2, <1>3, WorkersApart, NeedsKeeps

LEMMA RecordKeeps ==
    ASSUME Inv, NEW w \in Workers, Record(w), now' = now
    PROVE  Inv'
<1> DEFINE i == NextItem(w)
           c == i.conv
<1>1. /\ doing[w] = "materialize" /\ pos[w] <= Len(ItemsOf[event[w]]) /\ Mine(w, c)
      /\ draft' = [draft EXCEPT ![c] = IF Known(draft[c], i) THEN draft[c]
                                                            ELSE Recorded(draft[c], i)]
      /\ pos' = [pos EXCEPT ![w] = pos[w] + 1]
      /\ UNCHANGED <<conv, note, now, seen, event, doing, todo, held>>
    BY DEF Record, AtItem, Ready, Advance, dataVars, lockVars, Items
<1>2. i \in Item
    <2>1. event[w] \in Events /\ pos[w] \in Nat \ {0} BY <1>1 DEF Inv, Places
    <2>2. ItemsOf[event[w]] \in Seq(Item) BY <2>1, ConversationAssumption
    <2> QED BY <2>1, <2>2, <1>1 DEF NextItem, Items
<1>3. c \in Conversations BY <1>2 DEF Item
<1> HIDE DEF i
<1>4. draft[c] \in Thread /\ Accounted(draft[c]) BY <1>3 DEF Inv, Shape, Counted
<1>5. /\ draft'[c] \in Thread
      /\ draft'[c] = draft[c] \/ (Later(draft[c], draft'[c]) /\ Accounted(draft'[c]))
    <2>1. CASE Known(draft[c], i) BY <2>1, <1>1, <1>3, <1>4 DEF Inv, Shape
    <2>2. CASE ~Known(draft[c], i)
        <3>1. draft'[c] = Recorded(draft[c], i) BY <2>2, <1>1, <1>3 DEF Inv, Shape
        <3> QED BY <3>1, <2>2, <1>2, <1>4, RecordingGrows DEF Later
    <2> QED BY <2>1, <2>2
<1>6. \A b \in Conversations \ {c} : draft'[b] = draft[b] BY <1>1 DEF Inv, Shape
<1>7. draft' \in [Conversations -> Thread] BY <1>1, <1>3, <1>5, <1>6 DEF Inv, Shape
<1>8. Turned(w, "materialize", todo[w])
    <2>1. /\ doing' = [q \in Procs |-> IF q = w THEN "materialize" ELSE doing[q]]
          /\ todo' = [q \in Procs |-> IF q = w THEN todo[w] ELSE todo[q]]
        BY <1>1 DEF Inv, Shape
    <2> QED BY <2>1, <1>1, <1>3, <1>5, <1>6 DEF Turned
<1>9. Places'
    <2>1. Advance(w) BY DEF Record
    <2> QED BY <2>1, <1>1, AdvancePlaces
<1> QED BY <1>1, <1>7, <1>8, <1>9, WorkersApart, WorkerTurns

LEMMA InsertKeeps ==
    ASSUME Inv, NEW w \in Workers, Insert(w), now' = now
    PROVE  Inv'
<1>1. doing[w] = "materialize" /\ UNCHANGED <<conv, draft, note, now, seen, event>>
    BY DEF Insert, AtItem, Ready, dataVars
<1>2. CASE Advance(w) /\ UNCHANGED lockVars BY <1>1, <1>2, AdvanceKeeps DEF lockVars
<1>3. ASSUME NEW locks, Needs(w, locks), UNCHANGED pos PROVE Inv'
    BY <1>1, <1>3, WorkersApart, NeedsKeeps
<1> QED BY <1>2, <1>3 DEF Insert

LEMMA CorrelateKeeps ==
    ASSUME Inv, NEW w \in Workers, Correlate(w), now' = now
    PROVE  Inv'
<1>1. doing[w] = "materialize" /\ UNCHANGED <<conv, draft, note, now, seen, event>>
    BY DEF Correlate, AtItem, Ready, dataVars
<1>2. CASE Advance(w) /\ UNCHANGED lockVars BY <1>1, <1>2, AdvanceKeeps DEF lockVars
<1>3. ASSUME NEW locks, Needs(w, locks), UNCHANGED pos PROVE Inv'
    BY <1>1, <1>3, WorkersApart, NeedsKeeps
<1> QED BY <1>2, <1>3 DEF Correlate

\* The row of a status is no conversation's.
LEMMA ToldKeeps ==
    ASSUME Inv, NEW w \in Workers, Told(w), now' = now
    PROVE  Inv'
<1> DEFINE k == Exclusive(Fact(NextItem(w).message))
<1>1. /\ doing[w] = "materialize" /\ Advance(w)
      /\ UNCHANGED <<conv, draft, note, now, seen, event, doing, todo>>
    BY DEF Told, AtItem, Ready, dataVars
<1>2. held' = [q \in Procs |-> IF q = w THEN held[w] \ {k} ELSE held[q]]
    BY DEF Told, Inv, Shape
<1>3. \A c : k \notin {Update(Row(c)), Exclusive(Row(c))}
    BY DEF Update, Exclusive, Row, Fact
<1> HIDE DEF k
<1>4. /\ \A q \in Procs : held'[q] \subseteq held[q]
      /\ \A a \in Agents : held'[a] = held[a]
    BY <1>2, WorkersApart DEF Procs
<1>5. \A q \in Procs, c \in Conversations : Mine(q, c)' <=> Mine(q, c)
    BY <1>2, <1>3 DEF Mine
<1>6. \A a \in Agents : a \in Procs /\ Desk[a] \in Conversations
    BY ConversationAssumption DEF Procs
<1>7. Shape' BY <1>1, <1>2 DEF Inv, Shape
<1>8. Places' BY <1>1, AdvancePlaces
<1>9. LocksApart' BY <1>1, <1>4 DEF Inv, LocksApart
<1>10. Drafts' BY <1>1, <1>5, <1>6 DEF Inv, Drafts, Later, Grows
<1>11. Pages' BY <1>1 DEF Inv, Pages, Later, Grows
<1>12. NoteReached' BY <1>1, <1>4, <1>5, <1>6 DEF Inv, NoteReached, InReach
<1>13. Counted' BY <1>1 DEF Inv, Counted
<1> QED BY <1>7, <1>8, <1>9, <1>10, <1>11, <1>12, <1>13 DEF Inv

LEMMA GiveUpKeeps ==
    ASSUME Inv, NEW w \in Workers, GiveUp(w), now' = now
    PROVE  Inv'
<1>1. doing[w] # "idle" BY DEF GiveUp, Ready
<1>2. PICK locks : Needs(w, locks) BY DEF GiveUp
<1>3. UNCHANGED <<conv, draft, note, now, seen, event, pos>>
    BY DEF GiveUp, dataVars, workVars
<1> QED BY <1>1, <1>2, <1>3, WorkersApart, NeedsKeeps

\* Ends of a worker's transaction.
LEMMA WorkerRollbacks ==
    ASSUME Inv, NEW p \in Procs, p \notin Agents, Rollback(p), now' = now, seen' = seen,
           Elsewhere(p)
    PROVE  Inv'
<1>1. seen' \in [Agents -> Page] BY DEF Inv, Shape
<1> QED BY <1>1, RollbackKeeps

LEMMA WorkerCommits ==
    ASSUME Inv, NEW w \in Workers, NEW d \in [Conversations -> Thread], Mended(w, d),
           Commit(w, d), now' = now, seen' = seen, note' = note, Elsewhere(w)
    PROVE  Inv'
<1>1. seen' \in [Agents -> Page] /\ note' \in NoteRow BY DEF Inv, Shape
<1> QED BY <1>1, WorkersApart, CommitKeeps

LEMMA MaterializedKeeps ==
    ASSUME Inv, NEW w \in Workers, Materialized(w), now' = now
    PROVE  Inv'
<1>1. Commit(w, draft) /\ note' = note /\ seen' = seen /\ Forget(w) BY DEF Materialized
<1>2. draft \in [Conversations -> Thread] /\ Mended(w, draft) BY DEF Inv, Shape, Mended
<1> QED BY <1>1, <1>2, Forgotten, WorkerCommits

LEMMA SweepKeeps ==
    ASSUME Inv, NEW w \in Workers, Sweep(w), now' = now
    PROVE  Inv'
<1>1. PICK s : todo' = [todo EXCEPT ![w] = [n \in DOMAIN s |-> Update(Row(s[n]))]]
    BY DEF Sweep
<1>2. /\ doing' = [doing EXCEPT ![w] = "wake"]
      /\ UNCHANGED <<conv, draft, note, now, seen, event, pos, held>>
    BY DEF Sweep, dataVars, workVars
<1>3. w \in Procs BY DEF Procs
<1>4. Turned(w, "wake", [n \in DOMAIN s |-> Update(Row(s[n]))])
    BY <1>1, <1>2, <1>3 DEF Turned, Inv, Shape
<1>5. Places' BY <1>2, <1>4, WorkersApart, Staying DEF Turned
<1>6. draft' \in [Conversations -> Thread] BY <1>2 DEF Inv, Shape
<1> QED BY <1>2, <1>4, <1>5, <1>6, WorkersApart, WorkerTurns

LEMMA WakeKeeps ==
    ASSUME Inv, NEW w \in Workers, Wake(w), now' = now
    PROVE  Inv'
<1> DEFINE t == since[w]
           d == [c \in Conversations |-> IF Mine(w, c) THEN Awake(draft[c], t) ELSE draft[c]]
<1>1. Commit(w, d) /\ note' = note /\ seen' = seen /\ Forget(w) BY DEF Wake
<1>2. \A c \in Conversations : draft[c] \in Thread /\ Accounted(draft[c])
    BY DEF Inv, Shape, Counted
<1> HIDE DEF t
<1>3. \A c \in Conversations :
          /\ Awake(draft[c], t) \in Thread
          /\ Later(draft[c], Awake(draft[c], t)) /\ Accounted(Awake(draft[c], t))
    BY <1>2, WakingGrows
<1>4. d \in [Conversations -> Thread] BY <1>2, <1>3
<1>5. Mended(w, d) BY <1>3 DEF Mended
<1> HIDE DEF d
<1> QED BY <1>1, <1>4, <1>5, Forgotten, WorkerCommits

LEMMA LockOutcomeKeeps ==
    ASSUME Inv, NEW w \in Workers, LockOutcome(w), now' = now
    PROVE  Inv'
<1>1. doing[w] # "idle" BY DEF LockOutcome, Ready
<1>2. PICK locks : Needs(w, locks) BY DEF LockOutcome
<1>3. UNCHANGED <<conv, draft, note, now, seen, event, pos>>
    BY DEF LockOutcome, dataVars, workVars
<1> QED BY <1>1, <1>2, <1>3, WorkersApart, NeedsKeeps

\* What an outcome makes of the drafts.
Concluded(w) == [draft EXCEPT ![IntentOf].revision = IF Mine(w, IntentOf) THEN @ + 1 ELSE @]

LEMMA Concluding ==
    ASSUME Inv, NEW w \in Workers
    PROVE  /\ Concluded(w) \in [Conversations -> Thread]
           /\ \A c \in Conversations \ {IntentOf} : Concluded(w)[c] = draft[c]
           /\ ~Mine(w, IntentOf) => Concluded(w)[IntentOf] = draft[IntentOf]
           /\ Mine(w, IntentOf) =>
                 Concluded(w)[IntentOf] = [draft[IntentOf] EXCEPT !.revision = @ + 1]
<1> DEFINE r == draft[IntentOf]
           u == [r EXCEPT !.revision = r.revision + 1]
           d == Concluded(w)
<1>1. IntentOf \in Conversations /\ draft \in [Conversations -> Thread]
    BY ConversationAssumption DEF Inv, Shape
<1>2. r \in Thread BY <1>1
<1>3. u \in Thread BY <1>2 DEF Thread
<1>4. CASE Mine(w, IntentOf)
    <2>1. d = [draft EXCEPT ![IntentOf] = u] BY <1>4, <1>1 DEF Concluded
    <2> HIDE DEF u, d
    <2>2. /\ d \in [Conversations -> Thread] /\ d[IntentOf] = u
          /\ \A c \in Conversations \ {IntentOf} : d[c] = draft[c]
        BY <2>1, <1>1, <1>3
    <2> QED BY <2>2, <1>4 DEF u, d
<1>5. CASE ~Mine(w, IntentOf)
    <2>1. [r EXCEPT !.revision = r.revision] = r BY <1>2 DEF Thread
    <2>2. d = [draft EXCEPT ![IntentOf] = [r EXCEPT !.revision = r.revision]]
        BY <1>5, <1>1 DEF Concluded
    <2>3. d = draft BY <2>1, <2>2, <1>1
    <2> QED BY <2>3, <1>1, <1>5
<1> QED BY <1>4, <1>5

LEMMA ConcludeKeeps ==
    ASSUME Inv, NEW w \in Workers, Conclude(w), now' = now
    PROVE  Inv'
<1>1. UNCHANGED <<seen, event, pos>> BY DEF Conclude, workVars
<1>2. Elsewhere(w) BY <1>1, WorkersApart, Unmoved
<1>3. CASE Rollback(w) BY <1>1, <1>2, <1>3, WorkersApart, WorkerRollbacks
<1>4. CASE Commit(w, Concluded(w)) /\ note' = note
    <2>1. IntentOf \in Conversations BY ConversationAssumption
    <2>2. LET u == [draft[IntentOf] EXCEPT !.revision = @ + 1] IN
          u \in Thread /\ Grows(draft[IntentOf], u) /\ Accounted(u)
        BY <2>1, AcceptanceGrows DEF Inv, Shape, Counted
    <2>3. Mended(w, Concluded(w))
        BY <2>2, Concluding DEF Mended, Later
    <2> QED BY <2>3, <1>1, <1>2, <1>4, Concluding, WorkerCommits
<1> QED BY <1>3, <1>4 DEF Conclude, Concluded

------------------------------------------------------------------------------
(* The whole *)

LEMMA AbandonKeeps ==
    ASSUME Inv, NEW p \in Procs, Abandon(p), now' = now
    PROVE  Inv'
<1>1. Rollback(p) BY DEF Abandon
<1>2. Elsewhere(p)
    BY Forgotten, Unmoved DEF Abandon
<1>3. seen' \in [Agents -> Page] /\ \A b \in Agents \ {p} : seen'[b] = seen[b]
    BY Closed DEF Abandon, Inv, Shape
<1> QED BY <1>1, <1>2, <1>3, RollbackKeeps

LEMMA SyncerApart == Syncer \in Procs /\ Syncer \notin Agents
BY ConversationAssumption DEF Procs

LEMMA AnsweredKeeps ==
    ASSUME Inv, NEW p \in Procs, Answered(p)
    PROVE  Inv'
<1>1. now' = now BY DEF Answered
<1>2. CASE Acquire(p) BY <1>1, <1>2, Acquired
<1>3. CASE DeadlockDetected(p) BY <1>1, <1>3, AbandonKeeps DEF DeadlockDetected
<1>4. CASE p \in Agents /\ Request(p) BY <1>1, <1>4, RequestKeeps
<1>5. CASE p \in Workers /\ Work(p)
    <2>1. CASE Stand(p)
        <3>1. Rollback(p) /\ UNCHANGED <<seen, event, pos>> BY <2>1 DEF Stand, workVars
        <3> QED BY <3>1, <1>1, <1>5, WorkersApart, Unmoved, WorkerRollbacks
    <2> QED BY <2>1, <1>1, <1>5, LockThreadKeeps, RecordKeeps, InsertKeeps, ToldKeeps,
               CorrelateKeeps, MaterializedKeeps, GiveUpKeeps, SweepKeeps, WakeKeeps,
               LockOutcomeKeeps, ConcludeKeeps DEF Work
<1>6. CASE p = Syncer /\ Synchronized
    <2>1. Rollback(p) /\ UNCHANGED <<seen, event, pos>> BY <1>6 DEF Synchronized, workVars
    <2> QED BY <2>1, <1>1, <1>6, SyncerApart, Unmoved, WorkerRollbacks
<1> QED BY <1>2, <1>3, <1>4, <1>5, <1>6 DEF Answered

LEMMA LoopKeeps ==
    ASSUME Inv, NEW w \in Workers, Loop(w)
    PROVE  Inv'
<1>1. CASE Materialize(w) BY <1>1, MaterializeKeeps
<1>2. CASE Recover(w)
    <2>1. PICK locks : Start(w, "settle", locks) BY <1>2 DEF Recover
    <2>2. UNCHANGED <<conv, draft, note, now, seen, event, pos>> BY <1>2 DEF Recover, dataVars
    <2> QED BY <2>1, <2>2, WorkersApart, StartKeeps DEF Doing
<1>3. CASE Authorize(w)
    <2>1. PICK locks : Start(w, "authorize", locks) BY <1>3 DEF Authorize
    <2>2. UNCHANGED <<conv, draft, note, now, seen, event, pos>> BY <1>3 DEF Authorize, dataVars
    <2> QED BY <2>1, <2>2, WorkersApart, StartKeeps DEF Doing
<1>4. CASE Finish(w)
    <2>1. PICK locks : Start(w, "finish", locks) BY <1>4 DEF Finish
    <2>2. UNCHANGED <<conv, draft, note, now, seen, event, pos>> BY <1>4 DEF Finish, dataVars
    <2> QED BY <2>1, <2>2, WorkersApart, StartKeeps DEF Doing
<1> QED BY <1>1, <1>2, <1>3, <1>4 DEF Loop

\* Steps that leave every variable of the invariant as it is, the clock apart.
LEMMA Still ==
    ASSUME Inv, now' \in Nat, UNCHANGED <<conv, draft, note, doing, todo, held, seen, event, pos>>
    PROVE  Inv'
<1> USE DEF Inv
<1>1. Shape' BY DEF Shape
<1>2. Places' BY DEF Places
<1>3. LocksApart' BY DEF LocksApart
<1>4. Drafts' BY DEF Drafts, Mine, Later, Grows
<1>5. Pages' BY DEF Pages, Later, Grows
<1>6. NoteReached' BY DEF NoteReached, Mine, InReach
<1>7. Counted' BY DEF Counted
<1> QED BY <1>1, <1>2, <1>3, <1>4, <1>5, <1>6, <1>7

LEMMA InvStart == Init => Inv
<1> SUFFICES ASSUME Init PROVE Inv OBVIOUS
<1>1. PICK t \in Teams, scene \in Scenes :
          conv = [c \in Conversations |-> IF c \in scene.asleep THEN Snoozed(t) ELSE NewThread(t)]
    BY DEF Init
<1>2. \A c \in Conversations : conv[c] \in Thread /\ Accounted(conv[c])
    BY <1>1, NewIsAccounted
<1>3. NoPage \in Page /\ NewNote \in NoteRow
    BY NewIsAccounted DEF NoPage, Page, NoteRow, NewNote
<1>4. /\ draft = conv /\ note = NewNote /\ now = 0
      /\ doing = [p \in Procs |-> "idle"] /\ todo = [p \in Procs |-> <<>>]
      /\ held = [p \in Procs |-> {}] /\ seen = [a \in Agents |-> NoPage]
      /\ event = [w \in Workers |-> 0] /\ pos = [w \in Workers |-> 0]
    BY DEF Init
<1>5. \A p \in Procs : doing[p] = "idle" /\ held[p] = {} /\ todo[p] = <<>> BY <1>4
<1>6. (\A a \in Agents : a \in Procs) /\ \A w \in Workers : w \in Procs BY DEF Procs
<1>7. Shape
    <2>1. \A a \in Agents : todo[a] \in Seq(Lock)
        <3>1. <<>> \in Seq(Lock) OBVIOUS
        <3> QED BY <3>1, <1>5, <1>6
    <2> QED BY <2>1, <1>1, <1>2, <1>3, <1>4 DEF Shape
<1>8. Places BY <1>4, <1>5, <1>6 DEF Places
<1>9. LocksApart BY <1>5 DEF LocksApart
<1>10. Drafts BY <1>4 DEF Drafts, Later
<1>11. Pages BY <1>5, <1>6 DEF Pages
<1>12. NoteReached BY <1>5, <1>6 DEF NoteReached
<1>13. Counted BY <1>1, <1>2, <1>4 DEF Counted
<1> QED BY <1>7, <1>8, <1>9, <1>10, <1>11, <1>12, <1>13 DEF Inv

LEMMA InvNext == Inv /\ [Next]_vars => Inv'
<1> SUFFICES ASSUME Inv, [Next]_vars PROVE Inv' OBVIOUS
<1>0. now \in Nat BY DEF Inv, Shape
<1>1. CASE UNCHANGED vars
    BY <1>0, <1>1, Still DEF vars, dataVars, lockVars, workVars
<1>2. ASSUME NEW a \in Agents, NEW what \in Asked, Ask(a, what) PROVE Inv'
    BY <1>2, AskKeeps
<1>3. CASE Synchronize
    <2>1. PICK locks : Start(Syncer, "sync", locks) BY <1>3 DEF Synchronize
    <2>2. UNCHANGED <<conv, draft, note, now, seen, event, pos>>
        BY <1>3 DEF Synchronize, dataVars, workVars
    <2> QED BY <2>1, <2>2, SyncerApart, StartKeeps DEF Doing
<1>4. ASSUME NEW p \in Procs, Answered(p) PROVE Inv' BY <1>4, AnsweredKeeps
<1>5. ASSUME NEW w \in Workers, Loop(w) PROVE Inv' BY <1>5, LoopKeeps
<1>6. CASE Tick
    <2>1. now' \in Nat BY <1>0, <1>6 DEF Tick
    <2>2. UNCHANGED <<conv, draft, note, doing, todo, held, seen, event, pos>>
        BY <1>6 DEF Tick, dataVars, lockVars, workVars
    <2> QED BY <2>1, <2>2, Still
<1>7. ASSUME NEW p \in Procs, Fault(p) PROVE Inv'
    BY <1>7, AbandonKeeps DEF Fault
<1>8. Next \/ UNCHANGED vars OBVIOUS
<1> QED BY <1>1, <1>2, <1>3, <1>4, <1>5, <1>6, <1>7, <1>8 DEF Next, Begin

------------------------------------------------------------------------------
(* What an agent changes *)

\* The four parts of Informed for one agent.
Knows(a) ==
    LET row == conv[Desk[a]]
        changes == conv'[Desk[a]] # row IN
    doing[a] # "idle" /\ doing'[a] = "idle" =>
        /\ changes \/ note' # note => row.team \in Reach[a]
        /\ changes /\ doing[a] = "patch" => seen[a].row = row
        /\ changes /\ doing[a] = "assign" => seen[a].row.team = row.team
        /\ note' # note => seen[a].note = note /\ note.redacted = "no"

LEMMA UnchangedKnows ==
    ASSUME NEW a \in Agents, conv' = conv, note' = note
    PROVE  Knows(a)
BY DEF Knows

LEMMA OthersKnow ==
    ASSUME Inv, NEW a \in Agents, NEW p \in Procs, a # p, End(p)
    PROVE  Knows(a)
<1>1. a \in Procs BY DEF Procs
<1>2. doing'[a] = doing[a] BY <1>1, Ended
<1> QED BY <1>2 DEF Knows

LEMMA ChangeKnows ==
    ASSUME Inv, NEW a \in Agents, Change(a)
    PROVE  Knows(a)
<1> DEFINE c == Desk[a]
           row == conv[c]
<1>0. a \in Procs /\ c \in Conversations BY ConversationAssumption DEF Procs
<1>1. CASE Rollback(a)
    BY <1>1, UnchangedKnows DEF Rollback, dataVars
<1>2. CASE InReach(a) /\ Current(a) /\ note' = note
    <2>1. Mine(a, c) /\ doing[a] \in {"patch", "assign"} BY DEF Change
    <2>2. draft[c] = row BY <2>1, <1>0 DEF Inv, Drafts
    <2>3. Later(seen[a].row, row) BY <2>1, <1>0 DEF Inv, Pages
    <2>4. seen[a].row \in Thread /\ row \in Thread BY <1>0 DEF Inv, Shape, Page
    <2>5. row.team \in Reach[a] BY <1>2 DEF InReach
    <2>6. doing[a] = "patch" => seen[a].row = row
        <3> SUFFICES ASSUME doing[a] = "patch" PROVE seen[a].row = row OBVIOUS
        <3>1. seen[a].row.revision = row.revision BY <1>2, <2>2 DEF Current
        <3>2. row.revision \in Nat BY <2>4 DEF Thread
        <3> QED BY <3>1, <3>2, <2>3 DEF Later, Grows
    <2>7. doing[a] = "assign" => seen[a].row.team = row.team
        <3> SUFFICES ASSUME doing[a] = "assign" PROVE seen[a].row.team = row.team OBVIOUS
        <3>1. seen[a].row.assignment = row.assignment BY <1>2, <2>2 DEF Current
        <3> QED BY <3>1, <2>3 DEF Later, Grows
    <2> QED BY <1>2, <2>5, <2>6, <2>7 DEF Knows
<1> QED BY <1>1, <1>2 DEF Change

LEMMA ChangeNoteKnows ==
    ASSUME Inv, NEW a \in Agents, ChangeNote(a)
    PROVE  Knows(a)
<1>0. a \in Procs /\ Desk[a] \in Conversations BY ConversationAssumption DEF Procs
<1>1. CASE Rollback(a)
    BY <1>1, UnchangedKnows DEF Rollback, dataVars
<1>2. CASE Editable(a)
    <2>1. doing[a] \in {"edit", "redact"} /\ Exclusive(Note) \in held[a] BY DEF ChangeNote
    <2>2. conv[Desk[a]].team \in Reach[a] BY <2>1 DEF Inv, NoteReached, InReach
    <2>3. seen[a].note.revision = note.revision /\ note.redacted = "no" BY <1>2 DEF Editable
    <2>4. seen[a].note = note \/ seen[a].note.revision < note.revision
        BY <2>1, <1>0 DEF Inv, Pages
    <2>5. note.revision \in Nat BY DEF Inv, Shape, NoteRow
    <2>6. seen[a].note = note BY <2>3, <2>4, <2>5
    <2> QED BY <2>1, <2>2, <2>3, <2>6 DEF Knows
<1> QED BY <1>1, <1>2 DEF ChangeNote

LEMMA RequestKnows ==
    ASSUME Inv, NEW a \in Agents, Request(a)
    PROVE  Knows(a)
<1>1. CASE NotFound(a) BY <1>1, UnchangedKnows DEF NotFound, Rollback, dataVars
<1>2. CASE LockNote(a) BY <1>2, UnchangedKnows DEF LockNote, Rollback, dataVars
<1> QED BY <1>1, <1>2, ChangeKnows, ChangeNoteKnows DEF Request

LEMMA AnsweredKnows ==
    ASSUME Inv, NEW a \in Agents, NEW p \in Procs, Answered(p)
    PROVE  Knows(a)
<1>1. CASE Acquire(p) BY <1>1, UnchangedKnows DEF Acquire, dataVars
<1>2. CASE DeadlockDetected(p)
    BY <1>2, UnchangedKnows DEF DeadlockDetected, Abandon, Rollback, dataVars
<1>3. CASE p \in Agents /\ Request(p)
    <2>1. CASE p = a BY <2>1, <1>3, RequestKnows
    <2>2. CASE p # a
        <3>1. CASE End(p) BY <3>1, <2>2, OthersKnow
        <3>2. CASE ~End(p)
            <4>1. conv' = conv /\ note' = note
                BY <3>2, <1>3 DEF Request, NotFound, Change, LockNote, ChangeNote, Commit,
                                  Rollback, dataVars
            <4> QED BY <4>1, UnchangedKnows
        <3> QED BY <3>1, <3>2
    <2> QED BY <2>1, <2>2
<1>4. CASE p \in Workers /\ Work(p)
    <2>1. a # p BY <1>4, ConversationAssumption
    <2>2. CASE End(p) BY <2>1, <2>2, OthersKnow
    <2>3. CASE ~End(p)
        <3>1. conv' = conv /\ note' = note
            BY <2>3, <1>4 DEF Work, LockThread, Record, Insert, Told, Correlate, Materialized,
                              GiveUp, Sweep, Wake, Stand, LockOutcome, Conclude, Commit, Rollback,
                              dataVars
        <3> QED BY <3>1, UnchangedKnows
    <2> QED BY <2>2, <2>3
<1>5. CASE p = Syncer /\ Synchronized
    BY <1>5, UnchangedKnows DEF Synchronized, Rollback, dataVars
<1> QED BY <1>1, <1>2, <1>3, <1>4, <1>5 DEF Answered

LEMMA StepsAreInformed == Inv /\ [Next]_vars => Informed
<1> SUFFICES ASSUME Inv, [Next]_vars, NEW a \in Agents PROVE Knows(a)
    BY DEF Informed, Knows
<1>1. CASE UNCHANGED vars BY <1>1, UnchangedKnows DEF vars, dataVars
<1>2. CASE Begin BY <1>2, UnchangedKnows DEF Begin, Ask, Synchronize, dataVars
<1>3. ASSUME NEW p \in Procs, Answered(p) PROVE Knows(a) BY <1>3, AnsweredKnows
<1>4. CASE Tick BY <1>4, UnchangedKnows DEF Tick, dataVars
<1>5. ASSUME NEW w \in Workers, Loop(w) PROVE Knows(a)
    BY <1>5, UnchangedKnows DEF Loop, Authorize, Finish, Materialize, Recover, dataVars
<1>6. ASSUME NEW p \in Procs, Fault(p) PROVE Knows(a)
    BY <1>6, UnchangedKnows DEF Fault, Abandon, Rollback, dataVars
<1>7. Next \/ UNCHANGED vars OBVIOUS
<1> QED BY <1>1, <1>2, <1>3, <1>4, <1>5, <1>6, <1>7 DEF Next

------------------------------------------------------------------------------
(* Why a snooze ends *)

\* A draft is its row or has more inbound messages, and no worker's now() is to come.
Ahead == \A c \in Conversations : draft[c] = conv[c] \/ draft[c].sequence > conv[c].sequence
Ages  == /\ since = [w \in Workers |-> since[w]]
         /\ \A w \in Workers : since[w] \in Nat /\ since[w] <= now

\* What a step does with a row and its draft.
Waiting(c) == /\ conv'[c] = conv[c]
              /\ \/ draft'[c] \in {draft[c], conv[c]}
                 \/ draft'[c].sequence > draft[c].sequence
Patching(c) == \E a \in Agents : Desk[a] = c /\ doing[a] = "patch" /\ doing'[a] = "idle"
Ending(c)  == /\ conv'[c] = draft'[c]
              /\ \/ Patching(c)
                 \/ /\ draft'[c].sequence = draft[c].sequence
                    /\ draft'[c].status = draft[c].status \/ draft[c].until <= now
Fate(c) == Waiting(c) \/ Ending(c)

\* The body of SnoozeEndsForCause for one conversation.
Caused(c) ==
    conv[c].status = "SNOOZED" /\ conv'[c].status # "SNOOZED" =>
        \/ conv'[c].sequence > conv[c].sequence
        \/ conv[c].until <= now
        \/ \E a \in Agents : Desk[a] = c /\ doing[a] = "patch" /\ doing'[a] = "idle"

LEMMA FateDecides ==
    ASSUME Inv, Inv', Ahead, NEW c \in Conversations, Fate(c)
    PROVE  /\ Caused(c)
           /\ draft'[c] = conv'[c] \/ draft'[c].sequence > conv'[c].sequence
<1>1. /\ conv[c].sequence \in Nat /\ draft[c].sequence \in Nat
      /\ conv'[c].sequence \in Nat /\ draft'[c].sequence \in Nat
    BY DEF Inv, Shape, Thread
<1>2. CASE Waiting(c) BY <1>1, <1>2 DEF Ahead, Waiting, Caused
<1>3. CASE Ending(c) BY <1>1, <1>3 DEF Ahead, Ending, Patching, Caused
<1> QED BY <1>2, <1>3 DEF Fate

LEMMA RollbackFate ==
    ASSUME Inv, NEW p \in Procs, Rollback(p), NEW c \in Conversations
    PROVE  Fate(c)
BY DEF Inv, Shape, Rollback, dataVars, Fate, Waiting

LEMMA CommitFate ==
    ASSUME Inv, NEW p \in Procs, NEW d, Commit(p, d), NEW c \in Conversations,
           \/ d[c] = draft[c]
           \/ /\ Mine(p, c)
              /\ \/ Patching(c)
                 \/ /\ d[c].sequence = draft[c].sequence
                    /\ d[c].status = draft[c].status \/ draft[c].until <= now
    PROVE  Fate(c)
<1>1. conv'[c] = (IF Mine(p, c) THEN d[c] ELSE conv[c]) /\ draft'[c] = d[c] BY DEF Commit
<1> QED BY <1>1 DEF Fate, Waiting, Ending

LEMMA RestFate ==
    ASSUME UNCHANGED <<conv, draft>>, NEW c \in Conversations
    PROVE  Fate(c)
BY DEF Fate, Waiting

LEMMA ChangeFate ==
    ASSUME Inv, NEW a \in Agents, Change(a), NEW c \in Conversations
    PROVE  Fate(c)
<1>0. a \in Procs /\ Desk[a] \in Conversations BY ConversationAssumption DEF Procs
<1>1. CASE Rollback(a) BY <1>0, <1>1, RollbackFate
<1>2. ASSUME NEW u \in Results(a, draft[Desk[a]]), Commit(a, [draft EXCEPT ![Desk[a]] = u])
      PROVE  Fate(c)
    <2> DEFINE d == [draft EXCEPT ![Desk[a]] = u]
    <2>1. d[c] = IF c = Desk[a] THEN u ELSE draft[c] BY DEF Inv, Shape
    <2>2. Commit(a, d) BY <1>2
    <2>3. Mine(a, Desk[a]) /\ doing[a] \in {"patch", "assign"} BY DEF Change
    <2>4. doing'[a] = "idle" BY <1>0, <2>2, Ended DEF Commit
    <2>5. doing[a] = "patch" /\ c = Desk[a] => Patching(c) BY <2>4 DEF Patching
    <2>6. doing[a] = "assign" =>
              u.sequence = draft[Desk[a]].sequence /\ u.status = draft[Desk[a]].status
        <3>1. draft[Desk[a]] \in Thread BY <1>0 DEF Inv, Shape
        <3> QED BY <3>1 DEF Results, Assigned, Thread
    <2> HIDE DEF d
    <2> QED BY <1>0, <2>1, <2>2, <2>3, <2>5, <2>6, CommitFate
<1> QED BY <1>1, <1>2 DEF Change

LEMMA RequestFate ==
    ASSUME Inv, NEW a \in Agents, Request(a), NEW c \in Conversations
    PROVE  Fate(c)
<1>0. a \in Procs BY DEF Procs
<1>1. CASE Rollback(a) BY <1>0, <1>1, RollbackFate
<1>2. CASE Commit(a, draft) BY <1>0, <1>2, CommitFate
<1>3. CASE LockNote(a) /\ ~Rollback(a) BY <1>3, RestFate DEF LockNote, dataVars
<1>4. CASE Change(a) BY <1>4, ChangeFate
<1> QED BY <1>1, <1>2, <1>3, <1>4 DEF Request, NotFound, ChangeNote

LEMMA RecordFate ==
    ASSUME Inv, NEW w \in Workers, Record(w), NEW c \in Conversations
    PROVE  Fate(c)
<1> DEFINE i == NextItem(w)
<1>1. /\ draft' = [draft EXCEPT ![i.conv] = IF Known(draft[i.conv], i) THEN draft[i.conv]
                                                                   ELSE Recorded(draft[i.conv], i)]
      /\ conv' = conv
    BY DEF Record, dataVars
<1> HIDE DEF i
<1>2. CASE draft'[c] = draft[c] BY <1>1, <1>2 DEF Fate, Waiting
<1>3. CASE draft'[c] # draft[c]
    <2>1. draft'[c] = Recorded(draft[c], i) BY <1>1, <1>3 DEF Inv, Shape
    <2>2. draft[c] \in Thread BY DEF Inv, Shape
    <2>3. draft'[c].sequence = draft[c].sequence + 1 BY <2>1, <2>2 DEF Recorded, Thread
    <2>4. draft[c].sequence \in Nat BY <2>2 DEF Thread
    <2> QED BY <1>1, <2>3, <2>4 DEF Fate, Waiting
<1> QED BY <1>2, <1>3

LEMMA WakeFate ==
    ASSUME Inv, Ages, NEW w \in Workers, Wake(w), NEW c \in Conversations
    PROVE  Fate(c)
<1> DEFINE t == since[w]
           r == draft[c]
           d == [b \in Conversations |-> IF Mine(w, b) THEN Awake(draft[b], t) ELSE draft[b]]
<1>1. Commit(w, d) BY DEF Wake
<1>2. d[c] = IF Mine(w, c) THEN Awake(r, t) ELSE r OBVIOUS
<1>3. r \in Thread /\ t \in Nat /\ t <= now /\ now \in Nat BY DEF Inv, Shape, Ages
<1>4. r.until \in Nat BY <1>3 DEF Thread
<1> HIDE DEF d, t, r
<1>5. CASE Due(r, t)
    <2>1. Awake(r, t).sequence = r.sequence BY <1>3, <1>5 DEF Awake, Thread
    <2>2. r.until <= now BY <1>3, <1>4, <1>5 DEF Due
    <2> QED BY <1>1, <1>2, <2>1, <2>2, WorkersApart, CommitFate DEF r
<1>6. CASE ~Due(r, t)
    <2>1. d[c] = r BY <1>2, <1>6 DEF Awake
    <2> QED BY <1>1, <2>1, WorkersApart, CommitFate DEF r
<1> QED BY <1>5, <1>6

LEMMA ConcludeFate ==
    ASSUME Inv, NEW w \in Workers, Conclude(w), NEW c \in Conversations
    PROVE  Fate(c)
<1>1. CASE Rollback(w) BY <1>1, WorkersApart, RollbackFate
<1>2. CASE Commit(w, Concluded(w))
    <2>1. draft[IntentOf] \in Thread BY ConversationAssumption DEF Inv, Shape
    <2> DEFINE u == [draft[IntentOf] EXCEPT !.revision = @ + 1]
               d == Concluded(w)
    <2>2. u.sequence = draft[IntentOf].sequence /\ u.status = draft[IntentOf].status
        BY <2>1 DEF Thread
    <2>3. \/ d[c] = draft[c]
          \/ Mine(w, c) /\ c = IntentOf /\ d[c] = u
        BY Concluding
    <2>4. Commit(w, d) BY <1>2
    <2> HIDE DEF u, d
    <2>5. \/ d[c] = draft[c]
          \/ Mine(w, c) /\ d[c].sequence = draft[c].sequence /\ d[c].status = draft[c].status
        BY <2>2, <2>3
    <2> QED BY <2>4, <2>5, WorkersApart, CommitFate
<1> QED BY <1>1, <1>2 DEF Conclude, Concluded

LEMMA AnsweredFate ==
    ASSUME Inv, Ages, NEW p \in Procs, Answered(p), NEW c \in Conversations
    PROVE  Fate(c)
<1>1. CASE UNCHANGED <<dataVars, draft>> BY <1>1, RestFate DEF dataVars
<1>2. CASE Rollback(p) BY <1>2, RollbackFate
<1>3. CASE p \in Agents /\ Request(p) BY <1>3, RequestFate
<1>4. CASE p \in Workers /\ Work(p)
    <2>1. CASE Materialized(p) BY <2>1, CommitFate DEF Materialized
    <2> QED BY <2>1, <1>1, <1>2, <1>4, RecordFate, WakeFate, ConcludeFate
            DEF Work, LockThread, Insert, Told, Correlate, GiveUp, Sweep, Stand, LockOutcome
<1> QED BY <1>1, <1>2, <1>3, <1>4
        DEF Answered, Acquire, DeadlockDetected, Abandon, Synchronized

LEMMA StepFate ==
    ASSUME Inv, Ages, [Next]_vars, NEW c \in Conversations
    PROVE  Fate(c)
<1>1. CASE UNCHANGED vars BY <1>1, RestFate DEF vars, dataVars
<1>2. CASE Begin BY <1>2, RestFate DEF Begin, Ask, Synchronize, dataVars
<1>3. ASSUME NEW p \in Procs, Answered(p) PROVE Fate(c) BY <1>3, AnsweredFate
<1>4. CASE Tick BY <1>4, RestFate DEF Tick, dataVars
<1>5. ASSUME NEW w \in Workers, Loop(w) PROVE Fate(c)
    BY <1>5, RestFate DEF Loop, Authorize, Finish, Materialize, Recover, dataVars
<1>6. ASSUME NEW p \in Procs, Fault(p) PROVE Fate(c)
    BY <1>6, RollbackFate DEF Fault, Abandon
<1>7. Next \/ UNCHANGED vars OBVIOUS
<1> QED BY <1>1, <1>2, <1>3, <1>4, <1>5, <1>6, <1>7 DEF Next

LEMMA AgesNext ==
    ASSUME Inv, Ages, [Next]_vars
    PROVE  Ages'
<1>0. now \in Nat BY DEF Inv, Shape
<1>1. ASSUME NEW w \in Workers, Forget(w), now' = now PROVE Ages'
    BY <1>0, <1>1 DEF Ages, Forget
<1>2. CASE UNCHANGED since /\ (now' = now \/ now' = now + 1) BY <1>0, <1>2 DEF Ages
<1>3. CASE UNCHANGED vars BY <1>2, <1>3 DEF vars, workVars
<1>4. CASE Begin BY <1>2, <1>4 DEF Begin, Ask, Synchronize, workVars
<1>5. ASSUME NEW p \in Procs, Answered(p) PROVE Ages'
    <2>1. CASE UNCHANGED since BY <2>1, <1>2, <1>5 DEF Answered
    <2>2. CASE p \in Workers /\ Forget(p) BY <2>2, <1>1, <1>5 DEF Answered
    <2>3. UNCHANGED since \/ (p \in Workers /\ Forget(p))
        <3>1. CASE Acquire(p) BY <3>1 DEF Acquire, workVars
        <3>2. CASE DeadlockDetected(p) BY <3>2 DEF DeadlockDetected, Abandon
        <3>3. CASE p \in Agents /\ Request(p)
            BY <3>3 DEF Request, NotFound, Change, LockNote, ChangeNote, workVars
        <3>4. CASE p \in Workers /\ Work(p)
            BY <3>4 DEF Work, LockThread, Record, Insert, Told, Correlate, Materialized, GiveUp,
                        Sweep, Wake, Stand, LockOutcome, Conclude, workVars
        <3>5. CASE p = Syncer /\ Synchronized BY <3>5 DEF Synchronized, workVars
        <3> QED BY <3>1, <3>2, <3>3, <3>4, <3>5, <1>5 DEF Answered
    <2> QED BY <2>1, <2>2, <2>3
<1>6. CASE Tick BY <1>2, <1>6 DEF Tick, workVars
<1>7. ASSUME NEW w \in Workers, Loop(w) PROVE Ages'
    <2>1. CASE Recover(w) BY <1>0, <2>1 DEF Recover, Ages
    <2> QED BY <2>1, <1>2, <1>7 DEF Loop, Authorize, Finish, Materialize
<1>8. ASSUME NEW p \in Procs, Fault(p) PROVE Ages'
    BY <1>1, <1>2, <1>8 DEF Fault, Abandon
<1>9. Next \/ UNCHANGED vars OBVIOUS
<1> QED BY <1>3, <1>4, <1>5, <1>6, <1>7, <1>8, <1>9 DEF Next

------------------------------------------------------------------------------
(* Who waits for whom *)

\* The locks of a transaction in the order in which it takes them.
RequestRoute(c) == <<Share(Contact(c)), Share(Phone), Share(Waba), Exclusive(Row(c)),
                     Exclusive(Note)>>
AuthorizeRoute == <<Share(Contact(IntentOf)), Share(Phone), Share(Waba),
                    Exclusive(Row(IntentOf)), Exclusive(Intent)>>
AcceptRoute == <<Update(Intent), Update(Sent(IntentOf)), Update(Row(IntentOf))>>
TellRoute   == <<Update(Intent), Update(Sent(IntentOf)), KeyShare(Row(IntentOf))>>

Taken(L, n)   == {L[m] : m \in 1..n}
Rest(L, n, k) == [m \in 1..(k - n) |-> L[n + m]]

\* h are the first locks of L and t the next, of those that are decided on, at least l
\* and at most u.
OnRoute(L, l, u, t, h) ==
    \E n, k \in 0..5 : n <= k /\ l <= k /\ k <= u /\ h = Taken(L, n) /\ t = Rest(L, n, k)

ThreadLocks ==
    {Update(Contact(c)) : c \in Conversations} \cup {Exclusive(Row(c)) : c \in Conversations}
    \cup {KeyShare(Row(c)) : c \in Conversations} \cup {Exclusive(Sent(c)) : c \in Conversations}
    \cup {Exclusive(Fact(m)) : m \in Messages}

\* What a materialization wants, and what that says of what it holds.
Materializing(t, h) ==
    /\ h \subseteq ThreadLocks
    /\ \A c \in Conversations : Exclusive(Row(c)) \in h => Update(Contact(c)) \in h
    /\ \A c \in Conversations : Exclusive(Sent(c)) \in h =>
           \/ Exclusive(Row(c)) \in h \/ KeyShare(Row(c)) \in h
           \/ t = <<KeyShare(Row(c))>>
    /\ \/ t = <<>>
       \/ \E m \in Messages : t = <<Exclusive(Fact(m))>>
       \/ \E c \in Conversations :
             \/ t = <<Update(Contact(c)), Exclusive(Row(c))>>
             \/ t = <<Exclusive(Row(c))>> /\ Update(Contact(c)) \in h
             \/ t = <<Exclusive(Sent(c)), KeyShare(Row(c))>>
             \/ t = <<Exclusive(Sent(c))>> /\ Exclusive(Row(c)) \in h
             \/ t = <<KeyShare(Row(c))>>

\* What a process may hold and want, by what it does.  Of a worker that wakes
\* conversations nothing is said, nor of a synchronisation.
Lawful(p, d, t, h) ==
    \/ d = "idle" /\ t = <<>> /\ h = {}
    \/ p \in Agents /\ d \in Asked /\ OnRoute(RequestRoute(Desk[p]), 4, 5, t, h)
    \/ p \in Workers /\ d = "authorize" /\ OnRoute(AuthorizeRoute, 5, 5, t, h)
    \/ p \in Workers /\ d = "finish" /\ OnRoute(AcceptRoute, 1, 3, t, h)
    \/ p \in Workers /\ d = "finish" /\ OnRoute(TellRoute, 1, 3, t, h)
    \/ p \in Workers /\ d = "settle" /\ OnRoute(TellRoute, 0, 3, t, h)
    \/ p \in Workers /\ d = "materialize" /\ Materializing(t, h)
    \/ p \in Workers /\ d = "wake"
    \/ p = Syncer /\ d = "sync"

Routes == \A p \in Procs : Lawful(p, doing[p], todo[p], held[p])

\* Two locks are of one row only if they are of one kind.
LEMMA RowsApart ==
    /\ \A r : Share(r).row = r
    /\ \A r : Exclusive(r).row = r
    /\ \A r : Update(r).row = r
    /\ \A r : KeyShare(r).row = r
    /\ \A b, c : Row(b) = Row(c) => b = c
    /\ \A b, c : Sent(b) = Sent(c) => b = c
    /\ \A b, c : Row(b) # Contact(c)
    /\ \A b, c : Row(b) # Sent(c)
    /\ \A b, c : Row(b) # Fact(c)
    /\ \A b, c : Contact(b) # Sent(c)
    /\ \A b, c : Contact(b) # Fact(c)
    /\ \A b, c : Sent(b) # Fact(c)
    /\ \A c : Row(c) \notin {Phone, Waba, Note, Intent}
    /\ \A c : Contact(c) \notin {Phone, Waba, Note, Intent}
    /\ \A c : Sent(c) \notin {Phone, Waba, Note, Intent}
    /\ \A c : Fact(c) \notin {Phone, Waba, Note, Intent}
    /\ Phone # Waba /\ Phone # Note /\ Phone # Intent /\ Waba # Note /\ Waba # Intent /\ Note # Intent
BY DEF Share, Exclusive, Update, KeyShare, Row, Contact, Sent, Fact, Phone, Waba, Note, Intent

LEMMA Modes ==
    /\ \A r : Share(r).mode = "share"
    /\ \A r : Exclusive(r).mode = "exclusive"
    /\ \A r : Update(r).mode = "update"
    /\ \A r : KeyShare(r).mode = "key share"
BY DEF Share, Exclusive, Update, KeyShare

\* Locks are alike only in row and mode.
LEMMA LocksDiffer ==
    /\ \A r, s : Exclusive(r) = Exclusive(s) => r = s
    /\ \A r, s : KeyShare(r) = KeyShare(s) => r = s
    /\ \A r, s : Update(r) = Update(s) => r = s
    /\ \A r, s : Update(r) # Exclusive(s)
    /\ \A r, s : KeyShare(r) # Exclusive(s)
    /\ \A r, s : KeyShare(r) # Update(s)
BY DEF Exclusive, Update, KeyShare

LEMMA RouteEnds ==
    ASSUME NEW L, NEW n \in 0..5
    PROVE  Rest(L, n, n) = <<>>
<1>1. Rest(L, n, n) = [m \in {} |-> L[n + m]] BY DEF Rest
<1> QED BY <1>1

LEMMA RouteGoesOn ==
    ASSUME NEW L, NEW n \in 0..5, NEW k \in 0..5, n < k
    PROVE  /\ Rest(L, n, k) # <<>> /\ Head(Rest(L, n, k)) = L[n + 1]
           /\ Tail(Rest(L, n, k)) = Rest(L, n + 1, k)
           /\ Taken(L, n) \cup {L[n + 1]} = Taken(L, n + 1)
<1> DEFINE t == Rest(L, n, k)
           j == k - n
           S == {L[n + m] : m \in 1..j}
<1>1. j \in Nat /\ j > 0 /\ j - 1 = k - (n + 1) OBVIOUS
<1>2. t \in [1..j -> S] /\ \A m \in 1..j : t[m] = L[n + m] BY DEF Rest
<1>3. t \in Seq(S) /\ Len(t) = j
    <2> HIDE DEF t, j, S
    <2> QED BY <1>1, <1>2
<1>4. t # <<>> /\ Head(t) = L[n + 1]
    <2>1. t[1] = L[n + 1] BY <1>1, <1>2
    <2> HIDE DEF t, j, S
    <2> QED BY <1>1, <1>3, <2>1
<1>5. Tail(t) = Rest(L, n + 1, k)
    <2>1. Tail(t) \in [1..(j - 1) -> S] /\ \A m \in 1..(j - 1) : Tail(t)[m] = t[m + 1]
        <3> HIDE DEF t, j, S
        <3>1. /\ Tail(t) \in Seq(S) /\ Len(Tail(t)) = Len(t) - 1
              /\ \A m \in 1..Len(Tail(t)) : Tail(t)[m] = t[m + 1]
            BY <1>3, <1>4, HeadTailProperties
        <3>2. Tail(t) \in [1..Len(Tail(t)) -> S] BY <3>1, LenProperties
        <3> QED BY <1>1, <1>3, <3>1, <3>2
    <2>2. \A m \in 1..(j - 1) : t[m + 1] = L[n + 1 + m] BY <1>1, <1>2
    <2>3. Rest(L, n + 1, k) = [m \in 1..(j - 1) |-> L[n + 1 + m]] BY <1>1 DEF Rest
    <2> HIDE DEF t, j, S
    <2> QED BY <2>1, <2>2, <2>3
<1>6. Taken(L, n) \cup {L[n + 1]} = Taken(L, n + 1)
    <2>1. 1..(n + 1) = 1..n \cup {n + 1} OBVIOUS
    <2> QED BY <2>1 DEF Taken
<1> QED BY <1>4, <1>5, <1>6

LEMMA RouteTaken ==
    ASSUME NEW L, NEW l, NEW u, NEW t, NEW h, OnRoute(L, l, u, t, h), t # <<>>
    PROVE  OnRoute(L, l, u, Tail(t), h \cup {Head(t)})
<1>1. PICK n \in 0..5, k \in 0..5 :
          n <= k /\ l <= k /\ k <= u /\ h = Taken(L, n) /\ t = Rest(L, n, k)
    BY DEF OnRoute
<1>2. n < k /\ n + 1 \in 0..5 /\ n + 1 <= k BY <1>1, RouteEnds
<1>3. Tail(t) = Rest(L, n + 1, k) /\ h \cup {Head(t)} = Taken(L, n + 1)
    BY <1>1, <1>2, RouteGoesOn
<1> QED BY <1>1, <1>2, <1>3 DEF OnRoute

\* The next lock of one that has routed what it holds.
LEMMA RouteHead ==
    ASSUME NEW L, NEW l \in 0..5, NEW u \in 0..5, NEW t, NEW h, OnRoute(L, l, u, t, h)
    PROVE  \E n \in 0..5 :
               /\ h = {L[m] : m \in 1..n}
               /\ \/ t = <<>> /\ l <= n
                  \/ n < 5 /\ t # <<>> /\ Head(t) = L[n + 1]
               /\ n <= u /\ (t # <<>> => n < u)
<1>1. PICK n \in 0..5, k \in 0..5 :
          n <= k /\ l <= k /\ k <= u /\ h = Taken(L, n) /\ t = Rest(L, n, k)
    BY DEF OnRoute
<1>2. CASE n = k BY <1>1, <1>2, RouteEnds DEF Taken
<1>3. CASE n < k
    <2>0. Rest(L, n, k) # <<>> /\ Head(Rest(L, n, k)) = L[n + 1] BY <1>3, RouteGoesOn
    <2>1. n < 5 /\ t # <<>> /\ Head(t) = L[n + 1]
        <3>1. n < 5 BY <1>3
        <3> QED BY <3>1, <2>0, <1>1, Zenon
    <2>2. n < u BY <1>1, <1>3
    <2> QED BY <1>1, <2>1, <2>2 DEF Taken
<1> QED BY <1>1, <1>2, <1>3

\* The parts of a route that statements ask for.
LEMMA RouteParts ==
    ASSUME NEW c
    PROVE  /\ Anchored(c) = Rest(RequestRoute(c), 0, 4)
           /\ <<Exclusive(Note)>> = Rest(RequestRoute(c), 4, 5)
           /\ Anchored(IntentOf) \o <<Exclusive(Intent)>> = Rest(AuthorizeRoute, 0, 5)
           /\ <<Update(Intent)>> = Rest(TellRoute, 0, 1) /\ <<>> = Rest(TellRoute, 0, 0)
           /\ <<Update(Sent(IntentOf)), Update(Row(IntentOf))>> = Rest(AcceptRoute, 1, 3)
           /\ <<Update(Sent(IntentOf)), KeyShare(Row(IntentOf))>> = Rest(TellRoute, 1, 3)
           /\ \A L : Taken(L, 0) = {}
<1>1. ASSUME NEW k1, NEW k2, NEW k3, NEW k4, NEW k5
      PROVE  /\ <<k1, k2, k3, k4>> = Rest(<<k1, k2, k3, k4, k5>>, 0, 4)
             /\ <<k5>> = Rest(<<k1, k2, k3, k4, k5>>, 4, 5)
             /\ <<k1, k2, k3, k4, k5>> = Rest(<<k1, k2, k3, k4, k5>>, 0, 5)
    <2> DEFINE L == <<k1, k2, k3, k4, k5>>
    <2>1. L[1] = k1 /\ L[2] = k2 /\ L[3] = k3 /\ L[4] = k4 /\ L[5] = k5 OBVIOUS
    <2> HIDE DEF L
    <2>2. <<k1, k2, k3, k4>> = [m \in 1..4 |-> L[m]] BY <2>1
    <2>3. <<k5>> = [m \in 1..1 |-> L[4 + m]] BY <2>1
    <2>4. <<k1, k2, k3, k4, k5>> = [m \in 1..5 |-> L[m]] BY <2>1
    <2>5. /\ Rest(L, 0, 4) = [m \in 1..4 |-> L[m]] /\ Rest(L, 4, 5) = [m \in 1..1 |-> L[4 + m]]
          /\ Rest(L, 0, 5) = [m \in 1..5 |-> L[m]]
        BY DEF Rest
    <2> QED BY <2>2, <2>3, <2>4, <2>5 DEF L
<1>2. ASSUME NEW k1, NEW k2, NEW k3
      PROVE  /\ <<k1>> = Rest(<<k1, k2, k3>>, 0, 1)
             /\ <<k2, k3>> = Rest(<<k1, k2, k3>>, 1, 3)
    <2> DEFINE L == <<k1, k2, k3>>
    <2>1. L[1] = k1 /\ L[2] = k2 /\ L[3] = k3 OBVIOUS
    <2> HIDE DEF L
    <2>2. <<k1>> = [m \in 1..1 |-> L[m]] BY <2>1
    <2>3. <<k2, k3>> = [m \in 1..2 |-> L[1 + m]] BY <2>1
    <2>4. Rest(L, 0, 1) = [m \in 1..1 |-> L[m]] /\ Rest(L, 1, 3) = [m \in 1..2 |-> L[1 + m]]
        BY DEF Rest
    <2> QED BY <2>2, <2>3, <2>4 DEF L
<1>3. ASSUME NEW k1, NEW k2, NEW k3, NEW k4, NEW k5
      PROVE  <<k1, k2, k3, k4>> \o <<k5>> = <<k1, k2, k3, k4, k5>>
    <2> DEFINE S == {k1, k2, k3, k4, k5}
               s == <<k1, k2, k3, k4>>
               u == <<k5>>
               v == <<k1, k2, k3, k4, k5>>
    <2>1. s \in Seq(S) /\ u \in Seq(S) /\ Len(s) = 4 /\ Len(u) = 1 OBVIOUS
    <2>2. v \in Seq(S) /\ Len(v) = 5 OBVIOUS
    <2>3. \A m \in 1..5 : v[m] = IF m <= 4 THEN s[m] ELSE u[m - 4] OBVIOUS
    <2> HIDE DEF S, s, u, v
    <2>4. /\ s \o u \in Seq(S) /\ Len(s \o u) = Len(s) + Len(u)
          /\ \A m \in 1..(Len(s) + Len(u)) :
                 (s \o u)[m] = IF m <= Len(s) THEN s[m] ELSE u[m - Len(s)]
        BY <2>1, ConcatProperties
    <2>5. Len(s \o u) = 5 /\ \A m \in 1..5 : (s \o u)[m] = v[m] BY <2>1, <2>3, <2>4
    <2>6. s \o u = v BY <2>2, <2>4, <2>5, SeqEqual
    <2> QED BY <2>6 DEF s, u, v
<1>4. \A L : Taken(L, 0) = {} BY DEF Taken
<1>5. /\ Anchored(c) = Rest(RequestRoute(c), 0, 4)
      /\ <<Exclusive(Note)>> = Rest(RequestRoute(c), 4, 5)
    BY <1>1 DEF Anchored, RequestRoute
<1>6. Anchored(IntentOf) \o <<Exclusive(Intent)>> = Rest(AuthorizeRoute, 0, 5)
    BY <1>1, <1>3 DEF Anchored, AuthorizeRoute
<1>7. /\ <<Update(Intent)>> = Rest(TellRoute, 0, 1) /\ <<>> = Rest(TellRoute, 0, 0)
      /\ <<Update(Sent(IntentOf)), Update(Row(IntentOf))>> = Rest(AcceptRoute, 1, 3)
      /\ <<Update(Sent(IntentOf)), KeyShare(Row(IntentOf))>> = Rest(TellRoute, 1, 3)
    BY <1>2, RouteEnds DEF AcceptRoute, TellRoute
<1> QED BY <1>4, <1>5, <1>6, <1>7

LEMMA OneMoves ==
    ASSUME Routes, NEW p \in Procs, Lawful(p, doing'[p], todo'[p], held'[p]),
           \A q \in Procs \ {p} : doing'[q] = doing[q] /\ todo'[q] = todo[q] /\ held'[q] = held[q]
    PROVE  Routes'
BY DEF Routes

LEMMA EndLawful ==
    ASSUME Inv, Routes, NEW p \in Procs, End(p)
    PROVE  Routes'
BY Ended, OneMoves DEF Lawful

LEMMA StartLawful ==
    ASSUME Inv, Routes, NEW p \in Procs, NEW what, NEW locks, Start(p, what, locks),
           Lawful(p, what, locks, {})
    PROVE  Routes'
<1>1. held[p] = {} BY DEF Start, Inv, LocksApart
<1>2. /\ doing' = [q \in Procs |-> IF q = p THEN what ELSE doing[q]]
      /\ todo' = [q \in Procs |-> IF q = p THEN locks ELSE todo[q]]
      /\ held' = held
    BY DEF Start, Inv, Shape
<1> QED BY <1>1, <1>2, OneMoves

LEMMA NeedsLawful ==
    ASSUME Inv, Routes, NEW p \in Procs, NEW locks, Needs(p, locks),
           Lawful(p, doing[p], locks, held[p])
    PROVE  Routes'
<1>1. /\ todo' = [q \in Procs |-> IF q = p THEN locks ELSE todo[q]]
      /\ doing' = doing /\ held' = held
    BY DEF Needs, Inv, Shape
<1> QED BY <1>1, OneMoves

LEMMA ThreadTaken ==
    ASSUME NEW t, NEW h, Materializing(t, h), t # <<>>
    PROVE  Materializing(Tail(t), h \cup {Head(t)})
<1> DEFINE g == h \cup {Head(t)}
           Locked(u, i) ==
               /\ i \subseteq ThreadLocks
               /\ \A c \in Conversations : Exclusive(Row(c)) \in i => Update(Contact(c)) \in i
               /\ \A c \in Conversations : Exclusive(Sent(c)) \in i =>
                      \/ Exclusive(Row(c)) \in i \/ KeyShare(Row(c)) \in i
                      \/ u = <<KeyShare(Row(c))>>
<1>0. Locked(t, h) BY DEF Materializing
<1>1. ASSUME NEW m \in Messages, t = <<Exclusive(Fact(m))>>
      PROVE  Materializing(Tail(t), g)
    <2>1. Head(t) = Exclusive(Fact(m)) /\ Tail(t) = <<>> BY <1>1
    <2>2. Exclusive(Fact(m)) \in ThreadLocks BY DEF ThreadLocks
    <2>3. \A c \in Conversations : t # <<KeyShare(Row(c))>> BY <2>1, RowsApart, LocksDiffer
    <2>4. \A c : Exclusive(Row(c)) # Head(t) /\ Exclusive(Sent(c)) # Head(t) BY <2>1, RowsApart, LocksDiffer
    <2>5. Locked(<<>>, g) BY <1>0, <2>1, <2>2, <2>3, <2>4
    <2> QED BY <2>1, <2>5 DEF Materializing
<1>2. ASSUME NEW c \in Conversations, t = <<Update(Contact(c)), Exclusive(Row(c))>>
      PROVE  Materializing(Tail(t), g)
    <2>1. Head(t) = Update(Contact(c)) /\ Tail(t) = <<Exclusive(Row(c))>> BY <1>2
    <2>2. Update(Contact(c)) \in ThreadLocks BY DEF ThreadLocks
    <2>3. \A b \in Conversations : t # <<KeyShare(Row(b))>> BY <2>1, RowsApart, LocksDiffer
    <2>4. \A b : Exclusive(Row(b)) # Head(t) /\ Exclusive(Sent(b)) # Head(t) BY <2>1, RowsApart, LocksDiffer
    <2>5. Locked(<<Exclusive(Row(c))>>, g) BY <1>0, <2>1, <2>2, <2>3, <2>4
    <2> QED BY <2>1, <2>5 DEF Materializing
<1>3. ASSUME NEW c \in Conversations, t = <<Exclusive(Row(c))>>, Update(Contact(c)) \in h
      PROVE  Materializing(Tail(t), g)
    <2>1. Head(t) = Exclusive(Row(c)) /\ Tail(t) = <<>> BY <1>3
    <2>2. Exclusive(Row(c)) \in ThreadLocks BY DEF ThreadLocks
    <2>3. \A b \in Conversations : t # <<KeyShare(Row(b))>> BY <2>1, RowsApart, LocksDiffer
    <2>4. \A b : /\ Exclusive(Row(b)) = Head(t) => b = c
                 /\ Exclusive(Sent(b)) # Head(t)
        BY <2>1, RowsApart, LocksDiffer
    <2>5. Locked(<<>>, g) BY <1>0, <1>3, <2>1, <2>2, <2>3, <2>4
    <2> QED BY <2>1, <2>5 DEF Materializing
<1>4. ASSUME NEW c \in Conversations, t = <<Exclusive(Sent(c)), KeyShare(Row(c))>>
      PROVE  Materializing(Tail(t), g)
    <2>1. Head(t) = Exclusive(Sent(c)) /\ Tail(t) = <<KeyShare(Row(c))>> BY <1>4
    <2>2. Exclusive(Sent(c)) \in ThreadLocks BY DEF ThreadLocks
    <2>3. \A b \in Conversations : t # <<KeyShare(Row(b))>> BY <2>1, RowsApart, LocksDiffer
    <2>4. \A b : /\ Exclusive(Row(b)) # Head(t)
                 /\ Exclusive(Sent(b)) = Head(t) => b = c
        BY <2>1, RowsApart, LocksDiffer
    <2>5. Locked(<<KeyShare(Row(c))>>, g) BY <1>0, <2>1, <2>2, <2>3, <2>4
    <2> QED BY <2>1, <2>5 DEF Materializing
<1>5. ASSUME NEW c \in Conversations, t = <<Exclusive(Sent(c))>>, Exclusive(Row(c)) \in h
      PROVE  Materializing(Tail(t), g)
    <2>1. Head(t) = Exclusive(Sent(c)) /\ Tail(t) = <<>> BY <1>5
    <2>2. Exclusive(Sent(c)) \in ThreadLocks BY DEF ThreadLocks
    <2>3. \A b \in Conversations : t # <<KeyShare(Row(b))>> BY <2>1, RowsApart, LocksDiffer
    <2>4. \A b : /\ Exclusive(Row(b)) # Head(t)
                 /\ Exclusive(Sent(b)) = Head(t) => b = c
        BY <2>1, RowsApart, LocksDiffer
    <2>5. Locked(<<>>, g) BY <1>0, <1>5, <2>1, <2>2, <2>3, <2>4
    <2> QED BY <2>1, <2>5 DEF Materializing
<1>6. ASSUME NEW c \in Conversations, t = <<KeyShare(Row(c))>>
      PROVE  Materializing(Tail(t), g)
    <2>1. Head(t) = KeyShare(Row(c)) /\ Tail(t) = <<>> BY <1>6
    <2>2. KeyShare(Row(c)) \in ThreadLocks BY DEF ThreadLocks
    <2>3. \A b \in Conversations : t = <<KeyShare(Row(b))>> => KeyShare(Row(b)) \in g BY <2>1
    <2>4. \A b : Exclusive(Row(b)) # Head(t) /\ Exclusive(Sent(b)) # Head(t) BY <2>1, RowsApart, LocksDiffer
    <2>5. Locked(<<>>, g) BY <1>0, <2>1, <2>2, <2>3, <2>4
    <2> QED BY <2>1, <2>5 DEF Materializing
<1> HIDE DEF g
<1>7. \/ \E m \in Messages : t = <<Exclusive(Fact(m))>>
      \/ \E c \in Conversations :
            \/ t = <<Update(Contact(c)), Exclusive(Row(c))>>
            \/ t = <<Exclusive(Row(c))>> /\ Update(Contact(c)) \in h
            \/ t = <<Exclusive(Sent(c)), KeyShare(Row(c))>>
            \/ t = <<Exclusive(Sent(c))>> /\ Exclusive(Row(c)) \in h
            \/ t = <<KeyShare(Row(c))>>
    BY DEF Materializing
<1>8. Materializing(Tail(t), g) BY <1>1, <1>2, <1>3, <1>4, <1>5, <1>6, <1>7, Zenon
<1> QED BY <1>8 DEF g

LEMMA AcquireLawful ==
    ASSUME Inv, Routes, NEW p \in Procs, Acquire(p)
    PROVE  Routes'
<1> DEFINE t == todo[p]
           h == held[p]
           d == doing[p]
<1>1. /\ held' = [q \in Procs |-> IF q = p THEN h \cup {Head(t)} ELSE held[q]]
      /\ todo' = [q \in Procs |-> IF q = p THEN Tail(t) ELSE todo[q]]
      /\ doing' = doing /\ t # <<>>
    BY DEF Acquire, Inv, Shape
<1>2. Lawful(p, d, t, h) BY DEF Routes
<1> HIDE DEF t, h, d
<1>3. Lawful(p, d, Tail(t), h \cup {Head(t)})
    <2>1. CASE \/ p \in Agents /\ d \in Asked /\ OnRoute(RequestRoute(Desk[p]), 4, 5, t, h)
               \/ p \in Workers /\ d = "authorize" /\ OnRoute(AuthorizeRoute, 5, 5, t, h)
               \/ p \in Workers /\ d = "finish" /\ OnRoute(AcceptRoute, 1, 3, t, h)
               \/ p \in Workers /\ d = "finish" /\ OnRoute(TellRoute, 1, 3, t, h)
               \/ p \in Workers /\ d = "settle" /\ OnRoute(TellRoute, 0, 3, t, h)
        BY <2>1, <1>1, RouteTaken DEF Lawful
    <2>2. CASE p \in Workers /\ d = "materialize" /\ Materializing(t, h)
        BY <2>2, <1>1, ThreadTaken DEF Lawful
    <2>4. CASE (p \in Workers /\ d = "wake") \/ (p = Syncer /\ d = "sync")
        BY <2>4 DEF Lawful
    <2> QED BY <1>1, <1>2, <2>1, <2>2, <2>4 DEF Lawful
<1> QED BY <1>1, <1>3, OneMoves DEF d


LEMMA AskLawful ==
    ASSUME Inv, Routes, NEW a \in Agents, NEW what \in Asked, Ask(a, what)
    PROVE  Routes'
<1>1. OnRoute(RequestRoute(Desk[a]), 4, 5, Anchored(Desk[a]), {})
    <2>1. /\ Anchored(Desk[a]) = Rest(RequestRoute(Desk[a]), 0, 4)
          /\ {} = Taken(RequestRoute(Desk[a]), 0)
        BY RouteParts
    <2> QED BY <2>1 DEF OnRoute
<1>2. Lawful(a, what, Anchored(Desk[a]), {}) BY <1>1 DEF Lawful
<1>3. a \in Procs BY DEF Procs
<1> QED BY <1>2, <1>3, StartLawful DEF Ask

LEMMA LockNoteLawful ==
    ASSUME Inv, Routes, NEW a \in Agents, LockNote(a)
    PROVE  Routes'
<1> DEFINE L == RequestRoute(Desk[a])
<1>0. a \in Procs BY DEF Procs
<1>1. CASE Rollback(a) BY <1>0, <1>1, EndLawful DEF Rollback
<1>2. CASE Needs(a, <<Exclusive(Note)>>)
    <2>1. doing[a] \in {"edit", "redact"} /\ todo[a] = <<>> /\ Exclusive(Note) \notin held[a]
        BY DEF LockNote
    <2>2. OnRoute(L, 4, 5, todo[a], held[a])
        BY <1>0, <2>1, ConversationAssumption DEF Routes, Lawful
    <2>3. PICK n \in 0..5 : /\ held[a] = {L[m] : m \in 1..n} /\ 4 <= n
        BY <2>1, <2>2, RouteHead
    <2>4. n # 5
        <3> SUFFICES ASSUME n = 5 PROVE FALSE OBVIOUS
        <3>1. L[5] = Exclusive(Note) /\ 5 \in 1..5 BY DEF RequestRoute
        <3> QED BY <2>1, <2>3, <3>1
    <2>5. held[a] = Taken(L, 4) BY <2>3, <2>4 DEF Taken
    <2>6. <<Exclusive(Note)>> = Rest(L, 4, 5) BY RouteParts
    <2>8. OnRoute(L, 4, 5, <<Exclusive(Note)>>, held[a])
        <3> HIDE DEF L
        <3> QED BY <2>5, <2>6 DEF OnRoute
    <2>9. Lawful(a, doing[a], <<Exclusive(Note)>>, held[a]) BY <2>1, <2>8 DEF Lawful, Asked
    <2> QED BY <1>0, <1>2, <2>9, NeedsLawful
<1> QED BY <1>1, <1>2 DEF LockNote

\* A materialization between two statements.
LEMMA AtItems ==
    ASSUME Inv, Routes, NEW w \in Workers, NEW kind, AtItem(w, kind)
    PROVE  /\ doing[w] = "materialize" /\ todo[w] = <<>> /\ Materializing(<<>>, held[w])
           /\ NextItem(w).conv \in Conversations /\ NextItem(w).message \in Messages
<1>1. doing[w] = "materialize" /\ todo[w] = <<>> /\ pos[w] <= Len(ItemsOf[event[w]])
    BY DEF AtItem, Ready, Items
<1>2. NextItem(w) \in Item
    <2>1. event[w] \in Events /\ pos[w] \in Nat \ {0} BY <1>1 DEF Inv, Places
    <2>2. ItemsOf[event[w]] \in Seq(Item) BY <2>1, ConversationAssumption
    <2> QED BY <2>1, <2>2, <1>1 DEF NextItem, Items
<1>3. Lawful(w, "materialize", <<>>, held[w]) BY <1>1, WorkersApart DEF Routes
<1>4. Materializing(<<>>, held[w]) BY <1>3, WorkersApart, SyncerApart DEF Lawful, Asked
<1> QED BY <1>1, <1>2, <1>4 DEF Item

LEMMA ThreadNeeds ==
    ASSUME Inv, Routes, NEW w \in Workers, doing[w] = "materialize", Materializing(<<>>, held[w]),
           NEW locks, Needs(w, locks),
           \/ \E m \in Messages : locks = <<Exclusive(Fact(m))>>
           \/ \E c \in Conversations :
                 \/ locks = <<Update(Contact(c)), Exclusive(Row(c))>>
                 \/ locks = <<Exclusive(Sent(c)), KeyShare(Row(c))>>
                 \/ locks = <<Exclusive(Sent(c))>> /\ Exclusive(Row(c)) \in held[w]
    PROVE  Routes'
<1>1. \A c : <<KeyShare(Row(c))>> # <<>> OBVIOUS
<1>2. Materializing(locks, held[w]) BY <1>1 DEF Materializing
<1>3. Lawful(w, doing[w], locks, held[w]) BY <1>2 DEF Lawful
<1> QED BY <1>3, WorkersApart, NeedsLawful

LEMMA LockThreadLawful ==
    ASSUME Inv, Routes, NEW w \in Workers, LockThread(w)
    PROVE  Routes'
<1> DEFINE c == NextItem(w).conv
           locks == <<Update(Contact(c)), Exclusive(Row(c))>>
<1>1. AtItem(w, "message") /\ Needs(w, locks) BY DEF LockThread
<1>2. /\ doing[w] = "materialize" /\ Materializing(<<>>, held[w]) /\ c \in Conversations
    BY <1>1, AtItems
<1> HIDE DEF c
<1> QED BY <1>1, <1>2, ThreadNeeds

LEMMA InsertLawful ==
    ASSUME Inv, Routes, NEW w \in Workers, Insert(w), ~UNCHANGED lockVars
    PROVE  Routes'
<1> DEFINE m == NextItem(w).message
           locks == <<Exclusive(Fact(m))>>
<1>1. AtItem(w, "status") /\ Needs(w, locks) BY DEF Insert
<1>2. /\ doing[w] = "materialize" /\ Materializing(<<>>, held[w]) /\ m \in Messages
    BY <1>1, AtItems
<1> HIDE DEF m
<1> QED BY <1>1, <1>2, ThreadNeeds

\* The event of one that has not the row locks it last.
LEMMA EventLocks ==
    ASSUME NEW p, NEW c, NEW k
    PROVE  <<k>> \o Event(p, c) = IF Mine(p, c) THEN <<k>> ELSE <<k, KeyShare(Row(c))>>
<1>1. ASSUME NEW l PROVE <<k>> \o <<>> = <<k>> /\ <<k>> \o <<l>> = <<k, l>>
    <2> DEFINE S == {k, l}
               s == <<k>>
               u == <<l>>
               v == <<k, l>>
    <2>1. s \in Seq(S) /\ u \in Seq(S) /\ Len(s) = 1 /\ Len(u) = 1 OBVIOUS
    <2>2. v \in Seq(S) /\ Len(v) = 2 /\ v[1] = s[1] /\ v[2] = u[1] OBVIOUS
    <2>3. s \o <<>> = s BY <2>1, ConcatEmptySeq
    <2> HIDE DEF S, s, u, v
    <2>4. /\ s \o u \in Seq(S) /\ Len(s \o u) = Len(s) + Len(u)
          /\ \A m \in 1..(Len(s) + Len(u)) :
                 (s \o u)[m] = IF m <= Len(s) THEN s[m] ELSE u[m - Len(s)]
        BY <2>1, ConcatProperties
    <2>5. Len(s \o u) = 2 /\ \A m \in 1..2 : (s \o u)[m] = v[m] BY <2>1, <2>2, <2>4
    <2>6. s \o u = v BY <2>2, <2>4, <2>5, SeqEqual
    <2> QED BY <2>3, <2>6 DEF s, u, v
<1>2. CASE Mine(p, c) BY <1>1, <1>2 DEF Event
<1>3. CASE ~Mine(p, c) BY <1>1, <1>3 DEF Event
<1> QED BY <1>2, <1>3

LEMMA CorrelateLawful ==
    ASSUME Inv, Routes, NEW w \in Workers, Correlate(w), ~UNCHANGED lockVars
    PROVE  Routes'
<1> DEFINE c == NextItem(w).conv
           locks == <<Exclusive(Sent(c))>> \o Event(w, c)
<1>1. AtItem(w, "status") /\ Needs(w, locks) BY DEF Correlate
<1>2. /\ doing[w] = "materialize" /\ Materializing(<<>>, held[w]) /\ c \in Conversations
    BY <1>1, AtItems
<1> HIDE DEF c
<1>3. locks = IF Mine(w, c) THEN <<Exclusive(Sent(c))>> ELSE <<Exclusive(Sent(c)), KeyShare(Row(c))>>
    BY EventLocks
<1>4. Mine(w, c) => Exclusive(Row(c)) \in held[w]
    <2>1. Update(Row(c)) \notin ThreadLocks BY RowsApart, LocksDiffer DEF ThreadLocks
    <2> QED BY <1>2, <2>1 DEF Mine, Materializing
<1> HIDE DEF locks
<1> QED BY <1>1, <1>2, <1>3, <1>4, ThreadNeeds

LEMMA ToldLawful ==
    ASSUME Inv, Routes, NEW w \in Workers, Told(w)
    PROVE  Routes'
<1> DEFINE m == NextItem(w).message
           h == held[w] \ {Exclusive(Fact(m))}
<1>1. AtItem(w, "status") /\ UNCHANGED <<doing, todo>> BY DEF Told
<1>2. held' = [q \in Procs |-> IF q = w THEN h ELSE held[q]] BY DEF Told, Inv, Shape
<1>3. /\ doing[w] = "materialize" /\ todo[w] = <<>> /\ Materializing(<<>>, held[w])
    BY <1>1, AtItems
<1>4. \A c : /\ Update(Contact(c)) # Exclusive(Fact(m)) /\ Exclusive(Row(c)) # Exclusive(Fact(m))
             /\ KeyShare(Row(c)) # Exclusive(Fact(m))
    BY RowsApart
<1>5. h \subseteq held[w] /\ \A k \in held[w] : k # Exclusive(Fact(m)) => k \in h OBVIOUS
<1> HIDE DEF m, h
<1>6. Materializing(<<>>, h) BY <1>3, <1>4, <1>5 DEF Materializing
<1>7. Lawful(w, "materialize", <<>>, h) BY <1>6 DEF Lawful
<1>8. w \in Procs BY WorkersApart
<1>9. Lawful(w, doing'[w], todo'[w], held'[w]) BY <1>1, <1>2, <1>3, <1>7, <1>8
<1> QED BY <1>1, <1>2, <1>8, <1>9, OneMoves

\* One that has the intent and not yet its message.
LEMMA IntentOnly ==
    ASSUME NEW h, \/ OnRoute(AcceptRoute, 1, 3, <<>>, h)
                  \/ OnRoute(TellRoute, 1, 3, <<>>, h)
                  \/ OnRoute(TellRoute, 0, 3, <<>>, h) /\ h # {},
           Update(Sent(IntentOf)) \notin h
    PROVE  h = {Update(Intent)}
<1>1. ASSUME NEW L, OnRoute(L, 0, 3, <<>>, h), L[2] = Update(Sent(IntentOf)), h # {}
      PROVE  h = {L[1]}
    <2>1. PICK n \in 0..5 : h = {L[m] : m \in 1..n} /\ n <= 3 BY <1>1, RouteHead
    <2>2. n < 2
        <3> SUFFICES ASSUME n >= 2 PROVE FALSE OBVIOUS
        <3>1. 2 \in 1..n BY <2>1
        <3>2. L[2] \in h BY <2>1, <3>1
        <3> QED BY <3>2, <1>1
    <2>3. n # 0 BY <2>1, <1>1
    <2>4. n = 1 BY <2>2, <2>3
    <2>5. h = {L[m] : m \in 1..1} BY <2>1, <2>4
    <2> QED BY <2>5
<1>2. ASSUME NEW L, OnRoute(L, 1, 3, <<>>, h), L[2] = Update(Sent(IntentOf))
      PROVE  h = {L[1]}
    <2>1. OnRoute(L, 0, 3, <<>>, h) BY <1>2 DEF OnRoute
    <2>2. PICK n \in 0..5 : h = {L[m] : m \in 1..n} /\ 1 <= n BY <1>2, RouteHead
    <2>3. L[1] \in h
        <3>1. 1 \in 1..n BY <2>2
        <3> QED BY <2>2, <3>1
    <2> QED BY <2>1, <2>3, <1>1, <1>2
<1>3. /\ AcceptRoute[1] = Update(Intent) /\ AcceptRoute[2] = Update(Sent(IntentOf))
      /\ TellRoute[1] = Update(Intent) /\ TellRoute[2] = Update(Sent(IntentOf))
    BY DEF AcceptRoute, TellRoute
<1> QED BY <1>1, <1>2, <1>3

\* and goes on to the message, and to the conversation in the one mode or the other.
LEMMA IntentNeeds ==
    ASSUME Inv, Routes, NEW w \in Workers, held[w] = {Update(Intent)}, NEW locks, Needs(w, locks),
           \/ doing[w] = "finish" /\ locks = <<Update(Sent(IntentOf)), Update(Row(IntentOf))>>
           \/ /\ doing[w] \in {"finish", "settle"}
              /\ locks = <<Update(Sent(IntentOf))>> \o Event(w, IntentOf)
    PROVE  Routes'
<1>1. CASE doing[w] = "finish" /\ locks = <<Update(Sent(IntentOf)), Update(Row(IntentOf))>>
    <2> DEFINE L == AcceptRoute
    <2>1. locks = Rest(L, 1, 3) BY <1>1, RouteParts
    <2>2. L[1] = Update(Intent) BY DEF AcceptRoute
    <2> HIDE DEF L
    <2>3. held[w] = Taken(L, 1) BY <2>2 DEF Taken
    <2>4. OnRoute(L, 1, 3, locks, held[w]) BY <2>1, <2>3 DEF OnRoute
    <2>5. Lawful(w, doing[w], locks, held[w]) BY <1>1, <2>4 DEF Lawful, L
    <2> QED BY <2>5, WorkersApart, NeedsLawful
<1>2. CASE /\ doing[w] \in {"finish", "settle"}
           /\ locks = <<Update(Sent(IntentOf))>> \o Event(w, IntentOf)
    <2> DEFINE L == TellRoute
    <2>1. ~Mine(w, IntentOf) BY RowsApart DEF Mine
    <2>2. locks = <<Update(Sent(IntentOf)), KeyShare(Row(IntentOf))>> BY <1>2, <2>1, EventLocks
    <2>3. locks = Rest(L, 1, 3) BY <2>2, RouteParts
    <2>4. L[1] = Update(Intent) BY DEF TellRoute
    <2> HIDE DEF L
    <2>5. held[w] = Taken(L, 1) BY <2>4 DEF Taken
    <2>6. OnRoute(L, 0, 3, locks, held[w]) /\ OnRoute(L, 1, 3, locks, held[w])
        BY <2>3, <2>5 DEF OnRoute
    <2>7. Lawful(w, doing[w], locks, held[w]) BY <1>2, <2>6 DEF Lawful, L
    <2> QED BY <2>7, WorkersApart, NeedsLawful
<1> QED BY <1>1, <1>2

LEMMA GiveUpLawful ==
    ASSUME Inv, Routes, NEW w \in Workers, GiveUp(w)
    PROVE  Routes'
<1>1. /\ doing[w] = "settle" /\ todo[w] = <<>> /\ held[w] # {}
      /\ Update(Sent(IntentOf)) \notin held[w]
      /\ Needs(w, <<Update(Sent(IntentOf))>> \o Event(w, IntentOf))
    BY DEF GiveUp, Overdue, Ready
<1>2. Lawful(w, "settle", <<>>, held[w]) BY <1>1, WorkersApart DEF Routes
<1>3. OnRoute(TellRoute, 0, 3, <<>>, held[w])
    BY <1>2, WorkersApart, SyncerApart DEF Lawful, Asked
<1>4. held[w] = {Update(Intent)} BY <1>1, <1>3, IntentOnly
<1> QED BY <1>1, <1>4, IntentNeeds

LEMMA LockOutcomeLawful ==
    ASSUME Inv, Routes, NEW w \in Workers, LockOutcome(w)
    PROVE  Routes'
<1>1. /\ doing[w] = "finish" /\ todo[w] = <<>>
      /\ Update(Sent(IntentOf)) \notin held[w]
    BY DEF LockOutcome, Ready
<1>2. Lawful(w, "finish", <<>>, held[w]) BY <1>1, WorkersApart DEF Routes
<1>3. \/ OnRoute(AcceptRoute, 1, 3, <<>>, held[w])
      \/ OnRoute(TellRoute, 1, 3, <<>>, held[w])
    BY <1>2, WorkersApart, SyncerApart DEF Lawful, Asked
<1>4. held[w] = {Update(Intent)} BY <1>1, <1>3, IntentOnly
<1> QED BY <1>1, <1>4, IntentNeeds DEF LockOutcome

LEMMA LoopLawful ==
    ASSUME Inv, Routes, NEW w \in Workers, Loop(w)
    PROVE  Routes'
<1>1. CASE Materialize(w)
    <2>1. Materializing(<<>>, {}) BY DEF Materializing
    <2>2. Lawful(w, "materialize", <<>>, {}) BY <2>1 DEF Lawful
    <2> QED BY <1>1, <2>2, WorkersApart, StartLawful DEF Materialize
<1>2. ASSUME NEW locks, locks \in {<<>>, <<Update(Intent)>>}
      PROVE  OnRoute(TellRoute, 0, 3, locks, {})
    <2>1. /\ <<Update(Intent)>> = Rest(TellRoute, 0, 1) /\ <<>> = Rest(TellRoute, 0, 0)
          /\ {} = Taken(TellRoute, 0)
        BY RouteParts
    <2>2. CASE locks = <<>> BY <2>1, <2>2 DEF OnRoute
    <2>3. CASE locks = <<Update(Intent)>> BY <2>1, <2>3 DEF OnRoute
    <2> QED BY <1>2, <2>2, <2>3
<1>3. CASE Recover(w)
    <2>1. PICK locks : Start(w, "settle", locks) /\ locks \in {<<>>, <<Update(Intent)>>}
        BY <1>3 DEF Recover
    <2>2. Lawful(w, "settle", locks, {}) BY <1>2, <2>1 DEF Lawful
    <2> QED BY <2>1, <2>2, WorkersApart, StartLawful
<1>4. CASE Authorize(w)
    <2> DEFINE locks == Anchored(IntentOf) \o <<Exclusive(Intent)>>
    <2>1. locks = Rest(AuthorizeRoute, 0, 5) /\ {} = Taken(AuthorizeRoute, 0) BY RouteParts
    <2>2. Start(w, "authorize", locks) BY <1>4 DEF Authorize
    <2> HIDE DEF locks
    <2>3. OnRoute(AuthorizeRoute, 5, 5, locks, {}) BY <2>1 DEF OnRoute
    <2>4. Lawful(w, "authorize", locks, {}) BY <2>3 DEF Lawful
    <2> QED BY <2>2, <2>4, WorkersApart, StartLawful
<1>5. CASE Finish(w)
    <2>1. OnRoute(TellRoute, 1, 3, <<Update(Intent)>>, {})
        <3>1. <<Update(Intent)>> = Rest(TellRoute, 0, 1) /\ {} = Taken(TellRoute, 0) BY RouteParts
        <3> QED BY <3>1 DEF OnRoute
    <2>2. Lawful(w, "finish", <<Update(Intent)>>, {}) BY <2>1 DEF Lawful
    <2> QED BY <1>5, <2>2, WorkersApart, StartLawful DEF Finish
<1> QED BY <1>1, <1>3, <1>4, <1>5 DEF Loop

LEMMA SweepLawful ==
    ASSUME Inv, Routes, NEW w \in Workers, Sweep(w)
    PROVE  Routes'
<1>1. /\ doing' = [q \in Procs |-> IF q = w THEN "wake" ELSE doing[q]]
      /\ \E t : todo' = [q \in Procs |-> IF q = w THEN t ELSE todo[q]]
      /\ held' = held
    BY DEF Sweep, Inv, Shape
<1> QED BY <1>1, WorkersApart, OneMoves DEF Lawful

LEMMA RoutesRest == ASSUME Routes, UNCHANGED <<doing, todo, held>> PROVE Routes'
BY DEF Routes

LEMMA AnsweredLawful ==
    ASSUME Inv, Routes, NEW p \in Procs, Answered(p)
    PROVE  Routes'
<1>1. CASE End(p) BY <1>1, EndLawful
<1>2. CASE UNCHANGED lockVars BY <1>2, RoutesRest DEF lockVars
<1>3. CASE p \in Agents /\ Request(p)
    BY <1>1, <1>3, LockNoteLawful DEF Request, NotFound, Change, ChangeNote, Commit, Rollback
<1>4. CASE p \in Workers /\ Work(p)
    <2>1. CASE Record(p) BY <1>2, <2>1 DEF Record
    <2>2. CASE Insert(p) \/ Correlate(p) BY <1>2, <1>4, <2>2, InsertLawful, CorrelateLawful
    <2>3. CASE Materialized(p) \/ Wake(p) \/ Stand(p) \/ Conclude(p)
        BY <1>1, <2>3 DEF Materialized, Wake, Stand, Conclude, Commit, Rollback
    <2> QED BY <1>4, <2>1, <2>2, <2>3, LockThreadLawful, ToldLawful, GiveUpLawful, SweepLawful,
               LockOutcomeLawful
            DEF Work
<1> QED BY <1>1, <1>3, <1>4, AcquireLawful
        DEF Answered, DeadlockDetected, Abandon, Synchronized, Rollback

LEMMA RoutesNext ==
    ASSUME Inv, Routes, [Next]_vars
    PROVE  Routes'
<1>1. CASE UNCHANGED vars BY <1>1, RoutesRest DEF vars, lockVars
<1>2. ASSUME NEW a \in Agents, NEW what \in Asked, Ask(a, what) PROVE Routes'
    BY <1>2, AskLawful
<1>3. CASE Synchronize
    <2>1. \A locks : Lawful(Syncer, "sync", locks, {}) BY DEF Lawful
    <2> QED BY <1>3, <2>1, SyncerApart, StartLawful DEF Synchronize
<1>4. ASSUME NEW p \in Procs, Answered(p) PROVE Routes' BY <1>4, AnsweredLawful
<1>5. ASSUME NEW w \in Workers, Loop(w) PROVE Routes' BY <1>5, LoopLawful
<1>6. CASE Tick BY <1>6, RoutesRest DEF Tick, lockVars
<1>7. ASSUME NEW p \in Procs, Fault(p) PROVE Routes'
    BY <1>7, EndLawful DEF Fault, Abandon, Rollback
<1>8. Next \/ UNCHANGED vars OBVIOUS
<1> QED BY <1>1, <1>2, <1>3, <1>4, <1>5, <1>6, <1>7, <1>8 DEF Next, Begin

\* Nothing that keeps another order than a request to c is under way.
Quiet(c) ==
    /\ doing[Syncer] # "sync" /\ \A w \in Workers : doing[w] # "wake"
    /\ \A w \in Workers : doing[w] = "materialize" => KeyShare(Row(c)) \notin held[w]

\* An agent's next lock says what it holds.
LEMMA AgentsWait ==
    ASSUME Inv, Routes, NEW a \in Agents
    PROVE  /\ todo[a] # <<>> =>
                  \/ Head(todo[a]) = Share(Contact(Desk[a])) /\ held[a] = {}
                  \/ Head(todo[a]) \in {Share(Phone), Share(Waba), Exclusive(Note)}
                  \/ /\ Head(todo[a]) = Exclusive(Row(Desk[a]))
                     /\ Share(Contact(Desk[a])) \in held[a]
           /\ \A k \in held[a] :
                  \/ k \in {Share(Contact(Desk[a])), Share(Phone), Share(Waba)}
                  \/ k = Exclusive(Row(Desk[a])) /\ (todo[a] = <<>> \/ Head(todo[a]) = Exclusive(Note))
                  \/ k = Exclusive(Note) /\ todo[a] = <<>>
<1> DEFINE L == RequestRoute(Desk[a])
<1>1. Lawful(a, doing[a], todo[a], held[a]) BY DEF Routes, Procs
<1>2. CASE todo[a] = <<>> /\ held[a] = {} BY <1>2
<1>3. CASE OnRoute(L, 4, 5, todo[a], held[a])
    <2>1. PICK n \in 0..5 :
              /\ held[a] = {L[m] : m \in 1..n}
              /\ \/ todo[a] = <<>> /\ 4 <= n
                 \/ n < 5 /\ todo[a] # <<>> /\ Head(todo[a]) = L[n + 1]
        BY <1>3, RouteHead
    <2>2. /\ L[1] = Share(Contact(Desk[a])) /\ L[2] = Share(Phone) /\ L[3] = Share(Waba)
          /\ L[4] = Exclusive(Row(Desk[a])) /\ L[5] = Exclusive(Note)
        BY DEF RequestRoute
    <2> HIDE DEF L
    <2>3. ASSUME todo[a] # <<>>
          PROVE  \/ Head(todo[a]) = Share(Contact(Desk[a])) /\ held[a] = {}
                 \/ Head(todo[a]) \in {Share(Phone), Share(Waba), Exclusive(Note)}
                 \/ /\ Head(todo[a]) = Exclusive(Row(Desk[a]))
                    /\ Share(Contact(Desk[a])) \in held[a]
        <3>1. CASE n = 0 BY <3>1, <2>1, <2>2, <2>3
        <3>2. CASE n = 1 BY <3>2, <2>1, <2>2, <2>3
        <3>3. CASE n = 2 BY <3>3, <2>1, <2>2, <2>3
        <3>4. CASE n = 3
            <4>1. Head(todo[a]) = L[4] BY <3>4, <2>1, <2>3
            <4>2. L[1] \in held[a] BY <3>4, <2>1
            <4> QED BY <4>1, <4>2, <2>2
        <3>5. CASE n = 4 BY <3>5, <2>1, <2>2, <2>3
        <3>6. n < 5 BY <2>1, <2>3
        <3> QED BY <3>1, <3>2, <3>3, <3>4, <3>5, <3>6
    <2>4. ASSUME NEW k \in held[a]
          PROVE  \/ k \in {Share(Contact(Desk[a])), Share(Phone), Share(Waba)}
                 \/ /\ k = Exclusive(Row(Desk[a]))
                    /\ todo[a] = <<>> \/ Head(todo[a]) = Exclusive(Note)
                 \/ k = Exclusive(Note) /\ todo[a] = <<>>
        <3>1. PICK m \in 1..n : k = L[m] BY <2>1
        <3>2. CASE m \in 1..3 BY <3>1, <3>2, <2>2
        <3>3. CASE m = 4
            <4>1. todo[a] = <<>> \/ Head(todo[a]) = L[5] BY <3>3, <2>1
            <4> QED BY <4>1, <3>1, <3>3, <2>2
        <3>4. CASE m = 5
            <4>1. todo[a] = <<>> BY <3>4, <2>1
            <4> QED BY <4>1, <3>1, <3>4, <2>2
        <3> QED BY <3>2, <3>3, <3>4
    <2> QED BY <2>3, <2>4
<1> QED BY <1>1, <1>2, <1>3, ConversationAssumption DEF Lawful

\* What one that is no agent holds says for what it waits.
LEMMA OthersWait ==
    ASSUME Inv, Routes, NEW c, Quiet(c), NEW p \in Procs, p \notin Agents, NEW k \in held[p]
    PROVE  \/ k \in {Share(Contact(IntentOf)), Share(Phone), Share(Waba)}
           \/ /\ k = Exclusive(Row(IntentOf))
              /\ todo[p] = <<>> \/ Head(todo[p]) = Exclusive(Intent)
           \/ k = Exclusive(Intent) /\ todo[p] = <<>>
           \/ /\ k = Update(Intent)
              /\ \/ todo[p] = <<>> \/ Head(todo[p]) = Update(Sent(IntentOf))
                 \/ Head(todo[p]) \in {Update(Row(IntentOf)), KeyShare(Row(IntentOf))}
           \/ k = Update(Sent(IntentOf)) /\ Update(Intent) \in held[p]
           \/ k \in {Update(Row(IntentOf)), KeyShare(Row(IntentOf))} /\ todo[p] = <<>>
           \/ k \in ThreadLocks /\ Materializing(todo[p], held[p]) /\ KeyShare(Row(c)) \notin held[p]
<1>1. Lawful(p, doing[p], todo[p], held[p]) BY DEF Routes
<1>2. CASE OnRoute(AuthorizeRoute, 5, 5, todo[p], held[p])
    <2> DEFINE L == AuthorizeRoute
    <2>1. PICK n \in 0..5 :
              /\ held[p] = {L[m] : m \in 1..n}
              /\ \/ todo[p] = <<>> /\ 5 <= n
                 \/ n < 5 /\ todo[p] # <<>> /\ Head(todo[p]) = L[n + 1]
        BY <1>2, RouteHead
    <2>2. /\ L[1] = Share(Contact(IntentOf)) /\ L[2] = Share(Phone) /\ L[3] = Share(Waba)
          /\ L[4] = Exclusive(Row(IntentOf)) /\ L[5] = Exclusive(Intent)
        BY DEF AuthorizeRoute
    <2> HIDE DEF L
    <2>3. PICK m \in 1..n : k = L[m] BY <2>1
    <2>4. CASE m \in 1..3 BY <2>2, <2>3, <2>4
    <2>5. CASE m = 4
        <3>1. todo[p] = <<>> \/ Head(todo[p]) = L[5] BY <2>5, <2>1
        <3> QED BY <3>1, <2>2, <2>3, <2>5
    <2>6. CASE m = 5
        <3>1. todo[p] = <<>> BY <2>6, <2>1
        <3> QED BY <3>1, <2>2, <2>3, <2>6
    <2> QED BY <2>4, <2>5, <2>6
<1>3. ASSUME NEW L, OnRoute(L, 0, 3, todo[p], held[p]), L[1] = Update(Intent),
             L[2] = Update(Sent(IntentOf)), L[3] \in {Update(Row(IntentOf)), KeyShare(Row(IntentOf))}
      PROVE  \/ /\ k = Update(Intent)
                /\ \/ todo[p] = <<>> \/ Head(todo[p]) = Update(Sent(IntentOf))
                   \/ Head(todo[p]) \in {Update(Row(IntentOf)), KeyShare(Row(IntentOf))}
             \/ k = Update(Sent(IntentOf)) /\ Update(Intent) \in held[p]
             \/ k \in {Update(Row(IntentOf)), KeyShare(Row(IntentOf))} /\ todo[p] = <<>>
    <2>1. PICK n \in 0..5 :
              /\ held[p] = {L[m] : m \in 1..n}
              /\ todo[p] = <<>> \/ Head(todo[p]) = L[n + 1]
              /\ n <= 3 /\ (todo[p] # <<>> => n < 3)
        BY <1>3, RouteHead
    <2>2. PICK m \in 1..n : k = L[m] BY <2>1
    <2>3. CASE m = 1
        <3>1. CASE n = 1
            <4>1. todo[p] = <<>> \/ Head(todo[p]) = L[2] BY <3>1, <2>1
            <4> QED BY <4>1, <1>3, <2>2, <2>3
        <3>2. CASE n = 2
            <4>1. todo[p] = <<>> \/ Head(todo[p]) = L[3] BY <3>2, <2>1
            <4> QED BY <4>1, <1>3, <2>2, <2>3
        <3>3. CASE n = 3 BY <3>3, <1>3, <2>1, <2>2, <2>3
        <3> QED BY <2>1, <3>1, <3>2, <3>3
    <2>4. CASE m = 2
        <3>1. 1 \in 1..n BY <2>4
        <3>2. L[1] \in held[p] BY <3>1, <2>1
        <3> QED BY <3>2, <1>3, <2>2, <2>4
    <2>5. CASE m = 3
        <3>1. n = 3 BY <2>1, <2>5
        <3>2. todo[p] = <<>> BY <3>1, <2>1
        <3> QED BY <3>2, <1>3, <2>2, <2>5
    <2> QED BY <2>1, <2>3, <2>4, <2>5
<1>4. CASE OnRoute(AcceptRoute, 1, 3, todo[p], held[p])
    <2>1. OnRoute(AcceptRoute, 0, 3, todo[p], held[p]) BY <1>4 DEF OnRoute
    <2>2. /\ AcceptRoute[1] = Update(Intent) /\ AcceptRoute[2] = Update(Sent(IntentOf))
          /\ AcceptRoute[3] = Update(Row(IntentOf))
        BY DEF AcceptRoute
    <2> QED BY <1>3, <2>1, <2>2
<1>5. CASE OnRoute(TellRoute, 0, 3, todo[p], held[p]) \/ OnRoute(TellRoute, 1, 3, todo[p], held[p])
    <2>0. OnRoute(TellRoute, 0, 3, todo[p], held[p]) BY <1>5 DEF OnRoute
    <2>1. /\ TellRoute[1] = Update(Intent) /\ TellRoute[2] = Update(Sent(IntentOf))
          /\ TellRoute[3] = KeyShare(Row(IntentOf))
        BY DEF TellRoute
    <2> QED BY <1>3, <2>0, <2>1
<1>6. CASE p \in Workers /\ doing[p] = "materialize" /\ Materializing(todo[p], held[p])
    <2>1. KeyShare(Row(c)) \notin held[p] BY <1>6 DEF Quiet
    <2> QED BY <1>6, <2>1 DEF Materializing
<1> QED BY <1>1, <1>2, <1>4, <1>5, <1>6 DEF Lawful, Quiet

LEMMA OneRow == ASSUME NEW k, NEW l, Conflict(k, l) PROVE k.row = l.row
BY DEF Conflict

\* Who waits does so for one that holds the row in a mode that conflicts.
LEMMA Blocked ==
    ASSUME NEW p, NEW q \in Blockers(p)
    PROVE  /\ q \in Procs /\ q # p /\ todo[p] # <<>>
           /\ \E k \in held[q] : Conflict(k, Head(todo[p]))
BY DEF Blockers

\* A ring does not lead into a set out of which nobody waits.
LEMMA NoWayBack ==
    ASSUME NEW S, NEW a \in S, NEW b \in S, NEW T, b \in T, a \notin T,
           \A q \in T : Blockers(q) \subseteq T
    PROVE  ~\A U \in (SUBSET S) \ {{}, S} : \E q \in U : Blockers(q) \cap (S \ U) # {}
<1> DEFINE U == S \cap T
<1>1. U \in (SUBSET S) \ {{}, S} OBVIOUS
<1>2. \A q \in U : Blockers(q) \cap (S \ U) = {} OBVIOUS
<1> QED BY <1>1, <1>2


\* What a materialization may hold, by the row.
LEMMA ThreadRows ==
    ASSUME NEW k \in ThreadLocks
    PROVE  /\ k.row \notin {Phone, Waba, Note, Intent}
           /\ \A c : k.row = Row(c) => k \in {Exclusive(Row(c)), KeyShare(Row(c))} /\ c \in Conversations
           /\ \A c : k.row = Sent(c) => k = Exclusive(Sent(c))
<1>1. PICK d : \/ k = Exclusive(Fact(d))
               \/ k = Update(Contact(d))
               \/ k \in {Exclusive(Row(d)), KeyShare(Row(d))} /\ d \in Conversations
               \/ k = Exclusive(Sent(d))
    BY DEF ThreadLocks
<1>2. CASE k = Exclusive(Fact(d)) \/ k = Update(Contact(d)) BY <1>2, RowsApart
<1>3. CASE k \in {Exclusive(Row(d)), KeyShare(Row(d))} /\ d \in Conversations
    <2>1. k.row = Row(d) BY <1>3, RowsApart
    <2>2. \A c : k.row = Row(c) => c = d BY <2>1, RowsApart
    <2> QED BY <1>3, <2>1, <2>2, RowsApart
<1>4. CASE k = Exclusive(Sent(d)) BY <1>4, RowsApart
<1> QED BY <1>1, <1>2, <1>3, <1>4

\* Only the synchronisation takes an anchor exclusively.
LEMMA AnchorsShared ==
    ASSUME Inv, Routes, NEW c, Quiet(c), NEW p \in Procs, NEW k \in held[p], k.row \in {Phone, Waba}
    PROVE  k.mode = "share"
<1>1. CASE p \in Agents
    <2>1. k \in {Share(Phone), Share(Waba)} BY <1>1, AgentsWait, RowsApart
    <2> QED BY <2>1, Modes
<1>2. CASE p \notin Agents
    <2>1. k \in {Share(Phone), Share(Waba)} BY <1>2, OthersWait, ThreadRows, RowsApart
    <2> QED BY <2>1, Modes
<1> QED BY <1>1, <1>2

\* Who has the note waits for nothing.
LEMMA NoteHolder ==
    ASSUME Inv, Routes, NEW c, Quiet(c), NEW p \in Procs, NEW k \in held[p], k.row = Note
    PROVE  Blockers(p) = {}
<1>1. p \in Agents BY OthersWait, ThreadRows, RowsApart
<1>2. k = Exclusive(Note) /\ todo[p] = <<>> BY <1>1, AgentsWait, RowsApart
<1> QED BY <1>2 DEF Blockers

\* Who has a lock exclusively is the only one to wait for.
LEMMA OneHolder ==
    ASSUME Inv, NEW p \in Procs, NEW b \in Procs, NEW r, Exclusive(r) \in held[b],
           Head(todo[p]).row = r
    PROVE  Blockers(p) \subseteq {b}
<1> SUFFICES ASSUME NEW q \in Blockers(p), q # b PROVE FALSE OBVIOUS
<1>1. PICK k \in held[q] : Conflict(k, Head(todo[p])) BY Blocked
<1>2. q \in Procs BY Blocked
<1>3. k.row = r BY <1>1 DEF Conflict
<1>4. Conflict(k, Exclusive(r)) BY <1>3, RowsApart, Modes DEF Conflict
<1> QED BY <1>2, <1>4 DEF Inv, LocksApart

\* Whom the holder of the intent waits for waits for b alone, who has its conversation.
LEMMA IntentHolder ==
    ASSUME Inv, Routes, NEW c, Quiet(c), NEW f \in Procs, NEW k \in held[f], k.row = Intent,
           NEW b \in Procs, Exclusive(Row(IntentOf)) \in held[b],
           NEW m \in Blockers(f), m # b
    PROVE  m \notin Agents /\ Blockers(m) \subseteq {b}
<1>1. PICK l \in held[m] : Conflict(l, Head(todo[f])) BY Blocked
<1>2. m \in Procs /\ m # f /\ todo[f] # <<>> BY Blocked
<1>3. f \notin Agents BY AgentsWait, <1>2, RowsApart
<1>4. k = Update(Intent) /\ \/ Head(todo[f]) = Update(Sent(IntentOf))
                            \/ Head(todo[f]) \in {Update(Row(IntentOf)), KeyShare(Row(IntentOf))}
    BY <1>2, <1>3, OthersWait, ThreadRows, RowsApart
<1>5. ASSUME Head(todo[f]) \in {Update(Row(IntentOf)), KeyShare(Row(IntentOf))} PROVE FALSE
    <2>1. Head(todo[f]).row = Row(IntentOf) BY <1>5, RowsApart
    <2> QED BY <2>1, OneHolder
<1>6. l.row = Sent(IntentOf)
    <2>1. Head(todo[f]).row = Sent(IntentOf) BY <1>4, <1>5, RowsApart
    <2> QED BY <1>1, <2>1 DEF Conflict
<1>7. m \notin Agents BY <1>2, <1>6, AgentsWait, RowsApart
<1>8. Update(Intent) \notin held[m]
    <2>1. Conflict(Update(Intent), Update(Intent)) BY Excluding
    <2> QED BY <1>2, <1>4, <2>1 DEF Inv, LocksApart
<1>9. /\ l \in ThreadLocks /\ Materializing(todo[m], held[m])
    BY <1>2, <1>6, <1>7, <1>8, OthersWait, RowsApart
<1>10. l = Exclusive(Sent(IntentOf)) BY <1>6, <1>9, ThreadRows
<1>11. Exclusive(Row(IntentOf)) \notin held[m] /\ KeyShare(Row(IntentOf)) \notin held[m]
    <2>1. /\ Conflict(Exclusive(Row(IntentOf)), Exclusive(Row(IntentOf)))
          /\ Conflict(KeyShare(Row(IntentOf)), Exclusive(Row(IntentOf)))
        BY RowsApart, Modes DEF Conflict
    <2> QED BY <1>2, <2>1 DEF Inv, LocksApart
<1>12. todo[m] = <<KeyShare(Row(IntentOf))>>
    BY <1>9, <1>10, <1>11, ConversationAssumption DEF Materializing
<1>13. Head(todo[m]).row = Row(IntentOf) BY <1>12, RowsApart
<1> QED BY <1>2, <1>7, <1>13, OneHolder

\* Whoever has the row of a conversation whose contact an agent has leads nowhere back.
LEMMA RowHolder ==
    ASSUME Inv, Routes, NEW c \in Conversations, Quiet(c), NEW a \in Agents,
           Share(Contact(c)) \in held[a], Head(todo[a]) = Exclusive(Row(c)), todo[a] # <<>>,
           NEW b \in Blockers(a)
    PROVE  \E T : b \in T /\ a \notin T /\ \A q \in T : Blockers(q) \subseteq T
<1>0. a \in Procs BY DEF Procs
<1>1. PICK k \in held[b] : Conflict(k, Exclusive(Row(c))) BY Blocked
<1>2. b \in Procs /\ b # a BY Blocked
<1>3. k.row = Row(c) BY <1>1, RowsApart DEF Conflict
<1>4. Update(Contact(c)) \notin held[b]
    <2>1. Conflict(Share(Contact(c)), Update(Contact(c))) BY RowsApart, Modes DEF Conflict
    <2> QED BY <1>0, <1>2, <2>1 DEF Inv, LocksApart
<1>5. \/ todo[b] = <<>> \/ Head(todo[b]) = Exclusive(Note)
      \/ /\ c = IntentOf /\ Exclusive(Row(IntentOf)) \in held[b]
         /\ Head(todo[b]) = Exclusive(Intent)
    <2>1. CASE b \in Agents BY <2>1, <1>3, AgentsWait, RowsApart
    <2>2. CASE b \notin Agents
        <3>1. \/ todo[b] = <<>>
              \/ k = Exclusive(Row(IntentOf)) /\ Head(todo[b]) = Exclusive(Intent)
              \/ /\ k \in ThreadLocks /\ Materializing(todo[b], held[b])
                 /\ KeyShare(Row(c)) \notin held[b]
            BY <2>2, <1>2, <1>3, OthersWait, RowsApart
        <3>2. ~(k \in ThreadLocks /\ Materializing(todo[b], held[b])
                /\ KeyShare(Row(c)) \notin held[b])
            <4> SUFFICES ASSUME k \in ThreadLocks, Materializing(todo[b], held[b]),
                                KeyShare(Row(c)) \notin held[b]
                         PROVE  FALSE
                OBVIOUS
            <4>1. k = Exclusive(Row(c)) BY <1>3, ThreadRows
            <4> QED BY <1>4, <4>1 DEF Materializing
        <3>3. k = Exclusive(Row(IntentOf)) => c = IntentOf BY <1>3, RowsApart
        <3> QED BY <3>1, <3>2, <3>3
    <2> QED BY <2>1, <2>2
<1>6. CASE todo[b] = <<>>
    <2>1. Blockers(b) = {} BY <1>6 DEF Blockers
    <2> WITNESS {b}
    <2> QED BY <2>1, <1>2
<1>7. CASE todo[b] # <<>> /\ Head(todo[b]) = Exclusive(Note)
    <2>1. ASSUME NEW q \in Blockers(b) PROVE Blockers(q) = {} /\ q # a
        <3>1. q \in Procs /\ \E l \in held[q] : l.row = Note
            BY <1>7, Blocked, RowsApart, OneRow
        <3>2. Blockers(q) = {} BY <3>1, NoteHolder
        <3> QED BY <3>2
    <2> WITNESS {b} \cup Blockers(b)
    <2> QED BY <2>1, <1>2
<1>8. CASE /\ c = IntentOf /\ Exclusive(Row(IntentOf)) \in held[b] /\ todo[b] # <<>>
           /\ Head(todo[b]) = Exclusive(Intent)
    <2> DEFINE F == Blockers(b)
               M == UNION {Blockers(q) : q \in F}
               T == {b} \cup F \cup M
    <2>1. ASSUME NEW q \in F
          PROVE  q # a /\ \A m \in Blockers(q) : m = b \/ (m # a /\ Blockers(m) \subseteq {b})
        <3>1. PICK l \in held[q] : l.row = Intent
            BY <1>8, Blocked, RowsApart, OneRow
        <3>2. q \in Procs BY Blocked
        <3>3. q \notin Agents BY <1>0, <3>1, <3>2, AgentsWait, RowsApart
        <3>4. ASSUME NEW m \in Blockers(q), m # b PROVE m # a /\ Blockers(m) \subseteq {b}
            <4>1. m \notin Agents /\ Blockers(m) \subseteq {b}
                BY <1>2, <1>8, <3>1, <3>2, <3>4, IntentHolder
            <4> QED BY <4>1
        <3> QED BY <3>3, <3>4
    <2>2. a \notin T BY <1>2, <2>1
    <2>3. \A q \in T : Blockers(q) \subseteq T BY <2>1
    <2> HIDE DEF T
    <2>4. b \in T BY DEF T
    <2> QED BY <2>2, <2>3, <2>4
<1> QED BY <1>5, <1>6, <1>7, <1>8

LEMMA NoRing ==
    ASSUME Inv, Routes, NEW a \in Agents, Quiet(Desk[a])
    PROVE  ~InRing(a)
<1> SUFFICES ASSUME NEW S, a \in S, S # {a},
                    \A U \in (SUBSET S) \ {{}, S} : \E q \in U : Blockers(q) \cap (S \ U) # {}
             PROVE  FALSE
    BY DEF InRing
<1>0. a \in Procs /\ Desk[a] \in Conversations BY ConversationAssumption DEF Procs
<1>1. PICK b \in Blockers(a) : b \in S
    <2>1. {a} \in (SUBSET S) \ {{}, S} OBVIOUS
    <2> QED BY <2>1
<1>2. PICK q \in S : a \in Blockers(q)
    <2>1. S \ {a} \in (SUBSET S) \ {{}, S} OBVIOUS
    <2>2. S \ (S \ {a}) = {a} OBVIOUS
    <2>3. \E q \in S \ {a} : Blockers(q) \cap (S \ (S \ {a})) # {} BY <2>1
    <2> QED BY <2>2, <2>3
<1>3. todo[a] # <<>> /\ b \in Procs /\ \E k \in held[b] : Conflict(k, Head(todo[a])) BY <1>1, Blocked
<1>4. held[a] # {} BY <1>2, Blocked
<1>5. CASE Head(todo[a]) \in {Share(Phone), Share(Waba)}
    <2>1. PICK k \in held[b] : Conflict(k, Head(todo[a])) BY <1>3
    <2>2. k.row \in {Phone, Waba} /\ k.mode # "share" BY <1>5, <2>1, RowsApart, Modes DEF Conflict
    <2> QED BY <1>3, <2>2, AnchorsShared
<1>6. CASE Head(todo[a]) = Exclusive(Note)
    <2>1. PICK k \in held[b] : k.row = Note BY <1>3, <1>6, RowsApart DEF Conflict
    <2>2. Blockers(b) = {} BY <1>3, <2>1, NoteHolder
    <2> DEFINE T == {b}
    <2>3. a \notin T /\ b \in T BY <1>1, Blocked
    <2>4. \A z \in T : Blockers(z) \subseteq T BY <2>2
    <2> HIDE DEF T
    <2> QED BY <1>1, <2>3, <2>4, NoWayBack
<1>7. CASE Head(todo[a]) = Exclusive(Row(Desk[a])) /\ Share(Contact(Desk[a])) \in held[a]
    <2>1. PICK T : b \in T /\ a \notin T /\ \A z \in T : Blockers(z) \subseteq T
        BY <1>0, <1>1, <1>3, <1>7, RowHolder
    <2> QED BY <1>1, <2>1, NoWayBack
<1> QED BY <1>3, <1>4, <1>5, <1>6, <1>7, AgentsWait

------------------------------------------------------------------------------
(* Theorems *)

\* The invariant: rows and their drafts keep their types, locks exclude each other, an
\* agent's page is the row or an earlier state of it (operations.go, materialize.go,
\* worker.go).
THEOREM Kept == Spec => []Inv
<1>1. Init => Inv BY InvStart
<1>2. Inv /\ [Next]_vars => Inv' BY InvNext
<1> QED BY <1>1, <1>2, PTL DEF Spec

\* Inbound messages are numbered without gap or repetition, each once, and the window
\* stands on the latest trusted text, however events cross, repeat and are retried
\* (materialize.go:177-206).
THEOREM InboundInOrder == Spec => []InboundAccounted
<1>1. Inv => InboundAccounted BY DEF Inv, Counted, InboundAccounted
<1> QED BY <1>1, Kept, PTL

\* An agent changes a conversation or note only as it was seen, and within reach at that
\* moment, however transactions interleave (operations.go:243, 269, 348-368).
THEOREM ChangesAreInformed == Spec => ChangesBuildOnWhatWasSeen
<1>1. Inv /\ [Next]_vars => [Informed]_vars BY StepsAreInformed
<1>2. ChangesBuildOnWhatWasSeen <=> [][Informed]_vars
    BY DEF ChangesBuildOnWhatWasSeen, Informed
<1> QED BY <1>1, <1>2, Kept, PTL DEF Spec

\* A snooze ends for its time, an inbound message or an agent, whatever waited for the
\* row meanwhile (worker.go:223; materialize.go:189; operations.go:269).
THEOREM SnoozesEndForCause == Spec => SnoozeEndsForCause
<1>1. Init => Ahead /\ Ages BY DEF Init, Ahead, Ages
<1>2. Inv /\ Inv' /\ Ahead /\ Ages /\ [Next]_vars =>
          (\A c \in Conversations : Caused(c)) /\ Ahead' /\ Ages'
    BY StepFate, FateDecides, AgesNext DEF Ahead
<1>3. Spec => [](Inv /\ Ahead /\ Ages)
    BY <1>1, <1>2, Kept, PTL DEF Spec
<1>4. Inv /\ Inv' /\ Ahead /\ Ages /\ [Next]_vars => [\A c \in Conversations : Caused(c)]_vars
    BY <1>2
<1>5. SnoozeEndsForCause <=> [][\A c \in Conversations : Caused(c)]_vars
    BY DEF SnoozeEndsForCause, Caused
<1> QED BY <1>3, <1>4, <1>5, Kept, PTL DEF Spec

\* A synchronisation, a recovery that wakes conversations, and a materialization that
\* told of a status in the agent's conversation are the only transactions that can catch
\* an agent's request in a ring of waits, whoever else takes part (service.go:104-107,
\* 121-127; materialize.go:164, 282; worker.go:59, 223; 00004_guarded_inbox.sql:112).
THEOREM RequestsKeepOrder == Spec => []RequestsWaitInOrder
<1>1. Init => Routes BY DEF Init, Routes, Lawful
<1>2. Spec => []Routes BY <1>1, RoutesNext, Kept, PTL DEF Spec
<1>3. Inv /\ Routes => RequestsWaitInOrder
    BY NoRing DEF RequestsWaitInOrder, Quiet
<1> QED BY <1>2, <1>3, Kept, PTL
==============================================================================
