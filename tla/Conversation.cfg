\* Two agents, two workers and a synchronisation, three of them at a time; one
\* request of each agent, one step of time, one fault.
CONSTANTS
    None = None
    a1 = a1
    a2 = a2
    w1 = w1
    w2 = w2
    s = s
    c1 = c1
    c2 = c2
    t1 = t1
    x = x
    y = y
    z = z
    rd = rd
    Agents = {a1, a2}
    Workers = {w1, w2}
    Syncer = s
    Conversations = {c1, c2}
    Teams = {t1}
    Reach <- Both
    Desk <- AtFirst
    Author = a1
    NoteOf = c1
    IntentOf = c1
    Patches <- Changes
    Messages = {x, y, z, rd}
    NumEvents = 3
    ItemsOf <- Arrived
    Scenes <- Threes
    MaxNow = 1
    MaxRequests = 1
    MaxFaults = 1
SPECIFICATION LiveSpec
INVARIANTS InboundAccounted RequestsWaitInOrder
PROPERTIES ChangesBuildOnWhatWasSeen SnoozeEndsForCause EverythingLands
CHECK_DEADLOCK FALSE
