----------------------------- MODULE SourceFeed -----------------------------
(***************************************************************************)
(* sourceEventBroadcaster: one upstream watch shared by every client of    *)
(* /api/source/v1/events.  The first client starts a run (an adapter and   *)
(* the goroutine that fans its events out), the last one to leave cancels  *)
(* it, and a generation number tells the end of a stale run from the end   *)
(* of the current one.                                                     *)
(*                                                                         *)
(* An event is the version of the source it announces.  An adapter takes   *)
(* a snapshot when it starts and announces every later version in order;   *)
(* how it finds them is the subject of ScopeEventAdapter.  A cancelled     *)
(* adapter may still announce: Go's select picks freely between a          *)
(* cancelled context and a ready channel.                                  *)
(***************************************************************************)
EXTENDS Integers, Sequences, FiniteSets

CONSTANTS
    Clients,        \* the connections made to the events endpoint
    OutCap,         \* sourceEventBufferCap
    SubCap,         \* sourceEventBroadcasterBufferCap
    MaxVersion,     \* bound: changes of the source
    MaxGen          \* bound: generations

ASSUME FeedAssumption ==
    /\ {OutCap, SubCap} \subseteq Nat \ {0}
    /\ MaxGen \in Nat

VARIABLES
    version,        \* changes of the source so far
    subs,           \* the registered clients
    started,
    runGen,
    runs,           \* the runs, by generation
    clients,        \* the channels of the clients, and what they received
    down            \* the server's context is cancelled

vars == <<version, subs, started, runGen, runs, clients, down>>
Gens == 1..MaxGen

NoRun == [state |-> "none", seen |-> 0, out |-> <<>>]
NewClient == [state |-> "new", buf |-> <<>>, base |-> 0, got |-> {}]

Init ==
    /\ version = 0
    /\ subs = {}
    /\ started = FALSE
    /\ runGen = 0
    /\ runs = [g \in Gens |-> NoRun]
    /\ clients = [c \in Clients |-> NewClient]
    /\ down = FALSE

-----------------------------------------------------------------------------
(* The adapter of a run.                                                   *)

Change ==
    /\ version < MaxVersion
    /\ version' = version + 1
    /\ UNCHANGED <<subs, started, runGen, runs, clients, down>>

Announce(g) ==
    /\ runs[g].state \in {"live", "cancelled"}
    /\ runs[g].seen < version
    /\ Len(runs[g].out) < OutCap
    /\ runs' = [runs EXCEPT ![g].seen = @ + 1,
                            ![g].out = Append(@, runs[g].seen + 1)]
    /\ UNCHANGED <<version, subs, started, runGen, clients, down>>

(* The adapter sees its context cancelled, closes its channel and returns. *)
AdapterStops(g) ==
    /\ runs[g].state = "cancelled"
    /\ runs' = [runs EXCEPT ![g].state = "closed"]
    /\ UNCHANGED <<version, subs, started, runGen, clients, down>>

-----------------------------------------------------------------------------
(* The broadcaster.  Each action is one hold of its mutex.                 *)

Cancel(rs) == [rs EXCEPT ![runGen].state = IF @ = "live" THEN "cancelled" ELSE @]

(* Close the channels of the clients in gone, given the channels and runs  *)
(* as they are by now.  The last client to leave stops the feed.           *)
MutRemoveKeepsEntry(gone, cs, rs) ==
    /\ clients' = [c \in Clients |->
           IF c \in gone THEN [cs[c] EXCEPT !.state = "closed"] ELSE cs[c]]
    /\ runs' = rs
    /\ UNCHANGED <<subs, started, runGen>>
MutRemoveNeverStops(gone, cs, rs) ==
    /\ subs' = subs \ gone
    /\ clients' = [c \in Clients |->
           IF c \in gone THEN [cs[c] EXCEPT !.state = "closed"] ELSE cs[c]]
    /\ runs' = rs
    /\ UNCHANGED <<started, runGen>>
removeSubscribersLocked(gone, cs, rs) ==
    LET last == started /\ gone # {} /\ subs = gone IN
    /\ subs' = subs \ gone
    /\ clients' = [c \in Clients |->
           IF c \in gone THEN [cs[c] EXCEPT !.state = "closed"] ELSE cs[c]]
    /\ runs' = IF last THEN Cancel(rs) ELSE rs
    /\ started' = (started /\ ~last)
    /\ runGen' = IF last THEN runGen + 1 ELSE runGen

Start == [runs EXCEPT ![runGen + 1] =
              [state |-> "live", seen |-> version, out |-> <<>>]]

(* The mutex is held while the adapter loads its snapshot, which fails     *)
(* under a cancelled context.                                              *)
ensureStartedLocked ==
    IF started
    THEN UNCHANGED <<started, runs, runGen>>
    ELSE /\ ~down
         /\ runGen < MaxGen
         /\ started' = TRUE
         /\ runs' = Start
         /\ runGen' = runGen + 1

Subscribe(c) ==
    /\ clients[c].state = "new"
    /\ ensureStartedLocked
    /\ subs' = subs \cup {c}
    /\ clients' = [clients EXCEPT ![c].state = "open", ![c].base = version]
    /\ UNCHANGED <<version, down>>

SubscribeFails(c) ==
    /\ clients[c].state = "new"
    /\ ~started
    /\ clients' = [clients EXCEPT ![c].state = "closed"]
    /\ UNCHANGED <<version, subs, started, runGen, runs, down>>

(* Every client gets the event, save those with a full buffer, which are   *)
(* removed.                                                                *)
Full == {c \in subs : Len(clients[c].buf) = SubCap}
Fanned(ev) ==
    [c \in Clients |->
        IF c \in subs \ Full THEN [clients[c] EXCEPT !.buf = Append(@, ev)]
                             ELSE clients[c]]

MutBroadcastDrops(g) ==
    /\ runs[g].out # <<>>
    /\ clients' = Fanned(Head(runs[g].out))
    /\ runs' = [runs EXCEPT ![g].out = Tail(@)]
    /\ UNCHANGED <<version, subs, started, runGen, down>>
broadcast(g) ==
    /\ runs[g].out # <<>>
    /\ removeSubscribersLocked(Full, Fanned(Head(runs[g].out)),
                               [runs EXCEPT ![g].out = Tail(@)])
    /\ UNCHANGED <<version, down>>

(* run returns.  Only the current one closes the clients' channels.        *)
RunEnds(g) ==
    /\ runs[g].state = "closed"
    /\ runs[g].out = <<>>
    /\ runs' = [runs EXCEPT ![g].state = "done"]
    /\ IF g # runGen
       THEN UNCHANGED <<started, subs, clients>>
       ELSE /\ started' = FALSE
            /\ subs' = {}
            /\ clients' = [c \in Clients |->
                   IF c \in subs THEN [clients[c] EXCEPT !.state = "closed"]
                                 ELSE clients[c]]
    /\ UNCHANGED <<version, runGen, down>>

-----------------------------------------------------------------------------
(* The handler of a client, which drains a closed channel, and the server. *)

Receive(c) ==
    /\ clients[c].buf # <<>>
    /\ clients' = [clients EXCEPT ![c].buf = Tail(@),
                                  ![c].got = @ \cup {Head(clients[c].buf)}]
    /\ UNCHANGED <<version, subs, started, runGen, runs, down>>

Disconnect(c) ==
    /\ c \in subs
    /\ removeSubscribersLocked({c}, clients, runs)
    /\ UNCHANGED <<version, down>>

(* The context of the server, and with it that of every run, is cancelled. *)
Shutdown ==
    /\ ~down
    /\ down' = TRUE
    /\ runs' = IF started THEN Cancel(runs) ELSE runs
    /\ UNCHANGED <<version, subs, started, runGen, clients>>

-----------------------------------------------------------------------------
Feed(g) == Announce(g) \/ AdapterStops(g) \/ broadcast(g) \/ RunEnds(g)

Next ==
    \/ Change
    \/ \E g \in Gens : Feed(g)
    \/ \E c \in Clients :
          Subscribe(c) \/ SubscribeFails(c) \/ Receive(c) \/ Disconnect(c)
    \/ Shutdown

(* The goroutines of a run and of a handler keep running.  Nothing makes a *)
(* client connect or leave, or the source change.                          *)
Fairness ==
    /\ \A g \in Gens : /\ WF_vars(Announce(g) /\ runs[g].state = "live")
                       /\ WF_vars(AdapterStops(g))
                       /\ WF_vars(broadcast(g))
                       /\ WF_vars(RunEnds(g))
    /\ \A c \in Clients : WF_vars(Receive(c))

Spec == Init /\ [][Next]_vars /\ Fairness

-----------------------------------------------------------------------------
Run == [state : {"none", "live", "cancelled", "closed", "done"},
        seen : Nat, out : Seq(Nat)]
Client == [state : {"new", "open", "closed"}, buf : Seq(Nat), base : Nat,
           got : SUBSET Nat]

TypeOK ==
    /\ version \in Nat
    /\ subs \subseteq Clients
    /\ started \in BOOLEAN
    /\ runGen \in Nat
    /\ runs \in [Gens -> Run]
    /\ clients \in [Clients -> Client]
    /\ down \in BOOLEAN
    /\ \A g \in Gens : Len(runs[g].out) <= OutCap
    /\ \A c \in Clients : Len(clients[c].buf) <= SubCap

(* The broadcaster never sends on a channel it has closed, which would     *)
(* panic the server, and never forgets to close one it has dropped.        *)
RegisteredIsOpen == \A c \in Clients : c \in subs <=> clients[c].state = "open"

(* No order of leaving, joining and late run ends leaves two adapters at   *)
(* work, or one that nothing will cancel.                                  *)
OneFeed == \A g \in Gens : runs[g].state = "live" => started /\ g = runGen

(* A registered client is served by the current run; when the server goes  *)
(* down that run is still to end and to close the client's channel.        *)
SubscribersAreFed ==
    subs # {} => /\ started
                 /\ runGen \in Gens
                 /\ runs[runGen].state \in
                      IF down THEN {"cancelled", "closed"} ELSE {"live"}

(* The registry, the run and the channels agree.                           *)
FeedIsWhole == RegisteredIsOpen /\ OneFeed /\ SubscribersAreFed

Elements(s) == {s[i] : i \in 1..Len(s)}

(* A client that stays registered misses nothing: each version since it    *)
(* subscribed was received, waits in its buffer or in the current run, or  *)
(* is still to be announced by that run.                                   *)
NothingSkipped ==
    \A c \in subs : \A v \in (clients[c].base + 1)..version :
        \/ v \in clients[c].got \cup Elements(clients[c].buf)
        \/ v \in Elements(runs[runGen].out)
        \/ v > runs[runGen].seen

(* Each version reaches every client that was registered when it appeared, *)
(* or the client is told that it has to reconnect.                         *)
ClientsCatchUp ==
    \A c \in Clients : \A v \in 1..MaxVersion :
        (c \in subs /\ version = v /\ clients[c].base < v)
            ~> (v \in clients[c].got \/ c \notin subs)

(* When the clients are gone for good no adapter or goroutine is left.     *)
NothingLeaks ==
    <>[](subs = {}) => <>[](\A g \in Gens : runs[g].state \in {"none", "done"})

=============================================================================
