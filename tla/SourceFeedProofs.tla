-------------------------- MODULE SourceFeedProofs --------------------------
(***************************************************************************)
(* Safety of the source event feed for every number of clients, buffer     *)
(* capacity, number of changes and number of generations.                  *)
(***************************************************************************)
EXTENDS SourceFeed, SequenceTheorems, TLAPS

(* No adapter announces more than there is.                                *)
SeenBound == \A g \in Gens : runs[g].seen <= version

(* SubscribersAreFed is not inductive by itself: a client that subscribes  *)
(* to a started feed relies on that feed being sound although it had no    *)
(* client a step ago.                                                      *)
FeedInv ==
    /\ subs # {} => started
    /\ started => /\ runGen \in Gens
                  /\ runs[runGen].state \in
                       IF down THEN {"cancelled", "closed"} ELSE {"live"}

Shape == TypeOK /\ RegisteredIsOpen /\ OneFeed /\ FeedInv /\ SeenBound

(* The bare conjuncts of NothingSkipped, for one client and one version.   *)
Held(c, v) ==
    \/ v \in clients[c].got \cup Elements(clients[c].buf)
    \/ v \in Elements(runs[runGen].out)
    \/ v > runs[runGen].seen

IInv == Shape /\ NothingSkipped

-----------------------------------------------------------------------------
(* What queueing and dequeueing do to the events a channel holds.          *)
LEMMA Queueing ==
    ASSUME NEW s \in Seq(Nat), NEW e \in Nat
    PROVE  /\ Append(s, e) \in Seq(Nat)
           /\ Len(Append(s, e)) = Len(s) + 1
           /\ Elements(Append(s, e)) = Elements(s) \cup {e}
  <1>1. /\ Append(s, e) \in Seq(Nat)
        /\ Len(Append(s, e)) = Len(s) + 1
        /\ \A i \in 1..Len(s) : Append(s, e)[i] = s[i]
        /\ Append(s, e)[Len(s) + 1] = e
    BY AppendProperties
  <1>2. Len(s) \in Nat
    BY LenProperties
  <1>3. 1..(Len(s) + 1) = 1..Len(s) \cup {Len(s) + 1}
    BY <1>2
  <1>. QED BY <1>1, <1>2, <1>3 DEF Elements

LEMMA Dequeueing ==
    ASSUME NEW s \in Seq(Nat), s # <<>>
    PROVE  /\ Head(s) \in Nat
           /\ Tail(s) \in Seq(Nat)
           /\ Len(Tail(s)) = Len(s) - 1
           /\ Elements(s) \subseteq {Head(s)} \cup Elements(Tail(s))
  <1>1. /\ Head(s) = s[1] /\ Head(s) \in Nat
        /\ Tail(s) \in Seq(Nat)
        /\ Len(Tail(s)) = Len(s) - 1
        /\ \A i \in 1..Len(Tail(s)) : Tail(s)[i] = s[i + 1]
    BY HeadTailProperties
  <1>2. Len(s) \in Nat
    BY LenProperties
  <1>3. ASSUME NEW i \in 1..Len(s) PROVE s[i] \in {Head(s)} \cup Elements(Tail(s))
    <2>1. CASE i = 1
      BY <1>1, <2>1
    <2>2. CASE i # 1
      <3>1. i - 1 \in 1..Len(Tail(s)) /\ Tail(s)[i - 1] = s[i]
        BY <1>1, <1>2, <2>2
      <3>. QED BY <3>1 DEF Elements
    <2>. QED BY <2>1, <2>2
  <1>. QED BY <1>1, <1>3 DEF Elements

(* Channels and runs that differ from the current ones in what waits in    *)
(* them, within the capacities.                                            *)
Requeued(cs, rs) ==
    /\ cs \in [Clients -> Client]
    /\ rs \in [Gens -> Run]
    /\ \A c \in Clients : Len(cs[c].buf) <= SubCap /\ cs[c].state = clients[c].state
    /\ \A g \in Gens : /\ Len(rs[g].out) <= OutCap
                       /\ rs[g].state = runs[g].state
                       /\ rs[g].seen = runs[g].seen

(* Closing the channels of the clients in gone, whatever the caller has    *)
(* put into the buffers and taken out of the runs before.                  *)
LEMMA Removal ==
    ASSUME Shape,
           NEW gone \in SUBSET subs,
           NEW cs, NEW rs, Requeued(cs, rs),
           removeSubscribersLocked(gone, cs, rs),
           version' = version, down' = down
    PROVE  /\ Shape'
           /\ subs' = subs \ gone
           /\ \A c \in subs' : clients'[c] = cs[c]
           /\ subs' # {} => runGen' = runGen /\ runs' = rs
  <1>. DEFINE last == started /\ gone # {} /\ subs = gone
              off == Cancel(rs)
  <1>. USE DEF Requeued
  <1>1. /\ subs' = subs \ gone
        /\ clients' = [c \in Clients |->
               IF c \in gone THEN [cs[c] EXCEPT !.state = "closed"] ELSE cs[c]]
        /\ runs' = IF last THEN off ELSE rs
        /\ started' = (started /\ ~last)
        /\ runGen' = IF last THEN runGen + 1 ELSE runGen
    BY DEF removeSubscribersLocked
  <1>2. ASSUME NEW g \in Gens
        PROVE  /\ off[g] \in Run
               /\ off[g].out = rs[g].out
               /\ off[g].seen = rs[g].seen
               /\ off[g].state = IF g = runGen /\ rs[g].state = "live"
                                 THEN "cancelled" ELSE rs[g].state
    BY DEF Cancel, Run
  <1>3. off \in [Gens -> Run]
    BY <1>2 DEF Cancel
  <1>4. TypeOK'
    <2>1. runs' \in [Gens -> Run] /\ \A g \in Gens : Len(runs'[g].out) <= OutCap
      BY <1>1, <1>2, <1>3
    <2>2. /\ clients' \in [Clients -> Client]
          /\ \A c \in Clients : Len(clients'[c].buf) <= SubCap
      BY <1>1 DEF Client
    <2>3. version' \in Nat /\ down' \in BOOLEAN /\ subs' \subseteq Clients
      BY <1>1 DEF Shape, TypeOK
    <2>4. started' \in BOOLEAN /\ runGen' \in Nat
      BY <1>1 DEF Shape, TypeOK
    <2>. QED BY <2>1, <2>2, <2>3, <2>4 DEF TypeOK
  <1>5. RegisteredIsOpen'
    BY <1>1 DEF Shape, RegisteredIsOpen, TypeOK, Client
  <1>6. OneFeed'
    BY <1>1, <1>2 DEF Shape, OneFeed
  <1>7. FeedInv'
    BY <1>1, <1>2 DEF Shape, FeedInv
  <1>8. SeenBound'
    BY <1>1, <1>2 DEF Shape, SeenBound
  <1>9. \A c \in subs' : clients'[c] = cs[c]
    BY <1>1 DEF Shape, TypeOK
  <1>10. subs' # {} => runGen' = runGen /\ runs' = rs
    BY <1>1
  <1>. QED BY <1>1, <1>4, <1>5, <1>6, <1>7, <1>8, <1>9, <1>10 DEF Shape

-----------------------------------------------------------------------------
LEMMA Initially == ASSUME FeedAssumption, Init PROVE IInv
  <1>1. <<>> \in Seq(Nat) /\ Len(<<>>) = 0
    BY EmptySeq
  <1>2. NoRun \in Run /\ NewClient \in Client
    BY <1>1 DEF NoRun, NewClient, Run, Client
  <1>3. TypeOK
    <2>1. runs \in [Gens -> Run] /\ clients \in [Clients -> Client]
      BY <1>2 DEF Init
    <2>2. \A g \in Gens : Len(runs[g].out) <= OutCap
      BY <1>1 DEF Init, NoRun, FeedAssumption
    <2>3. \A c \in Clients : Len(clients[c].buf) <= SubCap
      BY <1>1 DEF Init, NewClient, FeedAssumption
    <2>. QED BY <2>1, <2>2, <2>3 DEF Init, TypeOK
  <1>4. RegisteredIsOpen /\ OneFeed /\ FeedInv /\ SeenBound /\ NothingSkipped
    BY DEF Init, RegisteredIsOpen, OneFeed, FeedInv, SeenBound, NothingSkipped,
           NoRun, NewClient
  <1>. QED BY <1>3, <1>4 DEF IInv, Shape
LEMMA ChangeKeeps == ASSUME IInv, Change PROVE IInv'
  <1>1. Shape'
    <2>1. TypeOK' /\ RegisteredIsOpen' /\ OneFeed' /\ FeedInv'
      BY DEF IInv, Shape, Change, TypeOK, RegisteredIsOpen, OneFeed, FeedInv
    <2>2. ASSUME NEW g \in Gens PROVE runs'[g].seen <= version'
      <3>1. runs[g].seen \in Nat /\ version \in Nat /\ runs[g].seen <= version
        BY DEF IInv, Shape, TypeOK, SeenBound, Run
      <3>. QED BY <3>1 DEF Change
    <2>. QED BY <2>1, <2>2 DEF Shape, SeenBound
  <1>2. NothingSkipped'
    <2>. SUFFICES ASSUME NEW c \in subs, NEW v \in (clients[c].base + 1)..(version + 1)
                  PROVE  Held(c, v)
      BY DEF Change, NothingSkipped, Held
    <2>1. c \in Clients /\ clients[c].base \in Nat /\ version \in Nat
      BY DEF IInv, Shape, TypeOK, Client
    <2>2. CASE v <= version
      BY <2>1, <2>2 DEF IInv, NothingSkipped, Held
    <2>3. CASE v = version + 1
      <3>1. runGen \in Gens /\ runs[runGen].seen \in Nat /\ runs[runGen].seen <= version
        BY DEF IInv, Shape, FeedInv, SeenBound, TypeOK, Run
      <3>. QED BY <2>1, <2>3, <3>1 DEF Held
    <2>. QED BY <2>1, <2>2, <2>3
  <1>. QED BY <1>1, <1>2 DEF IInv

LEMMA AnnounceKeeps ==
    ASSUME IInv, NEW g \in Gens, Announce(g) PROVE IInv'
  <1>. DEFINE ev == runs[g].seen + 1
  <1>1. runs[g] \in Run /\ ev \in Nat /\ runs[g].out \in Seq(Nat)
    BY DEF IInv, Shape, TypeOK, Run
  <1>2. /\ Append(runs[g].out, ev) \in Seq(Nat)
        /\ Len(Append(runs[g].out, ev)) = Len(runs[g].out) + 1
        /\ Elements(Append(runs[g].out, ev)) = Elements(runs[g].out) \cup {ev}
    BY <1>1, Queueing
  <1>3. Len(runs[g].out) \in Nat
    BY <1>1, LenProperties
  <1>4. runs'[g] = [runs[g] EXCEPT !.seen = ev, !.out = Append(runs[g].out, ev)]
    BY DEF Announce, IInv, Shape, TypeOK
  <1>5. \A h \in Gens \ {g} : runs'[h] = runs[h]
    BY DEF Announce, IInv, Shape, TypeOK
  <1>6. /\ runs'[g] \in Run /\ runs'[g].state = runs[g].state
        /\ runs'[g].seen = ev /\ runs'[g].out = Append(runs[g].out, ev)
    BY <1>1, <1>2, <1>4 DEF Run
  <1>7. Shape'
    <2>1. runs' \in [Gens -> Run]
      BY <1>5, <1>6 DEF Announce, IInv, Shape, TypeOK
    <2>2. \A h \in Gens : Len(runs'[h].out) <= OutCap
      <3>1. Len(runs[g].out) + 1 <= OutCap
        BY <1>3, FeedAssumption DEF Announce, FeedAssumption
      <3>. QED BY <1>2, <1>5, <1>6, <3>1 DEF IInv, Shape, TypeOK
    <2>3. TypeOK'
      BY <2>1, <2>2 DEF Announce, IInv, Shape, TypeOK
    <2>4. RegisteredIsOpen' /\ OneFeed' /\ FeedInv'
      BY <1>5, <1>6 DEF Announce, IInv, Shape, RegisteredIsOpen, OneFeed, FeedInv
    <2>5. SeenBound'
      <3>1. ev <= version /\ version' = version
        BY <1>1 DEF Announce, Run, IInv, Shape, TypeOK
      <3>. QED BY <1>5, <1>6, <3>1 DEF IInv, Shape, SeenBound
    <2>. QED BY <2>3, <2>4, <2>5 DEF Shape
  <1>8. NothingSkipped'
    <2>. SUFFICES ASSUME NEW c \in subs, NEW v \in (clients[c].base + 1)..version
                  PROVE  Held(c, v)'
      BY DEF Announce, NothingSkipped, Held
    <2>1. Held(c, v)
      BY DEF IInv, NothingSkipped, Held
    <2>2. v \in Int
      BY DEF IInv, Shape, TypeOK, Client
    <2>3. CASE g = runGen
      <3>1. /\ clients' = clients /\ runGen' = g
            /\ runs'[g].out = Append(runs[g].out, ev) /\ runs'[g].seen = ev
        BY <1>6, <2>3 DEF Announce
      <3>2. CASE v > runs[g].seen
        <4>1. v = ev \/ v > ev
          BY <1>1, <2>2, <3>2 DEF Run
        <4>. QED BY <1>2, <3>1, <4>1 DEF Held
      <3>3. CASE v \in Elements(runs[g].out)
        BY <1>2, <3>1, <3>3 DEF Held
      <3>4. CASE v \in clients[c].got \cup Elements(clients[c].buf)
        BY <3>1, <3>4 DEF Held
      <3>. QED BY <2>1, <2>3, <3>2, <3>3, <3>4 DEF Held
    <2>4. CASE g # runGen
      <3>1. runGen \in Gens
        BY DEF IInv, Shape, FeedInv
      <3>. QED BY <1>5, <2>1, <2>4, <3>1 DEF Announce, Held
    <2>. QED BY <2>3, <2>4
  <1>. QED BY <1>7, <1>8 DEF IInv

LEMMA AdapterStopsKeeps ==
    ASSUME IInv, NEW g \in Gens, AdapterStops(g) PROVE IInv'
  <1>1. /\ runs[g] \in Run
        /\ runs'[g] = [runs[g] EXCEPT !.state = "closed"]
        /\ \A h \in Gens \ {g} : runs'[h] = runs[h]
    BY DEF AdapterStops, IInv, Shape, TypeOK
  <1>2. /\ runs'[g] \in Run /\ runs'[g].state = "closed"
        /\ runs'[g].seen = runs[g].seen /\ runs'[g].out = runs[g].out
    BY <1>1 DEF Run
  <1>3. TypeOK'
    BY <1>1, <1>2 DEF AdapterStops, IInv, Shape, TypeOK
  <1>4. RegisteredIsOpen' /\ OneFeed' /\ SeenBound'
    BY <1>1, <1>2 DEF AdapterStops, IInv, Shape, RegisteredIsOpen, OneFeed, SeenBound
  <1>5. FeedInv'
    BY <1>1, <1>2 DEF AdapterStops, IInv, Shape, FeedInv
  <1>6. NothingSkipped'
    <2>1. \A h \in Gens : runs'[h].out = runs[h].out /\ runs'[h].seen = runs[h].seen
      BY <1>1, <1>2
    <2>2. subs # {} => runGen \in Gens
      BY DEF IInv, Shape, FeedInv
    <2>. QED BY <2>1, <2>2 DEF AdapterStops, IInv, NothingSkipped
  <1>. QED BY <1>3, <1>4, <1>5, <1>6 DEF IInv, Shape
LEMMA SubscribeKeeps ==
    ASSUME IInv, NEW c \in Clients, Subscribe(c) PROVE IInv'
  <1>1. /\ clients'[c] = [clients[c] EXCEPT !.state = "open", !.base = version]
        /\ \A d \in Clients \ {c} : clients'[d] = clients[d]
        /\ clients[c] \in Client /\ version \in Nat
    BY DEF Subscribe, IInv, Shape, TypeOK
  <1>2. /\ clients'[c] \in Client /\ clients'[c].state = "open"
        /\ clients'[c].base = version /\ clients'[c].buf = clients[c].buf
    BY <1>1 DEF Client
  <1>3. clients' \in [Clients -> Client]
    BY <1>1, <1>2 DEF Subscribe, IInv, Shape, TypeOK
  <1>4. \A d \in Clients : Len(clients'[d].buf) <= SubCap
    BY <1>1, <1>2 DEF IInv, Shape, TypeOK
  <1>5. subs' = subs \cup {c} /\ version' = version /\ down' = down
    BY DEF Subscribe
  <1>6. RegisteredIsOpen'
    BY <1>1, <1>2, <1>5 DEF IInv, Shape, RegisteredIsOpen
  <1>7. CASE started
    <2>1. started' = started /\ runs' = runs /\ runGen' = runGen
      BY <1>7 DEF Subscribe, ensureStartedLocked
    <2>2. TypeOK'
      BY <1>3, <1>4, <1>5, <2>1 DEF IInv, Shape, TypeOK
    <2>3. OneFeed' /\ FeedInv' /\ SeenBound'
      BY <1>5, <1>7, <2>1 DEF IInv, Shape, OneFeed, FeedInv, SeenBound
    <2>4. NothingSkipped'
      <3>1. ASSUME NEW v \in (version + 1)..version PROVE FALSE
        BY <1>1
      <3>. QED BY <1>1, <1>2, <1>5, <2>1, <3>1 DEF IInv, Shape, TypeOK, NothingSkipped
    <2>. QED BY <1>6, <2>2, <2>3, <2>4 DEF IInv, Shape
  <1>8. CASE ~started
    <2>1. /\ ~down /\ runGen < MaxGen /\ started' = TRUE
          /\ runs' = Start /\ runGen' = runGen + 1
      BY <1>8 DEF Subscribe, ensureStartedLocked
    <2>2. runGen' \in Gens /\ runGen' \in Nat
      BY <2>1, FeedAssumption DEF FeedAssumption, Gens, IInv, Shape, TypeOK
    <2>3. /\ runs'[runGen'] = [state |-> "live", seen |-> version, out |-> <<>>]
          /\ \A g \in Gens \ {runGen'} : runs'[g] = runs[g]
          /\ runs' = [runs EXCEPT ![runGen'] = runs'[runGen']]
      BY <2>1, <2>2 DEF Start, IInv, Shape, TypeOK
    <2>4. <<>> \in Seq(Nat) /\ Len(<<>>) = 0
      BY EmptySeq
    <2>5. runs' \in [Gens -> Run] /\ runs'[runGen'].state = "live"
          /\ runs'[runGen'].seen = version /\ runs'[runGen'].out = <<>>
      <3>1. runs'[runGen'] \in Run
        BY <1>1, <2>3, <2>4 DEF Run
      <3>2. runs \in [Gens -> Run]
        BY DEF IInv, Shape, TypeOK
      <3>3. runs' \in [Gens -> Run]
        BY <2>2, <2>3, <3>1, <3>2
      <3>. QED BY <2>3, <3>3
    <2>6. \A g \in Gens : Len(runs'[g].out) <= OutCap
      BY <2>3, <2>4, <2>5, FeedAssumption DEF FeedAssumption, IInv, Shape, TypeOK
    <2>7. TypeOK'
      BY <1>3, <1>4, <1>5, <2>1, <2>2, <2>5, <2>6 DEF IInv, Shape, TypeOK
    <2>8. \A g \in Gens : runs[g].state # "live"
      BY <1>8 DEF IInv, Shape, OneFeed
    <2>9. OneFeed' /\ FeedInv'
      BY <1>5, <2>1, <2>2, <2>3, <2>5, <2>8 DEF OneFeed, FeedInv
    <2>10. SeenBound'
      BY <1>1, <1>5, <2>3, <2>5 DEF IInv, Shape, SeenBound
    <2>11. NothingSkipped'
      <3>1. subs' = {c}
        BY <1>5, <1>8 DEF IInv, Shape, FeedInv
      <3>2. ASSUME NEW v \in (version + 1)..version PROVE FALSE
        BY <1>1
      <3>. QED BY <1>2, <1>5, <3>1, <3>2 DEF NothingSkipped
    <2>. QED BY <1>6, <2>7, <2>9, <2>10, <2>11 DEF IInv, Shape
  <1>. QED BY <1>7, <1>8

LEMMA SubscribeFailsKeeps ==
    ASSUME IInv, NEW c \in Clients, SubscribeFails(c) PROVE IInv'
  <1>1. /\ clients[c] \in Client
        /\ clients'[c] = [clients[c] EXCEPT !.state = "closed"]
        /\ \A d \in Clients \ {c} : clients'[d] = clients[d]
    BY DEF SubscribeFails, IInv, Shape, TypeOK
  <1>2. clients'[c] \in Client /\ clients'[c].state = "closed"
        /\ clients'[c].buf = clients[c].buf
    BY <1>1 DEF Client
  <1>3. c \notin subs
    BY DEF SubscribeFails, IInv, Shape, RegisteredIsOpen
  <1>4. TypeOK'
    BY <1>1, <1>2 DEF SubscribeFails, IInv, Shape, TypeOK
  <1>5. RegisteredIsOpen'
    BY <1>1, <1>2, <1>3 DEF SubscribeFails, IInv, Shape, RegisteredIsOpen
  <1>6. OneFeed' /\ FeedInv' /\ SeenBound'
    BY DEF SubscribeFails, IInv, Shape, OneFeed, FeedInv, SeenBound
  <1>7. NothingSkipped'
    BY <1>1, <1>3 DEF SubscribeFails, IInv, Shape, TypeOK, NothingSkipped
  <1>. QED BY <1>4, <1>5, <1>6, <1>7 DEF IInv, Shape

LEMMA ReceiveKeeps ==
    ASSUME IInv, NEW c \in Clients, Receive(c) PROVE IInv'
  <1>1. /\ clients[c] \in Client /\ clients[c].buf \in Seq(Nat)
        /\ clients'[c] = [clients[c] EXCEPT !.buf = Tail(clients[c].buf),
                              !.got = clients[c].got \cup {Head(clients[c].buf)}]
        /\ \A d \in Clients \ {c} : clients'[d] = clients[d]
    BY DEF Receive, IInv, Shape, TypeOK, Client
  <1>2. /\ Head(clients[c].buf) \in Nat
        /\ Tail(clients[c].buf) \in Seq(Nat)
        /\ Len(Tail(clients[c].buf)) = Len(clients[c].buf) - 1
        /\ Elements(clients[c].buf)
             \subseteq {Head(clients[c].buf)} \cup Elements(Tail(clients[c].buf))
    BY <1>1, Dequeueing DEF Receive
  <1>3. /\ clients'[c] \in Client /\ clients'[c].state = clients[c].state
        /\ clients'[c].base = clients[c].base
        /\ clients'[c].buf = Tail(clients[c].buf)
        /\ clients'[c].got = clients[c].got \cup {Head(clients[c].buf)}
    <2>1. clients[c].got \cup {Head(clients[c].buf)} \in SUBSET Nat
      BY <1>1, <1>2 DEF Client
    <2>. HIDE <1>2
    <2>2. Tail(clients[c].buf) \in Seq(Nat)
      BY <1>2
    <2>. QED BY <1>1, <2>1, <2>2 DEF Client
  <1>4. Len(clients[c].buf) \in Nat /\ SubCap \in Nat
    BY <1>1, LenProperties, FeedAssumption DEF FeedAssumption
  <1>5. clients' \in [Clients -> Client]
    BY <1>1, <1>3 DEF Receive, IInv, Shape, TypeOK
  <1>6. Len(clients'[c].buf) <= SubCap
    BY <1>2, <1>3, <1>4 DEF IInv, Shape, TypeOK
  <1>7. TypeOK'
    BY <1>1, <1>5, <1>6 DEF Receive, IInv, Shape, TypeOK
  <1>8. RegisteredIsOpen'
    BY <1>1, <1>3 DEF Receive, IInv, Shape, RegisteredIsOpen
  <1>9. OneFeed' /\ FeedInv' /\ SeenBound'
    BY DEF Receive, IInv, Shape, OneFeed, FeedInv, SeenBound
  <1>10. NothingSkipped'
    <2>. SUFFICES ASSUME NEW d \in subs,
                         NEW v \in (clients'[d].base + 1)..version
                  PROVE  Held(d, v)'
      BY DEF Receive, NothingSkipped, Held
    <2>1. d \in Clients /\ clients'[d].base = clients[d].base
      BY <1>1, <1>3 DEF IInv, Shape, TypeOK
    <2>2. Held(d, v)
      BY <2>1 DEF IInv, NothingSkipped, Held
    <2>3. CASE d = c
      BY <1>2, <1>3, <2>2, <2>3 DEF Receive, Held
    <2>4. CASE d # c
      BY <1>1, <2>1, <2>2, <2>4 DEF Receive, Held
    <2>. QED BY <2>3, <2>4
  <1>. QED BY <1>7, <1>8, <1>9, <1>10 DEF IInv, Shape
(* The fan-out: every client keeps its place in the stream, the head of    *)
(* the run's channel has moved to the buffers that had room, and the       *)
(* others' clients are closed.                                             *)
LEMMA BroadcastKeeps ==
    ASSUME IInv, NEW g \in Gens, broadcast(g) PROVE IInv'
  <1>. DEFINE ev == Head(runs[g].out)
              cs == Fanned(ev)
              rs == [runs EXCEPT ![g].out = Tail(runs[g].out)]
  <1>1. /\ runs[g] \in Run /\ runs[g].out \in Seq(Nat) /\ runs[g].out # <<>>
        /\ removeSubscribersLocked(Full, cs, rs)
        /\ version' = version /\ down' = down
    BY DEF broadcast, IInv, Shape, TypeOK, Run
  <1>2. /\ ev \in Nat
        /\ Tail(runs[g].out) \in Seq(Nat)
        /\ Len(Tail(runs[g].out)) = Len(runs[g].out) - 1
        /\ Elements(runs[g].out) \subseteq {ev} \cup Elements(Tail(runs[g].out))
    BY <1>1, Dequeueing
  <1>3. /\ rs[g] = [runs[g] EXCEPT !.out = Tail(runs[g].out)]
        /\ \A h \in Gens \ {g} : rs[h] = runs[h]
    BY DEF IInv, Shape, TypeOK
  <1>4. /\ rs[g] \in Run /\ rs[g].state = runs[g].state
        /\ rs[g].seen = runs[g].seen /\ rs[g].out = Tail(runs[g].out)
    <2>. DEFINE r == runs[g]
                t == Tail(runs[g].out)
    <2>1. r \in Run /\ t \in Seq(Nat) /\ rs[g] = [r EXCEPT !.out = t]
      BY <1>1, <1>2, <1>3
    <2>. HIDE DEF r, t, rs
    <2>2. /\ rs[g] \in Run /\ rs[g].state = r.state
          /\ rs[g].seen = r.seen /\ rs[g].out = t
      BY <2>1 DEF Run
    <2>. QED BY <2>2 DEF r, t
  <1>5. rs \in [Gens -> Run]
    BY <1>3, <1>4 DEF IInv, Shape, TypeOK
  <1>6. \A h \in Gens : /\ Len(rs[h].out) <= OutCap
                        /\ rs[h].state = runs[h].state
                        /\ rs[h].seen = runs[h].seen
    <2>1. Len(runs[g].out) \in Nat /\ Len(runs[g].out) <= OutCap /\ OutCap \in Nat
      BY <1>1, LenProperties, FeedAssumption DEF FeedAssumption, IInv, Shape, TypeOK
    <2>2. Len(rs[g].out) <= OutCap
      BY <1>2, <1>4, <2>1
    <2>. QED BY <1>3, <1>4, <2>2 DEF IInv, Shape, TypeOK
  <1>7. ASSUME NEW c \in Clients
        PROVE  /\ cs[c] \in Client /\ cs[c].state = clients[c].state
               /\ cs[c].base = clients[c].base /\ cs[c].got = clients[c].got
               /\ Len(cs[c].buf) <= SubCap
               /\ c \in subs \ Full =>
                    Elements(cs[c].buf) = Elements(clients[c].buf) \cup {ev}
    <2>1. /\ clients[c] \in Client /\ clients[c].buf \in Seq(Nat)
          /\ Len(clients[c].buf) <= SubCap
      BY DEF IInv, Shape, TypeOK, Client
    <2>2. CASE c \in subs \ Full
      <3>1. cs[c] = [clients[c] EXCEPT !.buf = Append(clients[c].buf, ev)]
        BY <2>2 DEF Fanned
      <3>2. /\ Append(clients[c].buf, ev) \in Seq(Nat)
            /\ Len(Append(clients[c].buf, ev)) = Len(clients[c].buf) + 1
            /\ Elements(Append(clients[c].buf, ev)) = Elements(clients[c].buf) \cup {ev}
        BY <1>2, <2>1, Queueing
      <3>3. /\ cs[c] \in Client /\ cs[c].state = clients[c].state
            /\ cs[c].base = clients[c].base /\ cs[c].got = clients[c].got
            /\ cs[c].buf = Append(clients[c].buf, ev)
        BY <2>1, <3>1, <3>2 DEF Client
      <3>4. Len(clients[c].buf) # SubCap
        BY <2>2 DEF Full
      <3>5. Len(clients[c].buf) \in Nat /\ SubCap \in Nat
        BY <2>1, LenProperties, FeedAssumption DEF FeedAssumption
      <3>6. Len(cs[c].buf) <= SubCap
        <4>1. Len(clients[c].buf) <= SubCap
          BY <2>1
        <4>2. Len(cs[c].buf) = Len(clients[c].buf) + 1
          BY <3>2, <3>3
        <4>. HIDE DEF cs
        <4>. QED BY <3>4, <3>5, <4>1, <4>2
      <3>7. Elements(cs[c].buf) = Elements(clients[c].buf) \cup {ev}
        BY <3>2, <3>3
      <3>. HIDE DEF cs, ev
      <3>. QED BY <3>3, <3>6, <3>7
    <2>3. CASE c \notin subs \ Full
      BY <2>1, <2>3 DEF Fanned
    <2>. QED BY <2>2, <2>3
  <1>8. cs \in [Clients -> Client]
    BY <1>7 DEF Fanned
  <1>9. Full \in SUBSET subs
    BY DEF Full
  <1>10. Shape
    BY DEF IInv
  <1>11. \A c \in Clients : Len(cs[c].buf) <= SubCap /\ cs[c].state = clients[c].state
    BY <1>7
  <1>. HIDE DEF cs, rs, ev
  <1>12. /\ Shape'
         /\ subs' = subs \ Full
         /\ \A c \in subs' : clients'[c] = cs[c]
         /\ subs' # {} => runGen' = runGen /\ runs' = rs
    <2>1. removeSubscribersLocked(Full, cs, rs) /\ version' = version /\ down' = down
      BY <1>1
    <2>. HIDE DEF Full
    <2>2. Requeued(cs, rs)
      BY <1>5, <1>6, <1>8, <1>11 DEF Requeued
    <2>. QED BY <1>9, <1>10, <2>1, <2>2, Removal
  <1>13. NothingSkipped'
    <2>. SUFFICES ASSUME NEW c \in subs',
                         NEW v \in (clients'[c].base + 1)..version
                  PROVE  Held(c, v)'
      BY <1>1 DEF NothingSkipped, Held
    <2>1. /\ c \in subs \ Full /\ c \in Clients
          /\ clients'[c] = cs[c] /\ runGen' = runGen /\ runs' = rs
      BY <1>12 DEF IInv, Shape, TypeOK
    <2>2. Held(c, v)
      BY <1>7, <2>1 DEF IInv, NothingSkipped, Held
    <2>3. runGen \in Gens
      BY <2>1 DEF IInv, Shape, FeedInv
    <2>4. CASE v \in clients[c].got \cup Elements(clients[c].buf)
      BY <1>7, <2>1, <2>4 DEF Held
    <2>5. CASE v > runs[runGen].seen
      BY <1>6, <2>1, <2>3, <2>5 DEF Held
    <2>6. CASE v \in Elements(runs[runGen].out)
      <3>1. CASE g = runGen
        BY <1>2, <1>4, <1>7, <2>1, <2>6, <3>1 DEF Held
      <3>2. CASE g # runGen
        BY <1>3, <2>1, <2>3, <2>6, <3>2 DEF Held, rs
      <3>. QED BY <3>1, <3>2
    <2>. QED BY <2>2, <2>4, <2>5, <2>6 DEF Held
  <1>. QED BY <1>12, <1>13 DEF IInv

LEMMA DisconnectKeeps ==
    ASSUME IInv, NEW c \in Clients, Disconnect(c) PROVE IInv'
  <1>1. /\ {c} \in SUBSET subs
        /\ removeSubscribersLocked({c}, clients, runs)
        /\ version' = version /\ down' = down
    BY DEF Disconnect
  <1>2. Shape /\ Requeued(clients, runs)
    BY DEF Requeued, IInv, Shape, TypeOK
  <1>3. /\ Shape'
        /\ subs' = subs \ {c}
        /\ \A d \in subs' : clients'[d] = clients[d]
        /\ subs' # {} => runGen' = runGen /\ runs' = runs
    BY <1>1, <1>2, Removal
  <1>4. NothingSkipped'
    BY <1>1, <1>3 DEF IInv, NothingSkipped
  <1>. QED BY <1>3, <1>4 DEF IInv

LEMMA RunEndsKeeps ==
    ASSUME IInv, NEW g \in Gens, RunEnds(g) PROVE IInv'
  <1>1. /\ runs[g] \in Run /\ runs[g].state = "closed"
        /\ runs'[g] = [runs[g] EXCEPT !.state = "done"]
        /\ \A h \in Gens \ {g} : runs'[h] = runs[h]
        /\ version' = version /\ runGen' = runGen /\ down' = down
    BY DEF RunEnds, IInv, Shape, TypeOK
  <1>2. /\ runs'[g] \in Run /\ runs'[g].state = "done"
        /\ runs'[g].seen = runs[g].seen /\ runs'[g].out = runs[g].out
    BY <1>1 DEF Run
  <1>3. /\ runs' \in [Gens -> Run]
        /\ \A h \in Gens : Len(runs'[h].out) <= OutCap
    BY <1>1, <1>2 DEF RunEnds, IInv, Shape, TypeOK
  <1>4. SeenBound'
    BY <1>1, <1>2 DEF IInv, Shape, SeenBound
  <1>5. CASE g # runGen
    <2>1. started' = started /\ subs' = subs /\ clients' = clients
      BY <1>5 DEF RunEnds
    <2>2. TypeOK' /\ RegisteredIsOpen'
      BY <1>1, <1>3, <2>1 DEF IInv, Shape, TypeOK, RegisteredIsOpen
    <2>3. OneFeed'
      BY <1>1, <1>2, <2>1 DEF IInv, Shape, OneFeed
    <2>4. FeedInv'
      BY <1>1, <1>5, <2>1 DEF IInv, Shape, FeedInv
    <2>5. NothingSkipped'
      BY <1>1, <1>5, <2>1 DEF IInv, Shape, FeedInv, NothingSkipped
    <2>. QED BY <1>4, <2>2, <2>3, <2>4, <2>5 DEF IInv, Shape
  <1>6. CASE g = runGen
    <2>1. /\ started' = FALSE /\ subs' = {}
          /\ clients' = [c \in Clients |->
                 IF c \in subs THEN [clients[c] EXCEPT !.state = "closed"]
                               ELSE clients[c]]
      BY <1>6 DEF RunEnds
    <2>2. TypeOK'
      BY <1>1, <1>3, <2>1 DEF IInv, Shape, TypeOK, Client
    <2>3. RegisteredIsOpen'
      BY <2>1 DEF IInv, Shape, TypeOK, RegisteredIsOpen, Client
    <2>4. OneFeed'
      <3>. SUFFICES ASSUME NEW h \in Gens, runs'[h].state = "live" PROVE FALSE
        BY DEF OneFeed
      <3>1. h # g
        BY <1>2
      <3>2. runs[h].state = "live"
        BY <1>1, <3>1
      <3>3. h = runGen
        BY <3>2 DEF IInv, Shape, OneFeed
      <3>. QED BY <1>6, <3>1, <3>3
    <2>5. FeedInv' /\ NothingSkipped'
      BY <2>1 DEF FeedInv, NothingSkipped
    <2>. QED BY <1>4, <2>2, <2>3, <2>4, <2>5 DEF IInv, Shape
  <1>. QED BY <1>5, <1>6

LEMMA ShutdownKeeps == ASSUME IInv, Shutdown PROVE IInv'
  <1>1. /\ ~down /\ down' = TRUE /\ version' = version /\ subs' = subs
        /\ started' = started /\ runGen' = runGen /\ clients' = clients
        /\ runs' = IF started THEN Cancel(runs) ELSE runs
    BY DEF Shutdown
  <1>2. ASSUME NEW g \in Gens
        PROVE  /\ runs'[g] \in Run
               /\ runs'[g].out = runs[g].out
               /\ runs'[g].seen = runs[g].seen
               /\ runs'[g].state = IF started /\ g = runGen /\ runs[g].state = "live"
                                   THEN "cancelled" ELSE runs[g].state
    BY <1>1 DEF Cancel, IInv, Shape, TypeOK, Run
  <1>3. runs' \in [Gens -> Run]
    BY <1>1, <1>2 DEF Cancel, IInv, Shape, TypeOK
  <1>4. TypeOK'
    BY <1>1, <1>2, <1>3 DEF IInv, Shape, TypeOK
  <1>5. RegisteredIsOpen' /\ OneFeed' /\ SeenBound'
    BY <1>1, <1>2 DEF IInv, Shape, RegisteredIsOpen, OneFeed, SeenBound
  <1>6. FeedInv'
    BY <1>1, <1>2 DEF IInv, Shape, FeedInv
  <1>7. NothingSkipped'
    <2>1. subs # {} => runGen \in Gens
      BY DEF IInv, Shape, FeedInv
    <2>. QED BY <1>1, <1>2, <2>1 DEF IInv, NothingSkipped
  <1>. QED BY <1>4, <1>5, <1>6, <1>7 DEF IInv, Shape

-----------------------------------------------------------------------------
LEMMA Invariance == Spec => []IInv
  <1>1. Init => IInv
    BY Initially, FeedAssumption
  <1>2. IInv /\ [Next]_vars => IInv'
    <2>. SUFFICES ASSUME IInv, [Next]_vars PROVE IInv'
      OBVIOUS
    <2>1. CASE Change
      BY <2>1, ChangeKeeps
    <2>2. ASSUME NEW g \in Gens, Announce(g) PROVE IInv'
      BY <2>2, AnnounceKeeps
    <2>3. ASSUME NEW g \in Gens, AdapterStops(g) PROVE IInv'
      BY <2>3, AdapterStopsKeeps
    <2>4. ASSUME NEW g \in Gens, broadcast(g) PROVE IInv'
      BY <2>4, BroadcastKeeps
    <2>5. ASSUME NEW g \in Gens, RunEnds(g) PROVE IInv'
      BY <2>5, RunEndsKeeps
    <2>6. ASSUME NEW c \in Clients, Subscribe(c) PROVE IInv'
      BY <2>6, SubscribeKeeps
    <2>7. ASSUME NEW c \in Clients, SubscribeFails(c) PROVE IInv'
      BY <2>7, SubscribeFailsKeeps
    <2>8. ASSUME NEW c \in Clients, Receive(c) PROVE IInv'
      BY <2>8, ReceiveKeeps
    <2>9. ASSUME NEW c \in Clients, Disconnect(c) PROVE IInv'
      BY <2>9, DisconnectKeeps
    <2>10. CASE Shutdown
      BY <2>10, ShutdownKeeps
    <2>11. CASE UNCHANGED vars
      BY <2>11 DEF vars, IInv, Shape, TypeOK, RegisteredIsOpen, OneFeed, FeedInv,
                   SeenBound, NothingSkipped
    <2>. QED BY <2>1, <2>2, <2>3, <2>4, <2>5, <2>6, <2>7, <2>8, <2>9, <2>10, <2>11
             DEF Next, Feed
  <1>. QED BY <1>1, <1>2, PTL DEF Spec

(* No channel of the feed ever holds more than its capacity.               *)
THEOREM TypeCorrect == Spec => []TypeOK
  <1>1. IInv => TypeOK
    BY DEF IInv, Shape
  <1>. QED BY <1>1, Invariance, PTL

(* The broadcaster sends only on open channels, and closes every channel   *)
(* it drops: no order of evictions, departures and late run ends panics it.*)
THEOREM NoSendOnClosed == Spec => []RegisteredIsOpen
  <1>1. IInv => RegisteredIsOpen
    BY DEF IInv, Shape
  <1>. QED BY <1>1, Invariance, PTL

(* At most one adapter is at work, and it is the one the lock knows of.    *)
THEOREM SingleFeed == Spec => []OneFeed
  <1>1. IInv => OneFeed
    BY DEF IInv, Shape
  <1>. QED BY <1>1, Invariance, PTL

(* A registered client always has a run that serves it or will close it.   *)
THEOREM ClientsAreServed == Spec => []SubscribersAreFed
  <1>1. IInv => SubscribersAreFed
    BY DEF IInv, Shape, FeedInv, SubscribersAreFed
  <1>. QED BY <1>1, Invariance, PTL

(* Registry, run and channels agree, whoever joins, leaves or is evicted.  *)
THEOREM FeedStaysWhole == Spec => []FeedIsWhole
  BY NoSendOnClosed, SingleFeed, ClientsAreServed, PTL DEF FeedIsWhole

(* A client that stays registered misses no version of the source.         *)
THEOREM GapFree == Spec => []NothingSkipped
  <1>1. IInv => NothingSkipped
    BY DEF IInv
  <1>. QED BY <1>1, Invariance, PTL

=============================================================================
