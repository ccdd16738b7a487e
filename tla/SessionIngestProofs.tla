------------------------ MODULE SessionIngestProofs ------------------------
(***************************************************************************)
(* The ordinals of the stored messages are unique in every world: for any  *)
(* file, any growth, any number of failures, crashes and upgrades.         *)
(*                                                                         *)
(* Uniqueness alone is not inductive: appending needs the numbers of a     *)
(* parse to be distinct as well, and the next incremental parse needs the  *)
(* stored ones to have a largest.                                          *)
(*                                                                         *)
(* That the rows follow the file needs more: they are always the messages  *)
(* of some prefix of its lines, and the session's record says of which.    *)
(* With tool results their ordinals are behind those of a full parse, but  *)
(* in the same order.  This is FollowInv, in the second half of the module.*)
(***************************************************************************)
EXTENDS SessionIngest, FiniteSetTheorems, SequenceTheorems, TLAPS

Distinct(msgs) == \A r, q \in msgs : r.ord = q.ord => r = q
Bounded(msgs) == \E b \in Nat : \A r \in msgs : r.ord <= b
Numbered(msgs) == Distinct(msgs) /\ Bounded(msgs)

IInv == TypeOK /\ Numbered(rows) /\ Numbered(job.msgs)

-----------------------------------------------------------------------------
(* Numbers.                                                                *)

LEMMA LargestExists ==
    ASSUME NEW S \in SUBSET Nat, S # {}, NEW b \in Nat, \A x \in S : x <= b
    PROVE  Largest(S) \in S /\ \A m \in S : m <= Largest(S)
<1> DEFINE T == {b - x : x \in S}
<1>1. T \subseteq Nat /\ T # {}
  <2>1. \A x \in S : b - x \in Nat
    OBVIOUS
  <2>2. PICK x \in S : TRUE
    OBVIOUS
  <2>3. b - x \in T
    OBVIOUS
  <2> QED  BY <2>1, <2>3
<1>2. PICK t \in T : \A u \in T : ~(<<u, t>> \in OpToRel(<, Nat))
  <2> HIDE DEF T
  <2> QED  BY <1>1, WFMin, NatLessThanWellFounded
<1>3. \A u \in T : ~(u < t)
  BY <1>1, <1>2 DEF OpToRel
<1>4. PICK x \in S : t = b - x
  OBVIOUS
<1>5. \A m \in S : m <= x
  <2> TAKE m \in S
  <2>1. b - m \in T
    OBVIOUS
  <2>2. ~(b - m < b - x)
    BY <2>1, <1>3, <1>4
  <2> QED  BY <2>2
<1> QED  BY <1>5 DEF Largest

LEMMA NumberedIsFinite ==
    ASSUME NEW msgs \in SUBSET Row, Numbered(msgs)
    PROVE  IsFiniteSet(msgs)
<1>1. PICK b \in Nat : \A r \in msgs : r.ord <= b
  BY DEF Numbered, Bounded
<1> DEFINE f == [r \in msgs |-> r.ord]
<1>2. f \in Injection(msgs, 0..b)
  <2>1. \A r \in msgs : r.ord \in 0..b
    BY <1>1 DEF Row
  <2>2. f \in [msgs -> 0..b]
    BY <2>1
  <2> QED  BY <2>2 DEF Injection, IsInjective, Numbered, Distinct
<1>3. IsFiniteSet(0..b)
  BY FS_Interval
<1> QED  BY <1>2, <1>3, FS_Injection

-----------------------------------------------------------------------------
(* The parser.                                                             *)

LEMMA StartsFinite ==
    ASSUME NEW ls \in Seq(Kinds), NEW a \in Nat \ {0}
    PROVE  /\ Starts(ls, a) \subseteq a..Len(ls)
           /\ IsFiniteSet(Starts(ls, a))
           /\ \A i : IsFiniteSet({j \in Starts(ls, a) : j < i})
<1>1. Len(ls) \in Nat
  BY LenProperties
<1>2. IsFiniteSet(a..Len(ls))
  BY <1>1, FS_Interval
<1>3. Starts(ls, a) \subseteq a..Len(ls)
  BY DEF Starts, Entries
<1>4. ASSUME NEW T \in SUBSET (a..Len(ls)) PROVE IsFiniteSet(T)
  BY <1>2, FS_Subset
<1> QED  BY <1>3, <1>4

(* Two entries of one parse take different ordinals.                       *)
LEMMA OrdinalsIncrease ==
    ASSUME NEW ls \in Seq(Kinds), NEW a \in Nat \ {0}, NEW ord \in Nat,
           NEW i \in Starts(ls, a), NEW k \in Starts(ls, a), i < k
    PROVE  OrdinalOf(ls, a, i, ord) < OrdinalOf(ls, a, k, ord)
<1> DEFINE I == {j \in Starts(ls, a) : j < i}
           K == {j \in Starts(ls, a) : j < k}
<1>1. IsFiniteSet(I) /\ IsFiniteSet(K)
  BY StartsFinite
<1>2. i \in Int /\ k \in Int /\ Starts(ls, a) \subseteq Int
  BY StartsFinite, LenProperties
<1>3. I \in SUBSET K /\ i \in K /\ i \notin I
  BY <1>2
<1>4. Cardinality(I) <= Cardinality(K) /\ Cardinality(I) # Cardinality(K)
  <2> HIDE DEF I, K
  <2> QED  BY <1>1, <1>3, FS_Subset
<1>5. Cardinality(I) \in Nat /\ Cardinality(K) \in Nat
  <2> HIDE DEF I, K
  <2> QED  BY <1>1, FS_CardinalityType
<1>6. OrdinalOf(ls, a, i, ord) = ord + Cardinality(I)
      /\ OrdinalOf(ls, a, k, ord) = ord + Cardinality(K)
  BY DEF OrdinalOf
<1> HIDE DEF I, K
<1> QED  BY <1>4, <1>5, <1>6

LEMMA OrdinalRange ==
    ASSUME NEW ls \in Seq(Kinds), NEW a \in Nat \ {0}, NEW ord \in Nat,
           NEW i \in Starts(ls, a)
    PROVE  /\ OrdinalOf(ls, a, i, ord) \in Nat
           /\ OrdinalOf(ls, a, i, ord) <= ord + Cardinality(Starts(ls, a))
           /\ Cardinality(Starts(ls, a)) \in Nat
<1> DEFINE I == {j \in Starts(ls, a) : j < i}
<1>1. IsFiniteSet(I) /\ IsFiniteSet(Starts(ls, a)) /\ I \in SUBSET Starts(ls, a)
  BY StartsFinite
<1>2. OrdinalOf(ls, a, i, ord) = ord + Cardinality(I)
  BY DEF OrdinalOf
<1> HIDE DEF I
<1>3. Cardinality(I) \in Nat /\ Cardinality(Starts(ls, a)) \in Nat
  BY <1>1, FS_CardinalityType
<1>4. Cardinality(I) <= Cardinality(Starts(ls, a))
  BY <1>1, FS_Subset
<1> QED  BY <1>2, <1>3, <1>4

LEMMA MessageType ==
    ASSUME NEW ls \in Seq(Kinds), NEW a \in Nat \ {0}, NEW ord \in Nat,
           NEW ino \in Nat, NEW i \in Starts(ls, a)
    PROVE  /\ Message(ls, a, i, ord, ino) \in Row
           /\ Message(ls, a, i, ord, ino).ord = OrdinalOf(ls, a, i, ord)
<1>1. Len(ls) \in Nat
  BY LenProperties
<1>2. Entries(ls, a) \subseteq Nat /\ i \in Nat \ {0}
  BY <1>1, StartsFinite DEF Entries
<1>3. OrdinalOf(ls, a, i, ord) \in Nat
  BY OrdinalRange
<1>4. {c \in Entries(ls, a) :
          ls[c] = "chunk" /\ c # i /\ LastBefore(Starts(ls, a), c) = {i}} \in SUBSET Nat
  BY <1>2
<1>5. {r \in Entries(ls, a) :
          ls[r] = "result" /\ LastBefore(Answers(ls, a), r) = {i}} \in SUBSET Nat
  BY <1>2
<1>6. (IF ls[i] \in {"asst", "chunk"}
       THEN LastBefore({j \in 1..Len(ls) : ls[j] = "asst"}, i) ELSE {}) \in SUBSET Nat
  BY <1>1 DEF LastBefore
<1> QED  BY <1>2, <1>3, <1>4, <1>5, <1>6 DEF Message, Row

LEMMA ParseNumbers ==
    ASSUME NEW ls \in Seq(Kinds), NEW a \in Nat \ {0}, NEW ord \in Nat,
           NEW ino \in Nat
    PROVE  Parse(ls, a, ord, ino) \in SUBSET Row /\ Numbered(Parse(ls, a, ord, ino))
<1> DEFINE P == Parse(ls, a, ord, ino)
           top == ord + Cardinality(Starts(ls, a))
<1>1. \A m \in P : \E i \in Starts(ls, a) : m = Message(ls, a, i, ord, ino)
  BY DEF Parse
<1>2. P \in SUBSET Row
  BY <1>1, MessageType
<1>3. Distinct(P)
  <2> SUFFICES ASSUME NEW r \in P, NEW q \in P, r.ord = q.ord
               PROVE  r = q
    BY DEF Distinct
  <2>1. PICK i \in Starts(ls, a) : r = Message(ls, a, i, ord, ino)
    BY <1>1
  <2>2. PICK k \in Starts(ls, a) : q = Message(ls, a, k, ord, ino)
    BY <1>1
  <2>3. OrdinalOf(ls, a, i, ord) = OrdinalOf(ls, a, k, ord)
    BY <2>1, <2>2, MessageType
  <2>4. OrdinalOf(ls, a, i, ord) \in Nat /\ OrdinalOf(ls, a, k, ord) \in Nat
    BY OrdinalRange
  <2>5. ~(i < k) /\ ~(k < i)
    BY <2>3, <2>4, OrdinalsIncrease
  <2>6. i \in Int /\ k \in Int
    BY StartsFinite, LenProperties
  <2> QED  BY <2>1, <2>2, <2>5, <2>6
<1>4. Bounded(P)
  <2>1. Cardinality(Starts(ls, a)) \in Nat
    BY StartsFinite, FS_CardinalityType
  <2>2. \A m \in P : m.ord <= top
    <3> TAKE m \in P
    <3>1. PICK i \in Starts(ls, a) : m = Message(ls, a, i, ord, ino)
      BY <1>1
    <3>2. m.ord = OrdinalOf(ls, a, i, ord)
      BY <3>1, MessageType
    <3> QED  BY <3>2, OrdinalRange
  <2>3. top \in Nat
    BY <2>1
  <2> QED  BY <2>2, <2>3 DEF Bounded
<1> QED  BY <1>2, <1>3, <1>4 DEF Numbered

-----------------------------------------------------------------------------
(* The database.                                                           *)

LEMMA NextOrdinal ==
    ASSUME rows \in SUBSET Row, Numbered(rows)
    PROVE  MaxOrdinal + 1 \in Nat
<1>1. CASE rows = {}
  BY <1>1 DEF MaxOrdinal
<1>2. CASE rows # {}
  <2> DEFINE S == {r.ord : r \in rows}
  <2>1. PICK b \in Nat : \A r \in rows : r.ord <= b
    BY DEF Numbered, Bounded
  <2>2. S \in SUBSET Nat /\ S # {} /\ \A x \in S : x <= b
    BY <1>2, <2>1 DEF Row
  <2>3. MaxOrdinal = Largest(S)
    BY <1>2 DEF MaxOrdinal
  <2>4. Largest(S) \in S
    <3> HIDE DEF S
    <3> QED  BY <2>2, LargestExists
  <2> QED  BY <2>2, <2>3, <2>4
<1> QED  BY <1>1, <1>2

(* writeMessages adds only ordinals above those that are stored.           *)
LEMMA AppendedNumbers ==
    ASSUME rows \in SUBSET Row, Numbered(rows),
           NEW msgs \in SUBSET Row, Numbered(msgs)
    PROVE  Appended(msgs) \in SUBSET Row /\ Numbered(Appended(msgs))
<1>1. Appended(msgs) \in SUBSET Row
  BY DEF Appended
<1>2. \A r \in Row : r.ord \in Nat
  BY DEF Row
<1>3. Distinct(Appended(msgs))
  BY <1>2 DEF Appended, Numbered, Distinct
<1>4. Bounded(Appended(msgs))
  <2>1. PICK b \in Nat : \A r \in rows : r.ord <= b
    BY DEF Numbered, Bounded
  <2>2. PICK c \in Nat : \A r \in msgs : r.ord <= c
    BY DEF Numbered, Bounded
  <2>3. \A r \in Appended(msgs) : r.ord <= b + c
    BY <1>2, <2>1, <2>2 DEF Appended
  <2> QED  BY <2>3 DEF Bounded
<1> QED  BY <1>1, <1>3, <1>4 DEF Numbered

LEMMA NoMessages == Numbered({})
BY DEF Numbered, Distinct, Bounded

LEMMA Idle == NoJob \in [step : Steps, seen : Nat, size : Nat, mtime : Nat,
                         inode : Nat, force : BOOLEAN, stale : BOOLEAN,
                         msgs : SUBSET Row]
              /\ NoJob.msgs = {}
BY DEF NoJob, Steps

-----------------------------------------------------------------------------
(* The steps.                                                              *)

LEMMA Initially == Init => IInv
<1> SUFFICES ASSUME Init PROVE IInv
  OBVIOUS
<1>1. world \in World /\ lines \in Seq(Kinds)
  BY WorldsAssumption DEF Init, World
<1>2. sess \in [stored : BOOLEAN, size : Nat, mtime : Nat, inode : Nat,
                count : Nat, asked : BOOLEAN, preview : BOOLEAN,
                version : {"none", "stale", "current"}]
  BY DEF Init, NoSession
<1>3. TypeOK
  BY <1>1, <1>2, Idle DEF Init, TypeOK
<1> QED  BY <1>3, Idle, NoMessages DEF Init, IInv

LEMMA SpendType ==
    ASSUME TypeOK,
           NEW what \in {"touches", "replaces", "upgrades", "faults", "crashes"},
           Spend(what)
    PROVE  world' \in World
<1>1. world[what] \in Nat /\ world[what] > 0
  BY DEF Spend, TypeOK, World
<1>2. world[what] - 1 \in Nat
  BY <1>1
<1>3. world' = [world EXCEPT ![what] = world[what] - 1]
  BY DEF Spend
<1>4. world \in World
  BY DEF TypeOK
<1> HIDE DEF TypeOK
<1>5. CASE what = "touches"
  BY <1>2, <1>3, <1>4, <1>5 DEF World
<1>6. CASE what = "replaces"
  BY <1>2, <1>3, <1>4, <1>6 DEF World
<1>7. CASE what = "upgrades"
  BY <1>2, <1>3, <1>4, <1>7 DEF World
<1>8. CASE what = "faults"
  BY <1>2, <1>3, <1>4, <1>8 DEF World
<1>9. CASE what = "crashes"
  BY <1>2, <1>3, <1>4, <1>9 DEF World
<1> QED  BY <1>5, <1>6, <1>7, <1>8, <1>9

(* What the agent does leaves the engine and the database alone.           *)
LEMMA AgentStep == IInv /\ Agent => IInv'
<1> SUFFICES ASSUME IInv, Agent PROVE IInv'
  OBVIOUS
<1>1. TypeOK
  BY DEF IInv
<1>2. UNCHANGED <<sess, rows, cached, saved, job>>
  BY DEF Agent, AppendLine, AppendHalf, CompleteLine, Touch, Replace, dbVars, skipVars
<1>3. mtime' \in Nat /\ inode' \in Nat
  <2>1. mtime' = mtime + 1 /\ inode' \in {inode, inode + 1}
    BY DEF Agent, AppendLine, AppendHalf, CompleteLine, Touch, Replace
  <2>2. mtime \in Nat /\ inode \in Nat
    BY <1>1 DEF TypeOK
  <2> QED  BY <2>1, <2>2
<1>4. lines' \in Seq(Kinds) /\ half' \in Kinds \cup {"none"} /\ world' \in World
  <2>1. lines \in Seq(Kinds) /\ half \in Kinds \cup {"none"} /\ world \in World
    BY <1>1 DEF TypeOK
  <2>2. world.kinds \subseteq Kinds /\ world.replacements \subseteq Seq(Kinds)
    BY <2>1 DEF World
  <2>3. ASSUME NEW k \in world.kinds, AppendLine(k)
        PROVE  lines' \in Seq(Kinds) /\ UNCHANGED <<half, world>>
    BY <2>1, <2>2, <2>3, AppendProperties DEF AppendLine
  <2>4. ASSUME NEW k \in world.kinds, AppendHalf(k)
        PROVE  half' \in Kinds /\ UNCHANGED <<lines, world>>
    BY <2>1, <2>2, <2>4 DEF AppendHalf
  <2>5. ASSUME CompleteLine
        PROVE  lines' \in Seq(Kinds) /\ half' = "none" /\ UNCHANGED world
    BY <2>1, <2>5, AppendProperties DEF CompleteLine
  <2>6. ASSUME Touch
        PROVE  UNCHANGED <<lines, half>> /\ world' \in World
    BY <1>1, <2>6, SpendType DEF Touch
  <2>7. ASSUME NEW ls \in world.replacements, Replace(ls)
        PROVE  lines' \in Seq(Kinds) /\ half' = "none" /\ world' \in World
    BY <1>1, <2>2, <2>7, SpendType DEF Replace
  <2> QED  BY <2>1, <2>3, <2>4, <2>5, <2>6, <2>7 DEF Agent
<1>5. TypeOK'
  BY <1>1, <1>2, <1>3, <1>4 DEF TypeOK
<1> QED  BY <1>2, <1>5 DEF IInv, Numbered, Distinct, Bounded

JobType == [step : Steps, seen : Nat, size : Nat, mtime : Nat, inode : Nat,
            force : BOOLEAN, stale : BOOLEAN, msgs : SUBSET Row]
SessType == [stored : BOOLEAN, size : Nat, mtime : Nat, inode : Nat,
             count : Nat, asked : BOOLEAN, preview : BOOLEAN,
             version : {"none", "stale", "current"}]

(* A step of the engine or a failure: the file stays, and it remains to    *)
(* show the types and numbering of what the step changes.                  *)
LEMMA EngineStep ==
    ASSUME IInv, UNCHANGED fileVars, world' \in World,
           {cached', saved'} \subseteq Nat, sess' \in SessType,
           rows' \in SUBSET Row, Numbered(rows'),
           job' \in JobType, Numbered(job'.msgs)
    PROVE  IInv'
<1>1. TypeOK'
  BY DEF IInv, TypeOK, fileVars, SessType, JobType
<1> QED  BY <1>1 DEF IInv, Numbered, Distinct, Bounded

LEMMA Facts ==
    ASSUME IInv
    PROVE  /\ world \in World /\ lines \in Seq(Kinds)
           /\ {inode, mtime, cached, saved} \subseteq Nat
           /\ sess \in SessType /\ job \in JobType
           /\ rows \in SUBSET Row /\ Numbered(rows) /\ Numbered(job.msgs)
BY DEF IInv, TypeOK, SessType, JobType

LEMMA SizeType == ASSUME IInv PROVE Size \in Nat
BY Facts, LenProperties DEF Size

LEMMA EndsIdle ==
    ASSUME NEW skip \in Nat, EndPass(skip)
    PROVE  /\ {cached', saved'} \subseteq Nat
           /\ job' \in JobType /\ Numbered(job'.msgs)
BY Idle, NoMessages DEF EndPass, JobType

LEMMA PassStep == IInv /\ Pass => IInv'
<1> SUFFICES ASSUME IInv, Pass PROVE IInv'
  OBVIOUS
<1> USE Facts
<1>1. ASSUME processFile PROVE IInv'
  <2>1. UNCHANGED fileVars /\ UNCHANGED <<sess, rows, cached, saved, world>>
    BY <1>1 DEF processFile, dbVars, skipVars
  <2>2. job' \in JobType /\ job'.msgs = {}
    BY <1>1, Idle DEF processFile, NoJob, JobType, Steps
  <2> QED  BY <2>1, <2>2, NoMessages, EngineStep
<1>2. ASSUME incRead PROVE IInv'
  <2>1. UNCHANGED fileVars /\ UNCHANGED <<sess, rows, world>>
    BY <1>2 DEF incRead, ReadAppended, dbVars
  <2>2. FirstUnread \in Nat \ {0}
    BY DEF FirstUnread, SessType
  <2>3. CASE NeedsFullParse(FirstUnread)
    <3>1. job' = [job EXCEPT !.step = "fullStat", !.force = TRUE]
          /\ UNCHANGED <<cached, saved>>
      BY <1>2, <2>3 DEF incRead, ReadAppended, skipVars
    <3>2. job' \in JobType /\ job'.msgs = job.msgs
      BY <3>1 DEF JobType, Steps
    <3> QED  BY <2>1, <3>1, <3>2, EngineStep
  <2>4. CASE ~NeedsFullParse(FirstUnread) /\ FirstUnread > Len(lines)
    <3>1. EndPass(cached)
      BY <1>2, <2>4 DEF incRead, ReadAppended
    <3> QED  BY <2>1, <3>1, EndsIdle, EngineStep
  <2>5. CASE ~NeedsFullParse(FirstUnread) /\ ~(FirstUnread > Len(lines))
    <3> DEFINE P == Parse(lines, FirstUnread, MaxOrdinal + 1, inode)
    <3>1. job' = [job EXCEPT !.step = "incMessages", !.size = 2 * Len(lines),
                            !.msgs = P]
          /\ clearSkip
      BY <1>2, <2>5 DEF incRead, ReadAppended
    <3>2. P \in SUBSET Row /\ Numbered(P)
      BY <2>2, NextOrdinal, ParseNumbers
    <3>3. 2 * Len(lines) \in Nat
      BY LenProperties
    <3> HIDE DEF P
    <3>4. job' \in JobType /\ job'.msgs = P
      BY <3>1, <3>2, <3>3 DEF JobType, Steps
    <3>5. {cached', saved'} \subseteq Nat
      BY <3>1 DEF clearSkip
    <3> QED  BY <2>1, <3>2, <3>4, <3>5, EngineStep
  <2> QED  BY <2>3, <2>4, <2>5
<1>3. ASSUME incMessages PROVE IInv'
  <2>1. UNCHANGED fileVars /\ UNCHANGED <<sess, cached, saved, world>>
    BY <1>3 DEF incMessages, skipVars
  <2>2. rows' \in SUBSET Row /\ Numbered(rows')
    BY <1>3, AppendedNumbers DEF incMessages, JobType
  <2>3. job' \in JobType /\ job'.msgs = job.msgs
    BY <1>3 DEF incMessages, JobType, Steps
  <2> QED  BY <2>1, <2>2, <2>3, EngineStep
<1>4. ASSUME UpdateSessionIncremental PROVE IInv'
  <2>1. UNCHANGED fileVars /\ UNCHANGED <<rows, world>> /\ EndPass(cached)
    BY <1>4 DEF UpdateSessionIncremental, AdvanceSession
  <2>2. Cardinality(job.msgs) \in Nat
    BY NumberedIsFinite, FS_CardinalityType DEF JobType
  <2>3. job.size \in Nat /\ job.mtime \in Nat
        /\ sess.count + Cardinality(job.msgs) \in Nat
    BY <2>2 DEF JobType, SessType
  <2>4. sess' = [sess EXCEPT !.size = job.size, !.mtime = job.mtime,
                            !.count = sess.count + Cardinality(job.msgs),
                            !.asked = sess.asked \/ Prompts(job.msgs) # {}]
    BY <1>4 DEF UpdateSessionIncremental, AdvanceSession
  <2>5. sess' \in SessType
    BY <2>3, <2>4 DEF SessType
  <2> QED  BY <2>1, <2>5, EndsIdle, EngineStep
<1>5. ASSUME fullStat PROVE IInv'
  <2>1. UNCHANGED fileVars /\ UNCHANGED <<sess, rows, cached, saved, world>>
    BY <1>5 DEF fullStat, dbVars, skipVars
  <2>2. job' \in JobType /\ job'.msgs = job.msgs
    BY <1>5, SizeType DEF fullStat, JobType, Steps
  <2> QED  BY <2>1, <2>2, EngineStep
<1>6. ASSUME fullRead PROVE IInv'
  <2>1. UNCHANGED fileVars /\ UNCHANGED <<sess, rows, world>>
    BY <1>6 DEF fullRead, dbVars
  <2>2. Parse(lines, 1, 0, inode) \in SUBSET Row /\ Numbered(Parse(lines, 1, 0, inode))
    BY ParseNumbers
  <2>3. job' \in JobType /\ job'.msgs = Parse(lines, 1, 0, inode)
    BY <1>6, <2>2 DEF fullRead, JobType, Steps
  <2>4. {cached', saved'} \subseteq Nat
    BY <1>6 DEF fullRead, clearSkip
  <2> QED  BY <2>1, <2>2, <2>3, <2>4, EngineStep
<1>7. ASSUME UpsertSession PROVE IInv'
  <2>1. UNCHANGED fileVars /\ UNCHANGED <<rows, cached, saved, world>>
    BY <1>7 DEF UpsertSession, WriteSession, skipVars
  <2>2. Cardinality(job.msgs) \in Nat
    BY NumberedIsFinite, FS_CardinalityType DEF JobType
  <2>3. sess' \in SessType
    BY <1>7, <2>2 DEF UpsertSession, WriteSession, SessType, JobType
  <2>4. job' \in JobType /\ job'.msgs = job.msgs
    BY <1>7 DEF UpsertSession, WriteSession, JobType, Steps
  <2> QED  BY <2>1, <2>3, <2>4, EngineStep
<1>8. ASSUME writeMessages PROVE IInv'
  <2>1. UNCHANGED fileVars /\ UNCHANGED <<sess, cached, saved, world>>
    BY <1>8 DEF writeMessages, skipVars
  <2>2. rows' \in SUBSET Row /\ Numbered(rows')
    BY <1>8, AppendedNumbers DEF writeMessages, JobType
  <2>3. job' \in JobType /\ job'.msgs = job.msgs
    BY <1>8 DEF writeMessages, JobType, Steps
  <2> QED  BY <2>1, <2>2, <2>3, EngineStep
<1>9. ASSUME SetSessionDataVersion PROVE IInv'
  <2>1. UNCHANGED fileVars /\ UNCHANGED <<rows, world>> /\ EndPass(cached)
    BY <1>9 DEF SetSessionDataVersion
  <2>2. sess' \in SessType
    BY <1>9 DEF SetSessionDataVersion, SessType
  <2> QED  BY <2>1, <2>2, EndsIdle, EngineStep
<1> QED  BY <1>1, <1>2, <1>3, <1>4, <1>5, <1>6, <1>7, <1>8, <1>9 DEF Pass

LEMMA FailureStep == IInv /\ (Failure \/ Upgrade) => IInv'
<1> SUFFICES ASSUME IInv, Failure \/ Upgrade PROVE IInv'
  OBVIOUS
<1> USE Facts
<1>1. TypeOK
  BY DEF IInv
<1>2. world' \in World
  BY <1>1, SpendType DEF Failure, WriteFails, ParseFails, Crash, Upgrade
<1>3. UNCHANGED fileVars /\ UNCHANGED rows
  BY DEF Failure, WriteFails, ParseFails, Crash, Upgrade, dbVars
<1>4. CASE WriteFails \/ ParseFails
  <2>1. UNCHANGED sess
    BY <1>4 DEF WriteFails, ParseFails, dbVars
  <2>2. EndPass(cached) \/ EndPass(job.seen)
    BY <1>4 DEF WriteFails, ParseFails
  <2>3. job.seen \in Nat
    BY DEF JobType
  <2> QED  BY <1>2, <1>3, <2>1, <2>2, <2>3, EndsIdle, EngineStep
<1>5. CASE Crash
  <2>1. UNCHANGED <<sess, saved>> /\ cached' = saved /\ job' = NoJob
    BY <1>5 DEF Crash, dbVars
  <2>2. job' \in JobType /\ Numbered(job'.msgs)
    BY <2>1, Idle, NoMessages DEF JobType
  <2> QED  BY <1>2, <1>3, <2>1, <2>2, EngineStep
<1>6. CASE Upgrade
  <2>1. UNCHANGED <<cached, saved, job>>
    BY <1>6 DEF Upgrade, skipVars
  <2>2. sess' \in SessType
    BY <1>6 DEF Upgrade, SessType
  <2> QED  BY <1>2, <1>3, <2>1, <2>2, EngineStep
<1> QED  BY <1>4, <1>5, <1>6 DEF Failure

LEMMA StutterStep == IInv /\ UNCHANGED vars => IInv'
BY DEF IInv, TypeOK, vars, fileVars, dbVars, skipVars, Numbered, Distinct, Bounded

-----------------------------------------------------------------------------
(* The strengthened invariant holds in every reachable state.              *)
THEOREM Invariance == Spec => []IInv
<1>1. IInv /\ [Next]_vars => IInv'
  BY AgentStep, PassStep, FailureStep, StutterStep DEF Next
<1> QED  BY Initially, <1>1, PTL DEF Spec

(* The state of the file, the rows and the pass in flight is well formed.  *)
THEOREM TypeCorrect == Spec => []TypeOK
<1>1. IInv => TypeOK
  BY DEF IInv
<1> QED  BY Invariance, <1>1, PTL

(* No growth, failure, crash, replacement or upgrade makes the engine give *)
(* one ordinal to two stored messages.                                     *)
THEOREM UniqueOrdinals == Spec => []OrdinalsAreUnique
<1>1. IInv => OrdinalsAreUnique
  BY DEF IInv, Numbered, Distinct, OrdinalsAreUnique
<1> QED  BY Invariance, <1>1, PTL

-----------------------------------------------------------------------------
(* The messages of the first n lines, and rows that hold them: the same    *)
(* lines and replies in the same order, and the same rows without results. *)
Begins(xs, ls) == Len(xs) <= Len(ls) /\ \A i \in 1..Len(xs) : xs[i] = ls[i]
Told(ls, n, ino) == Parse(SubSeq(ls, 1, n), 1, 0, ino)
Core(r) == <<r.ino, r.at, r.chunks, r.reply>>
Cores(msgs) == {Core(r) : r \in msgs}
Ascending(msgs) == \A r, q \in msgs : r.ord < q.ord <=> r.at < q.at
Tells(msgs, told, exact) ==
    Cores(msgs) = Cores(told) /\ Ascending(msgs) /\ (exact => msgs = told)

-----------------------------------------------------------------------------
LEMMA SmallestExists ==
    ASSUME NEW S \in SUBSET Nat, S # {}
    PROVE  \E m \in S : \A x \in S : m <= x
<1>1. PICK m \in S : \A u \in S : ~(<<u, m>> \in OpToRel(<, Nat))
  BY WFMin, NatLessThanWellFounded
<1>2. \A u \in S : ~(u < m)
  BY <1>1 DEF OpToRel
<1> QED  BY <1>2

LEMMA LastCut ==
    ASSUME NEW S, NEW T, NEW c, {j \in S : j <= c} = {j \in T : j <= c}
    PROVE  LastBefore(S, c) = LastBefore(T, c)
<1>1. \A j : (j \in S /\ j <= c) <=> (j \in T /\ j <= c)
  OBVIOUS
<1> QED  BY <1>1 DEF LastBefore

(* A prefix has the same entries, and starts the same messages.            *)
LEMMA Shared ==
    ASSUME NEW xs \in Seq(Kinds), NEW ls \in Seq(Kinds), Begins(xs, ls)
    PROVE  /\ Entries(xs, 1) = {i \in Entries(ls, 1) : i <= Len(xs)}
           /\ Starts(xs, 1) = {i \in Starts(ls, 1) : i <= Len(xs)}
<1>1. Len(xs) \in Nat /\ Len(ls) \in Nat
  BY LenProperties
<1>2. Entries(xs, 1) = {i \in Entries(ls, 1) : i <= Len(xs)}
  BY <1>1 DEF Entries, Begins
<1>3. ASSUME NEW i \in Entries(xs, 1) PROVE Merged(xs, 1, i) <=> Merged(ls, 1, i)
  BY <1>1, <1>2 DEF Merged, Entries, Begins
<1> QED  BY <1>2, <1>3 DEF Starts

LEMMA CutBegins ==
    ASSUME NEW ls \in Seq(Kinds), NEW n \in 0..Len(ls)
    PROVE  /\ SubSeq(ls, 1, n) \in Seq(Kinds) /\ Len(SubSeq(ls, 1, n)) = n
           /\ Begins(SubSeq(ls, 1, n), ls)
<1>1. Len(ls) \in Nat
  BY LenProperties
<1>2. \A i \in 1..n : ls[i] \in Kinds
  BY <1>1, ElementOfSeq
<1>3. /\ SubSeq(ls, 1, n) \in Seq(Kinds)
      /\ Len(SubSeq(ls, 1, n)) = IF 1 <= n THEN n - 1 + 1 ELSE 0
      /\ \A i \in 1..(n - 1 + 1) : SubSeq(ls, 1, n)[i] = ls[1 + i - 1]
  BY <1>1, <1>2, SubSeqProperties
<1>4. Len(SubSeq(ls, 1, n)) = n
  BY <1>1, <1>3
<1>5. \A i \in 1..n : SubSeq(ls, 1, n)[i] = ls[i]
  BY <1>1, <1>3
<1> QED  BY <1>1, <1>3, <1>4, <1>5 DEF Begins

(* Two files that begin with the same lines have the same prefix.          *)
LEMMA SameCut ==
    ASSUME NEW xs \in Seq(Kinds), NEW ls \in Seq(Kinds), NEW n \in Nat,
           n <= Len(xs), n <= Len(ls), \A i \in 1..n : xs[i] = ls[i]
    PROVE  SubSeq(xs, 1, n) = SubSeq(ls, 1, n)
<1> DEFINE a == SubSeq(xs, 1, n)
           b == SubSeq(ls, 1, n)
<1>1. Len(xs) \in Nat /\ Len(ls) \in Nat
  BY LenProperties
<1>2. a \in Seq(Kinds) /\ b \in Seq(Kinds) /\ Len(a) = n /\ Len(b) = n
      /\ Begins(a, xs) /\ Begins(b, ls)
  BY <1>1, CutBegins
<1> HIDE DEF a, b
<1>3. \A i \in 1..n : a[i] = b[i]
  BY <1>2 DEF Begins
<1>4. a \in [1..n -> Kinds] /\ b \in [1..n -> Kinds]
  BY <1>2, LenProperties
<1>5. a = b
  BY <1>3, <1>4
<1> QED  BY <1>5 DEF a, b

LEMMA CutOfLonger ==
    ASSUME NEW ls \in Seq(Kinds), NEW k \in Kinds, NEW n \in 0..Len(ls), NEW ino
    PROVE  Told(Append(ls, k), n, ino) = Told(ls, n, ino)
<1>1. Len(ls) \in Nat /\ Len(Append(ls, k)) = Len(ls) + 1
      /\ \A i \in 1..Len(ls) : Append(ls, k)[i] = ls[i]
  BY LenProperties, AppendProperties
<1>2. Append(ls, k) \in Seq(Kinds)
  BY AppendProperties
<1>3. SubSeq(Append(ls, k), 1, n) = SubSeq(ls, 1, n)
  BY <1>1, <1>2, SameCut
<1> QED  BY <1>3 DEF Told

LEMMA AllTold ==
    ASSUME NEW ls \in Seq(Kinds), NEW ino
    PROVE  Told(ls, Len(ls), ino) = Parse(ls, 1, 0, ino) /\ Told(ls, 0, ino) = {}
<1>1. Len(ls) \in Nat
  BY LenProperties
<1>2. SubSeq(ls, 1, Len(ls)) = ls
  BY SubSeqFull
<1>3. Len(SubSeq(ls, 1, 0)) = 0
  BY CutBegins, <1>1
<1>4. Starts(SubSeq(ls, 1, 0), 1) = {}
  BY <1>3 DEF Starts, Entries
<1> QED  BY <1>2, <1>4 DEF Told, Parse

(* A message of a prefix keeps its lines when more of the file is parsed.  *)
LEMMA MessageGrows ==
    ASSUME NEW xs \in Seq(Kinds), NEW ls \in Seq(Kinds), Begins(xs, ls), NEW ino \in Nat,
           NEW r \in Parse(xs, 1, 0, ino)
    PROVE  \E q \in Parse(ls, 1, 0, ino) : LinesOf(r) \subseteq LinesOf(q)
<1>1. PICK i \in Starts(xs, 1) : xs[i] # "result" /\ r = Message(xs, 1, i, 0, ino)
  BY DEF Parse
<1>2. i \in Starts(ls, 1) /\ i <= Len(xs) /\ i \in 1..Len(xs) /\ Len(xs) \in Nat
  BY Shared, <1>1, LenProperties DEF Starts, Entries
<1>3. ls[i] # "result"
  BY <1>1, <1>2 DEF Begins
<1> DEFINE q == Message(ls, 1, i, 0, ino)
<1>4. q \in Parse(ls, 1, 0, ino)
  BY <1>2, <1>3 DEF Parse
<1>5. r.at = i /\ q.at = i /\ r.ino = ino /\ q.ino = ino
      /\ r.chunks = {c \in Entries(xs, 1) : xs[c] = "chunk" /\ c # i /\ LastBefore(Starts(xs, 1), c) = {i}}
      /\ q.chunks = {c \in Entries(ls, 1) : ls[c] = "chunk" /\ c # i /\ LastBefore(Starts(ls, 1), c) = {i}}
  BY <1>1 DEF Message
<1>6. ASSUME NEW c \in Entries(xs, 1)
      PROVE  c \in Entries(ls, 1) /\ xs[c] = ls[c]
             /\ LastBefore(Starts(xs, 1), c) = LastBefore(Starts(ls, 1), c)
  <2>1. c \in Entries(ls, 1) /\ c <= Len(xs) /\ c \in 1..Len(xs)
    BY Shared DEF Entries
  <2>2. Starts(ls, 1) \subseteq Int
    BY LenProperties DEF Starts, Entries
  <2>3. {j \in Starts(xs, 1) : j <= c} = {j \in Starts(ls, 1) : j <= c}
    BY <1>2, <2>1, <2>2, Shared
  <2>4. LastBefore(Starts(xs, 1), c) = LastBefore(Starts(ls, 1), c)
    BY <2>3, LastCut
  <2> QED  BY <2>1, <2>4 DEF Begins
<1>7. r.chunks \subseteq q.chunks
  BY <1>5, <1>6
<1>8. LinesOf(r) \subseteq LinesOf(q)
  <2> HIDE DEF q
  <2> QED BY <1>5, <1>7 DEF LinesOf
<1> QED  BY <1>4, <1>8

(* No line is in two messages of a parse.                                  *)
LEMMA LinesApart ==
    ASSUME NEW ls \in Seq(Kinds), NEW ino \in Nat,
           NEW r \in Parse(ls, 1, 0, ino), NEW q \in Parse(ls, 1, 0, ino), r # q
    PROVE  LinesOf(r) \cap LinesOf(q) = {}
<1>1. PICK i \in Starts(ls, 1) : r = Message(ls, 1, i, 0, ino)
  BY DEF Parse
<1>2. PICK k \in Starts(ls, 1) : q = Message(ls, 1, k, 0, ino)
  BY DEF Parse
<1>3. i # k
  BY <1>1, <1>2
<1>4. Starts(ls, 1) \subseteq Int
  BY LenProperties DEF Starts, Entries
<1>5. ASSUME NEW s \in Starts(ls, 1) PROVE LastBefore(Starts(ls, 1), s) = {s}
  BY <1>4 DEF LastBefore
<1>6. r.at = i /\ q.at = k
  BY <1>1, <1>2 DEF Message
<1>7. ASSUME NEW c \in r.chunks PROVE LastBefore(Starts(ls, 1), c) = {i}
  BY <1>1, <1>7 DEF Message
<1>8. ASSUME NEW c \in q.chunks PROVE LastBefore(Starts(ls, 1), c) = {k}
  BY <1>2, <1>8 DEF Message
<1>9. ({r.at} \cup r.chunks) \cap ({q.at} \cup q.chunks) = {}
  <2> SUFFICES ASSUME NEW c \in {r.at} \cup r.chunks, c \in {q.at} \cup q.chunks PROVE FALSE
    OBVIOUS
  <2>1. LastBefore(Starts(ls, 1), c) = {i}
    <3>1. CASE c = i
      BY <1>5, <3>1
    <3>2. CASE c \in r.chunks
      BY <1>7, <3>2
    <3> QED  BY <1>6, <3>1, <3>2
  <2>2. LastBefore(Starts(ls, 1), c) = {k}
    <3>1. CASE c = k
      BY <1>5, <3>1
    <3>2. CASE c \in q.chunks
      BY <1>8, <3>2
    <3> QED  BY <1>6, <3>1, <3>2
  <2> QED  BY <1>3, <2>1, <2>2
<1>10. \A x \in LinesOf(r) : x[2] \in {r.at} \cup r.chunks
  BY DEF LinesOf
<1>11. \A x \in LinesOf(q) : x[2] \in {q.at} \cup q.chunks
  BY DEF LinesOf
<1> QED  BY <1>9, <1>10, <1>11

-----------------------------------------------------------------------------
(* Appended lines that the incremental parser takes: none of them is a     *)
(* chunk, since the entry before a first chunk is stored, and the answer   *)
(* it belongs to is the last that was stored.                              *)
LEMMA LastStart ==
    ASSUME NEW xs \in Seq(Kinds), Starts(xs, 1) # {}
    PROVE  \E s \in Starts(xs, 1) : \A i \in Starts(xs, 1) : i <= s
<1>1. Starts(xs, 1) \subseteq 1..Len(xs) /\ Len(xs) \in Nat
  BY StartsFinite, LenProperties
<1>2. Starts(xs, 1) \in SUBSET Nat /\ \A x \in Starts(xs, 1) : x <= Len(xs)
  BY <1>1
<1> QED  BY <1>1, <1>2, LargestExists

LEMMA AnswerIsLast ==
    ASSUME NEW xs \in Seq(Kinds), NEW ls \in Seq(Kinds), Begins(xs, ls), WellFormed(ls),
           NEW c \in Entries(ls, 1), ls[c] = "chunk", Len(xs) < c,
           \A k \in Entries(ls, 1) : k < c => k <= Len(xs),
           NEW s \in Starts(xs, 1), \A i \in Starts(xs, 1) : i <= s
    PROVE  ls[s] = "asst" /\ \A k \in 1..Len(ls) : ls[k] = "asst" /\ k <= c => k <= s
<1>1. Len(xs) \in Nat /\ Len(ls) \in Nat /\ Entries(ls, 1) \subseteq 1..Len(ls)
  BY LenProperties DEF Entries
<1>2. s \in Entries(ls, 1) /\ s \in Entries(xs, 1) /\ s <= Len(xs) /\ s \in Nat /\ ~Merged(xs, 1, s)
  BY <1>1, Shared DEF Starts
<1>3. ASSUME NEW k \in Entries(ls, 1), s < k, k <= Len(xs) PROVE ls[k] = "chunk"
  <2>1. k \in Entries(xs, 1) /\ k \notin Starts(xs, 1)
    BY <1>1, <1>2, <1>3, Shared
  <2>2. xs[k] = "chunk"
    BY <2>1 DEF Starts, Merged
  <2> QED  BY <1>1, <1>3, <2>2 DEF Begins
<1>4. PICK j \in Entries(ls, 1) : /\ j < c /\ ls[j] \in {"asst", "chunk"}
                                  /\ \A k \in Entries(ls, 1) : k < c => k <= j
  BY DEF WellFormed
<1>5. j <= Len(xs) /\ s <= j
  BY <1>1, <1>2, <1>4
<1>6. ls[s] \in {"asst", "chunk"}
  <2>1. CASE s = j
    BY <1>4, <2>1
  <2>2. CASE s # j
    <3> DEFINE T == {k \in Entries(ls, 1) : s < k}
    <3>1. T \in SUBSET Nat /\ T # {}
      BY <1>1, <1>2, <1>4, <1>5, <2>2
    <3>2. PICK k \in T : \A x \in T : k <= x
      BY <3>1, SmallestExists
    <3>3. j \in T
      BY <1>1, <1>2, <1>4, <1>5, <2>2
    <3>4. ls[k] = "chunk"
      BY <1>1, <1>3, <1>5, <3>2, <3>3
    <3>5. PICK p \in Entries(ls, 1) : /\ p < k /\ ls[p] \in {"asst", "chunk"}
                                      /\ \A x \in Entries(ls, 1) : x < k => x <= p
      BY <3>2, <3>4 DEF WellFormed
    <3>6. s <= p
      BY <1>2, <3>2, <3>5
    <3>7. ~(s < p)
      BY <1>1, <1>2, <3>2, <3>5
    <3>8. p = s
      BY <1>1, <1>2, <3>6, <3>7
    <3> QED  BY <3>5, <3>8
  <2> QED  BY <2>1, <2>2
<1>7. ls[s] # "chunk"
  <2> SUFFICES ASSUME ls[s] = "chunk" PROVE FALSE
    OBVIOUS
  <2>1. PICK p \in Entries(ls, 1) : p < s
    BY <1>2 DEF WellFormed
  <2>2. p \in Entries(xs, 1)
    BY <1>1, <1>2, <2>1, Shared
  <2>3. xs[s] = "chunk"
    BY <1>1, <1>2 DEF Begins, Entries
  <2> QED  BY <1>2, <2>1, <2>2, <2>3 DEF Merged
<1>8. ASSUME NEW k \in 1..Len(ls), ls[k] = "asst", k <= c PROVE k <= s
  <2>1. k \in Entries(ls, 1) /\ k # c
    BY <1>8, <1>1 DEF Entries
  <2>2. k <= Len(xs)
    BY <1>1, <1>8, <2>1
  <2>3. ~(s < k)
    BY <1>3, <1>8, <2>1, <2>2
  <2> QED  BY <1>2, <2>3
<1> QED  BY <1>6, <1>7, <1>8

LEMMA TopMessage ==
    ASSUME NEW xs \in Seq(Kinds), NEW ino \in Nat, \A i \in 1..Len(xs) : xs[i] # "result",
           NEW s \in Starts(xs, 1), \A i \in Starts(xs, 1) : i <= s
    PROVE  /\ Message(xs, 1, s, 0, ino) \in Parse(xs, 1, 0, ino)
           /\ \A r \in Parse(xs, 1, 0, ino) : r.ord <= Message(xs, 1, s, 0, ino).ord
           /\ Message(xs, 1, s, 0, ino).ord + 1 = Cardinality(Starts(xs, 1))
           /\ Message(xs, 1, s, 0, ino).ord \in Nat
<1>1. Starts(xs, 1) \subseteq 1..Len(xs) /\ Len(xs) \in Nat /\ IsFiniteSet(Starts(xs, 1))
  BY StartsFinite, LenProperties
<1>2. Message(xs, 1, s, 0, ino) \in Parse(xs, 1, 0, ino)
  BY <1>1 DEF Parse
<1>3. ASSUME NEW r \in Parse(xs, 1, 0, ino) PROVE r.ord <= Message(xs, 1, s, 0, ino).ord
  <2>1. PICK i \in Starts(xs, 1) : r = Message(xs, 1, i, 0, ino)
    BY DEF Parse
  <2>2. r.ord = OrdinalOf(xs, 1, i, 0) /\ Message(xs, 1, s, 0, ino).ord = OrdinalOf(xs, 1, s, 0)
    BY <2>1, MessageType
  <2>3. OrdinalOf(xs, 1, i, 0) \in Nat /\ OrdinalOf(xs, 1, s, 0) \in Nat
    BY OrdinalRange
  <2>4. i <= s /\ i \in Nat /\ s \in Nat
    BY <1>1
  <2>5. CASE i < s
    BY <2>2, <2>3, <2>5, OrdinalsIncrease
  <2>6. CASE i = s
    BY <2>1, <2>3, <2>2, <2>6
  <2> QED  BY <2>4, <2>5, <2>6
<1>4. Message(xs, 1, s, 0, ino).ord + 1 = Cardinality(Starts(xs, 1)) /\ Message(xs, 1, s, 0, ino).ord \in Nat
  <2> DEFINE B == {j \in Starts(xs, 1) : j < s}
  <2>1. Message(xs, 1, s, 0, ino).ord = 0 + Cardinality(B)
    BY MessageType DEF OrdinalOf
  <2>2. B = Starts(xs, 1) \ {s}
    BY <1>1
  <2> HIDE DEF B
  <2>3. Cardinality(B) = Cardinality(Starts(xs, 1)) - 1
    BY <1>1, <2>2, FS_RemoveElement
  <2>4. Cardinality(Starts(xs, 1)) \in Nat
    BY <1>1, FS_CardinalityType
  <2>5. IsFiniteSet(B)
    BY <1>1, <2>2, FS_RemoveElement
  <2>6. Cardinality(B) \in Nat
    BY <2>5, FS_CardinalityType
  <2> QED  BY <2>1, <2>3, <2>4, <2>6
<1> QED  BY <1>2, <1>3, <1>4

LEMMA CoreOfParse ==
    ASSUME NEW xs, NEW ino, NEW msgs, Cores(msgs) = Cores(Parse(xs, 1, 0, ino)), NEW r \in msgs
    PROVE  r.at \in Starts(xs, 1) /\ r.ino = ino
<1>1. Core(r) \in Cores(Parse(xs, 1, 0, ino))
  BY DEF Cores
<1>2. PICK q \in Parse(xs, 1, 0, ino) : Core(q) = Core(r)
  BY <1>1 DEF Cores
<1>3. q.at = r.at /\ q.ino = r.ino
  BY <1>2 DEF Core
<1>4. PICK i \in Starts(xs, 1) : q = Message(xs, 1, i, 0, ino)
  BY DEF Parse
<1>5. q.at = i /\ q.ino = ino
  BY <1>4 DEF Message
<1> QED  BY <1>3, <1>5

(* A parse numbers its messages in the order of their lines.               *)
LEMMA ParseAscends ==
    ASSUME NEW ls \in Seq(Kinds), NEW a \in Nat \ {0}, NEW ord \in Nat, NEW ino \in Nat
    PROVE  /\ Ascending(Parse(ls, a, ord, ino))
           /\ \A m \in Parse(ls, a, ord, ino) : m.at \in Starts(ls, a) /\ ord <= m.ord
<1> DEFINE P == Parse(ls, a, ord, ino)
<1>1. ASSUME NEW m \in P
      PROVE  m.at \in Starts(ls, a) /\ m.ord = OrdinalOf(ls, a, m.at, ord)
  <2>1. PICK i \in Starts(ls, a) : m = Message(ls, a, i, ord, ino)
    BY DEF Parse
  <2>2. m.at = i /\ m.ord = OrdinalOf(ls, a, i, ord)
    BY <2>1 DEF Message
  <2> QED  BY <2>2
<1>2. ASSUME NEW m \in P PROVE ord <= m.ord
  <2>1. IsFiniteSet({j \in Starts(ls, a) : j < m.at})
    BY StartsFinite
  <2>2. Cardinality({j \in Starts(ls, a) : j < m.at}) \in Nat
    BY <2>1, FS_CardinalityType
  <2> QED  BY <1>1, <2>2 DEF OrdinalOf
<1>3. ASSUME NEW r \in P, NEW q \in P PROVE r.ord < q.ord <=> r.at < q.at
  <2>1. r.at \in Starts(ls, a) /\ q.at \in Starts(ls, a) /\ r.at \in Int /\ q.at \in Int
    BY <1>1, StartsFinite, LenProperties
  <2>2. r.ord \in Nat /\ q.ord \in Nat
    BY <1>1, OrdinalRange
  <2>3. CASE r.at < q.at
    BY <1>1, <2>1, <2>3, OrdinalsIncrease
  <2>4. CASE q.at < r.at
    <3>1. q.ord < r.ord
      BY <1>1, <2>1, <2>4, OrdinalsIncrease
    <3> QED  BY <2>1, <2>2, <2>4, <3>1
  <2>5. CASE r.at = q.at
    <3>1. r.ord = q.ord
      BY <1>1, <2>5
    <3> QED  BY <2>1, <2>2, <2>5, <3>1
  <2> QED  BY <2>1, <2>3, <2>4, <2>5
<1> QED  BY <1>1, <1>2, <1>3 DEF Ascending

LEMMA NoChunk ==
    ASSUME lines \in Seq(Kinds), WellFormed(lines), inode \in Nat,
           NEW xs \in Seq(Kinds), Begins(xs, lines),
           rows \in SUBSET Row, Distinct(rows), Ascending(rows), rows # {},
           Cores(rows) = Cores(Parse(xs, 1, 0, inode)),
           ~NeedsFullParse(Len(xs) + 1), NEW c \in Entries(lines, Len(xs) + 1)
    PROVE  lines[c] # "chunk"
<1> DEFINE a == Len(xs) + 1
<1> SUFFICES ASSUME lines[c] = "chunk" PROVE FALSE
  OBVIOUS
<1>1. Len(xs) \in Nat /\ Len(lines) \in Nat
  BY LenProperties
<1>2. Entries(lines, a) = {i \in Entries(lines, 1) : Len(xs) < i} /\ Entries(lines, 1) \subseteq 1..Len(lines)
  BY <1>1 DEF Entries
<1>3. c \in Entries(lines, 1) /\ Len(xs) < c
  BY <1>2
<1>4. \A k \in Entries(lines, a) : ~(k < c)
  BY DEF NeedsFullParse, Merged
<1>5. \A k \in Entries(lines, 1) : k < c => k <= Len(xs)
  BY <1>1, <1>2, <1>4
<1>6. \A r \in rows : r.at \in Starts(xs, 1)
  BY CoreOfParse
<1>7. PICK s \in Starts(xs, 1) : \A i \in Starts(xs, 1) : i <= s
  BY <1>6, LastStart
<1>8. lines[s] = "asst" /\ \A k \in 1..Len(lines) : lines[k] = "asst" /\ k <= c => k <= s
  BY <1>3, <1>5, <1>7, AnswerIsLast
<1>9. s \in 1..Len(xs) /\ s \in 1..Len(lines) /\ xs[s] = "asst" /\ s <= c
  BY <1>1, <1>2, <1>3, <1>8, StartsFinite DEF Begins
<1> DEFINE T == Message(xs, 1, s, 0, inode)
<1>10. T.reply = {s} /\ T.ino = inode /\ T.at = s /\ T \in Parse(xs, 1, 0, inode)
  <2>1. T.reply = LastBefore({j \in 1..Len(xs) : xs[j] = "asst"}, s)
    BY <1>9 DEF Message
  <2>2. LastBefore({j \in 1..Len(xs) : xs[j] = "asst"}, s) = {s}
    BY <1>1, <1>9 DEF LastBefore
  <2>3. T \in Parse(xs, 1, 0, inode)
    BY <1>9 DEF Parse
  <2> QED  BY <2>1, <2>2, <2>3 DEF Message
<1> HIDE DEF T
<1>11. PICK R \in rows : Core(R) = Core(T)
  BY <1>10 DEF Cores
<1>12. R.reply = {s} /\ R.ino = inode /\ R.at = s
  BY <1>10, <1>11 DEF Core
<1> DEFINE replies == {r \in rows : r.reply # {}}
           top == {r \in replies : \A q \in replies : q.ord <= r.ord}
<1>13. top = {R}
  <2>1. ASSUME NEW r \in rows PROVE r.ord <= R.ord
    <3>1. r.at \in Starts(xs, 1) /\ r.at <= s /\ r.at \in Int /\ s \in Int
      BY <1>1, <1>6, <1>7, StartsFinite
    <3>2. ~(R.ord < r.ord)
      BY <1>12, <3>1 DEF Ascending
    <3> QED  BY <3>2 DEF Row
  <2>2. R \in top
    BY <1>12, <2>1
  <2>3. ASSUME NEW r \in top PROVE r = R
    <3>1. r \in rows /\ R.ord <= r.ord /\ r.ord <= R.ord
      BY <1>12, <2>1
    <3>2. r.ord = R.ord
      BY <3>1 DEF Row
    <3> QED  BY <3>1, <3>2 DEF Distinct
  <2> QED  BY <2>2, <2>3
<1>14. LastClaudeMessageID = {<<inode, {s}>>}
  <2>1. LastClaudeMessageID = {<<r.ino, r.reply>> : r \in top}
    BY DEF LastClaudeMessageID
  <2> HIDE DEF top
  <2> QED  BY <1>12, <1>13, <2>1
<1>15. Message(lines, a, c, 0, inode).reply = {s}
  <2>1. Message(lines, a, c, 0, inode).reply = LastBefore({j \in 1..Len(lines) : lines[j] = "asst"}, c)
    BY DEF Message
  <2> DEFINE A == {j \in 1..Len(lines) : lines[j] = "asst"}
  <2>2. s \in A /\ s <= c /\ (\A k \in A : k <= c => k <= s) /\ A \subseteq Int
    BY <1>1, <1>8, <1>9
  <2> HIDE DEF A
  <2>3. LastBefore(A, c) = {s}
    <3>1. s \in LastBefore(A, c)
      BY <2>2 DEF LastBefore
    <3>2. ASSUME NEW j \in LastBefore(A, c) PROVE j = s
      <4>1. j \in A /\ j <= c /\ s <= j
        BY <2>2 DEF LastBefore
      <4>2. j <= s /\ j \in Int /\ s \in Int
        BY <2>2, <4>1
      <4> QED  BY <4>1, <4>2
    <3> QED  BY <3>1, <3>2
  <2> QED  BY <2>1, <2>3 DEF A
<1>16. c \in {i \in Entries(lines, a) : \A j \in Entries(lines, a) : i <= j}
  BY <1>1, <1>2, <1>4
<1>17. NeedsFullParse(a)
  BY <1>14, <1>15, <1>16 DEF NeedsFullParse
<1> QED  BY <1>17

(* What the incremental parser reads is what a parse of the whole file     *)
(* adds to the messages of the lines before.                               *)
LEMMA Extension ==
    ASSUME lines \in Seq(Kinds), WellFormed(lines), inode \in Nat,
           \A i \in 1..Len(lines) : lines[i] # "result",
           NEW xs \in Seq(Kinds), Begins(xs, lines),
           rows = Parse(xs, 1, 0, inode), rows # {},
           ~NeedsFullParse(Len(xs) + 1)
    PROVE  /\ rows \cup Parse(lines, Len(xs) + 1, MaxOrdinal + 1, inode) = Parse(lines, 1, 0, inode)
           /\ \A r \in rows, m \in Parse(lines, Len(xs) + 1, MaxOrdinal + 1, inode) : r.ord < m.ord
<1> DEFINE a == Len(xs) + 1
           new == Parse(lines, a, MaxOrdinal + 1, inode)
<1>1. Len(xs) \in Nat /\ Len(lines) \in Nat /\ Len(xs) <= Len(lines) /\ a \in Nat \ {0}
  BY LenProperties DEF Begins
<1>2. Entries(lines, a) = {i \in Entries(lines, 1) : Len(xs) < i} /\ Entries(lines, 1) \subseteq 1..Len(lines)
  BY <1>1 DEF Entries
<1>3. \A i \in 1..Len(xs) : xs[i] # "result" /\ xs[i] = lines[i]
  BY <1>1 DEF Begins
<1>4. \A c \in Entries(lines, a) : lines[c] # "chunk"
  BY ParseNumbers, ParseAscends, NoChunk DEF Numbered
<1>5. Starts(lines, a) = {i \in Starts(lines, 1) : Len(xs) < i} /\ Starts(lines, a) = Entries(lines, a)
  BY <1>2, <1>4 DEF Starts, Merged
<1>6. Starts(xs, 1) = {i \in Starts(lines, 1) : i <= Len(xs)} /\ Entries(xs, 1) = {i \in Entries(lines, 1) : i <= Len(xs)}
  BY Shared
<1>7. Starts(xs, 1) \subseteq 1..Len(xs) /\ Starts(lines, 1) \subseteq 1..Len(lines)
      /\ Starts(lines, 1) = Starts(xs, 1) \cup Starts(lines, a)
      /\ IsFiniteSet(Starts(xs, 1)) /\ IsFiniteSet(Starts(lines, 1)) /\ IsFiniteSet(Starts(lines, a))
  BY <1>1, <1>5, <1>6, StartsFinite
<1>8. Starts(xs, 1) # {}
  BY DEF Parse
<1>9. PICK s \in Starts(xs, 1) : \A i \in Starts(xs, 1) : i <= s
  BY <1>8, LastStart
<1>10. MaxOrdinal + 1 = Cardinality(Starts(xs, 1)) /\ MaxOrdinal \in Nat /\ \A r \in rows : r.ord <= MaxOrdinal
  <2> DEFINE R == Message(xs, 1, s, 0, inode)
             S == {r.ord : r \in rows}
  <2>1. R \in rows /\ (\A r \in rows : r.ord <= R.ord) /\ R.ord + 1 = Cardinality(Starts(xs, 1)) /\ R.ord \in Nat
    BY <1>3, <1>9, TopMessage
  <2>2. rows \in SUBSET Row
    BY ParseNumbers
  <2>3. MaxOrdinal = Largest(S)
    BY DEF MaxOrdinal
  <2> HIDE DEF R
  <2>4. S \in SUBSET Nat /\ S # {} /\ (\A x \in S : x <= R.ord) /\ R.ord \in S
    BY <2>1, <2>2 DEF Row
  <2> HIDE DEF S
  <2>5. Largest(S) \in S /\ \A m \in S : m <= Largest(S)
    BY <2>1, <2>4, LargestExists
  <2>6. Largest(S) = R.ord
    <3>1. R.ord <= Largest(S) /\ Largest(S) <= R.ord
      BY <2>4, <2>5
    <3>2. Largest(S) \in Nat /\ R.ord \in Nat
      BY <2>4, <2>5
    <3> QED  BY <3>1, <3>2
  <2> QED  BY <2>1, <2>3, <2>6
<1>11. ASSUME NEW i \in Starts(xs, 1)
       PROVE  Message(xs, 1, i, 0, inode) = Message(lines, 1, i, 0, inode)
  <2>1. i \in Starts(lines, 1) /\ i <= Len(xs) /\ i \in 1..Len(xs) /\ xs[i] = lines[i]
    BY <1>3, <1>6, <1>7
  <2>2. {j \in Starts(xs, 1) : j < i} = {j \in Starts(lines, 1) : j < i}
    BY <1>1, <1>6, <1>7, <2>1
  <2>3. OrdinalOf(xs, 1, i, 0) = OrdinalOf(lines, 1, i, 0)
    BY <2>2 DEF OrdinalOf
  <2>4. {c \in Entries(xs, 1) : xs[c] = "chunk" /\ c # i /\ LastBefore(Starts(xs, 1), c) = {i}}
        = {c \in Entries(lines, 1) : lines[c] = "chunk" /\ c # i /\ LastBefore(Starts(lines, 1), c) = {i}}
    <3>1. \A c \in Entries(lines, 1) : lines[c] = "chunk" => c \in Entries(xs, 1)
      BY <1>1, <1>2, <1>4, <1>6
    <3>2. ASSUME NEW c \in Entries(xs, 1)
          PROVE  LastBefore(Starts(xs, 1), c) = LastBefore(Starts(lines, 1), c)
                 /\ xs[c] = lines[c] /\ c \in Entries(lines, 1)
      <4>1. c <= Len(xs) /\ c \in 1..Len(xs) /\ c \in Entries(lines, 1)
        BY <1>1, <1>2, <1>6
      <4>2. {j \in Starts(xs, 1) : j <= c} = {j \in Starts(lines, 1) : j <= c}
        BY <1>1, <1>6, <1>7, <4>1
      <4> QED  BY <1>3, <4>1, <4>2, LastCut
    <3> QED  BY <3>1, <3>2
  <2>5. {r \in Entries(xs, 1) : xs[r] = "result" /\ LastBefore(Answers(xs, 1), r) = {i}} = {}
        /\ {r \in Entries(lines, 1) : lines[r] = "result" /\ LastBefore(Answers(lines, 1), r) = {i}} = {}
    BY <1>2, <1>3 DEF Entries
  <2>6. LastBefore({j \in 1..Len(xs) : xs[j] = "asst"}, i) = LastBefore({j \in 1..Len(lines) : lines[j] = "asst"}, i)
    <3> DEFINE X == {j \in 1..Len(xs) : xs[j] = "asst"}
               L == {j \in 1..Len(lines) : lines[j] = "asst"}
    <3>1. {j \in X : j <= i} = {j \in L : j <= i}
      BY <1>1, <1>3, <2>1
    <3> HIDE DEF X, L
    <3>2. LastBefore(X, i) = LastBefore(L, i)
      BY <3>1, LastCut
    <3> QED  BY <3>2 DEF X, L
  <2> QED  BY <2>1, <2>3, <2>4, <2>5, <2>6 DEF Message
<1>12. ASSUME NEW i \in Starts(lines, a)
       PROVE  Message(lines, a, i, MaxOrdinal + 1, inode) = Message(lines, 1, i, 0, inode)
  <2>1. i \in Starts(lines, 1) /\ Len(xs) < i /\ i \in Nat
    BY <1>5, <1>7
  <2>2. OrdinalOf(lines, a, i, MaxOrdinal + 1) = OrdinalOf(lines, 1, i, 0)
    <3> DEFINE B == {j \in Starts(lines, a) : j < i}
               X == Starts(xs, 1)
    <3>1. {j \in Starts(lines, 1) : j < i} = X \cup B
      BY <1>1, <1>5, <1>7, <2>1
    <3>2. X \cap B = {} /\ B \subseteq Starts(lines, a)
      BY <1>1, <1>5, <1>7
    <3>3. IsFiniteSet(X) /\ IsFiniteSet(B)
      BY <1>1, <1>7, StartsFinite
    <3>4. OrdinalOf(lines, a, i, MaxOrdinal + 1) = MaxOrdinal + 1 + Cardinality(B)
          /\ OrdinalOf(lines, 1, i, 0) = 0 + Cardinality(X \cup B)
      BY <3>1 DEF OrdinalOf
    <3>5. MaxOrdinal + 1 = Cardinality(X)
      BY <1>10
    <3> HIDE DEF B, X
    <3>6. Cardinality(X \cup B) = Cardinality(X) + Cardinality(B)
      <4>1. X \cap B = {}
        BY <3>2
      <4>2. Cardinality(X \cap B) = 0
        BY <4>1, FS_EmptySet
      <4>3. Cardinality(X \cup B) = Cardinality(X) + Cardinality(B) - Cardinality(X \cap B)
        BY <3>3, FS_Union
      <4> QED  BY <3>3, <4>2, <4>3, FS_CardinalityType
    <3>7. Cardinality(X) \in Nat /\ Cardinality(B) \in Nat
      BY <3>3, FS_CardinalityType
    <3> QED  BY <3>4, <3>5, <3>6, <3>7
  <2>3. {c \in Entries(lines, a) : lines[c] = "chunk" /\ c # i /\ LastBefore(Starts(lines, a), c) = {i}} = {}
    BY <1>4
  <2>4. {c \in Entries(lines, 1) : lines[c] = "chunk" /\ c # i /\ LastBefore(Starts(lines, 1), c) = {i}} = {}
    <3> SUFFICES ASSUME NEW c \in Entries(lines, 1), lines[c] = "chunk", LastBefore(Starts(lines, 1), c) = {i}
                 PROVE  FALSE
      OBVIOUS
    <3>1. i \in LastBefore(Starts(lines, 1), c)
      OBVIOUS
    <3>2. i <= c
      BY <3>1 DEF LastBefore
    <3>3. c \in Entries(lines, a)
      BY <1>1, <1>2, <2>1, <3>2
    <3> QED  BY <1>4, <3>3
  <2>5. {r \in Entries(lines, a) : lines[r] = "result" /\ LastBefore(Answers(lines, a), r) = {i}} = {}
        /\ {r \in Entries(lines, 1) : lines[r] = "result" /\ LastBefore(Answers(lines, 1), r) = {i}} = {}
    BY <1>2
  <2> QED  BY <2>2, <2>3, <2>4, <2>5 DEF Message
<1>13. rows = {Message(lines, 1, i, 0, inode) : i \in Starts(xs, 1)}
  <2>1. {j \in Starts(xs, 1) : xs[j] # "result"} = Starts(xs, 1)
    BY <1>3, <1>7
  <2>2. rows = {Message(xs, 1, i, 0, inode) : i \in Starts(xs, 1)}
    BY <2>1 DEF Parse
  <2> QED  BY <1>11, <2>2
<1>14. new = {Message(lines, 1, i, 0, inode) : i \in Starts(lines, a)}
  <2>1. {j \in Starts(lines, a) : lines[j] # "result"} = Starts(lines, a)
    BY <1>5, <1>7
  <2>2. new = {Message(lines, a, i, MaxOrdinal + 1, inode) : i \in Starts(lines, a)}
    BY <2>1 DEF Parse
  <2> HIDE DEF new
  <2> QED  BY <1>12, <2>2
<1>15. Parse(lines, 1, 0, inode) = {Message(lines, 1, i, 0, inode) : i \in Starts(lines, 1)}
  <2>1. {j \in Starts(lines, 1) : lines[j] # "result"} = Starts(lines, 1)
    BY <1>7
  <2> QED  BY <2>1 DEF Parse
<1>16. rows \cup new = Parse(lines, 1, 0, inode)
  <2> HIDE DEF new
  <2> QED  BY <1>7, <1>13, <1>14, <1>15
<1>17. ASSUME NEW m \in new PROVE MaxOrdinal < m.ord
  <2>1. PICK i \in Starts(lines, a) : m = Message(lines, a, i, MaxOrdinal + 1, inode)
    BY DEF Parse
  <2>2. m.ord = OrdinalOf(lines, a, i, MaxOrdinal + 1)
    BY <1>1, <1>10, <2>1, MessageType
  <2>3. OrdinalOf(lines, a, i, MaxOrdinal + 1) = MaxOrdinal + 1 + Cardinality({j \in Starts(lines, a) : j < i})
    BY DEF OrdinalOf
  <2>4. Cardinality({j \in Starts(lines, a) : j < i}) \in Nat
    BY <1>1, StartsFinite, FS_CardinalityType
  <2> QED  BY <1>10, <2>2, <2>3, <2>4
<1>18. rows \in SUBSET Row /\ new \in SUBSET Row
  BY <1>1, <1>10, ParseNumbers
<1>19. \A r \in rows, m \in new : r.ord < m.ord
  <2> HIDE DEF new
  <2> QED  BY <1>10, <1>17, <1>18 DEF Row
<1> QED  BY <1>16, <1>19

(* With results the rows are no longer those of a parse of the whole file, *)
(* but they hold the same lines in the same order.                         *)
LEMMA LooseExtension ==
    ASSUME lines \in Seq(Kinds), WellFormed(lines), inode \in Nat,
           NEW xs \in Seq(Kinds), Begins(xs, lines),
           rows \in SUBSET Row, Numbered(rows), Ascending(rows), rows # {},
           Cores(rows) = Cores(Parse(xs, 1, 0, inode)),
           ~NeedsFullParse(Len(xs) + 1)
    PROVE  LET new == Parse(lines, Len(xs) + 1, MaxOrdinal + 1, inode) IN
           /\ Cores(rows \cup new) = Cores(Parse(lines, 1, 0, inode))
           /\ Ascending(rows \cup new)
           /\ \A r \in rows, m \in new : r.ord < m.ord
<1> DEFINE a == Len(xs) + 1
           new == Parse(lines, a, MaxOrdinal + 1, inode)
<1>1. Len(xs) \in Nat /\ Len(lines) \in Nat /\ Len(xs) <= Len(lines) /\ a \in Nat \ {0}
  BY LenProperties DEF Begins
<1>2. Entries(lines, a) = {i \in Entries(lines, 1) : Len(xs) < i} /\ Entries(lines, 1) \subseteq 1..Len(lines)
  BY <1>1 DEF Entries
<1>3. \A i \in 1..Len(xs) : xs[i] = lines[i]
  BY <1>1 DEF Begins
<1>4. \A c \in Entries(lines, a) : lines[c] # "chunk"
  BY NoChunk DEF Numbered
<1>5. Starts(lines, a) = {i \in Starts(lines, 1) : Len(xs) < i}
  BY <1>2, <1>4 DEF Starts, Merged
<1>6. Starts(xs, 1) = {i \in Starts(lines, 1) : i <= Len(xs)} /\ Entries(xs, 1) = {i \in Entries(lines, 1) : i <= Len(xs)}
  BY Shared
<1>7. Starts(xs, 1) \subseteq 1..Len(xs) /\ Starts(lines, 1) \subseteq 1..Len(lines)
      /\ Starts(lines, 1) = Starts(xs, 1) \cup Starts(lines, a)
  BY <1>1, <1>5, <1>6, StartsFinite
<1>8. ASSUME NEW i \in Starts(xs, 1)
      PROVE  Core(Message(xs, 1, i, 0, inode)) = Core(Message(lines, 1, i, 0, inode))
  <2>1. i \in Starts(lines, 1) /\ i <= Len(xs) /\ i \in 1..Len(xs) /\ xs[i] = lines[i]
    BY <1>3, <1>6, <1>7
  <2>2. {c \in Entries(xs, 1) : xs[c] = "chunk" /\ c # i /\ LastBefore(Starts(xs, 1), c) = {i}}
        = {c \in Entries(lines, 1) : lines[c] = "chunk" /\ c # i /\ LastBefore(Starts(lines, 1), c) = {i}}
    <3>1. \A c \in Entries(lines, 1) : lines[c] = "chunk" => c \in Entries(xs, 1)
      BY <1>1, <1>2, <1>4, <1>6
    <3>2. ASSUME NEW c \in Entries(xs, 1)
          PROVE  LastBefore(Starts(xs, 1), c) = LastBefore(Starts(lines, 1), c)
                 /\ xs[c] = lines[c] /\ c \in Entries(lines, 1)
      <4>1. c <= Len(xs) /\ c \in 1..Len(xs) /\ c \in Entries(lines, 1)
        BY <1>1, <1>2, <1>6
      <4>2. {j \in Starts(xs, 1) : j <= c} = {j \in Starts(lines, 1) : j <= c}
        BY <1>1, <1>6, <1>7, <4>1
      <4> QED  BY <1>3, <4>1, <4>2, LastCut
    <3> QED  BY <3>1, <3>2
  <2>3. LastBefore({j \in 1..Len(xs) : xs[j] = "asst"}, i) = LastBefore({j \in 1..Len(lines) : lines[j] = "asst"}, i)
    <3> DEFINE X == {j \in 1..Len(xs) : xs[j] = "asst"}
               L == {j \in 1..Len(lines) : lines[j] = "asst"}
    <3>1. {j \in X : j <= i} = {j \in L : j <= i}
      BY <1>1, <1>3, <2>1
    <3> HIDE DEF X, L
    <3>2. LastBefore(X, i) = LastBefore(L, i)
      BY <3>1, LastCut
    <3> QED  BY <3>2 DEF X, L
  <2> QED  BY <2>1, <2>2, <2>3 DEF Message, Core
<1>9. ASSUME NEW i \in Starts(lines, a)
      PROVE  Core(Message(lines, a, i, MaxOrdinal + 1, inode)) = Core(Message(lines, 1, i, 0, inode))
  <2>1. i \in Starts(lines, 1) /\ Len(xs) < i /\ i \in Nat
    BY <1>5, <1>7
  <2>2. {c \in Entries(lines, a) : lines[c] = "chunk" /\ c # i /\ LastBefore(Starts(lines, a), c) = {i}} = {}
    BY <1>4
  <2>3. {c \in Entries(lines, 1) : lines[c] = "chunk" /\ c # i /\ LastBefore(Starts(lines, 1), c) = {i}} = {}
    <3> SUFFICES ASSUME NEW c \in Entries(lines, 1), lines[c] = "chunk", LastBefore(Starts(lines, 1), c) = {i}
                 PROVE  FALSE
      OBVIOUS
    <3>1. i \in LastBefore(Starts(lines, 1), c)
      OBVIOUS
    <3>2. i <= c
      BY <3>1 DEF LastBefore
    <3>3. c \in Entries(lines, a)
      BY <1>1, <1>2, <2>1, <3>2
    <3> QED  BY <1>4, <3>3
  <2> QED  BY <2>2, <2>3 DEF Message, Core
<1> DEFINE X == {j \in Starts(xs, 1) : xs[j] # "result"}
           A == {j \in Starts(lines, a) : lines[j] # "result"}
           L == {j \in Starts(lines, 1) : lines[j] # "result"}
<1>10. Cores(rows \cup new) = Cores(Parse(lines, 1, 0, inode))
  <2>1. L = X \cup A
    BY <1>3, <1>7
  <2>2. X \subseteq Starts(xs, 1) /\ A \subseteq Starts(lines, a)
    OBVIOUS
  <2>3. Cores(rows) = {Core(Message(xs, 1, i, 0, inode)) : i \in X}
    BY DEF Parse, Cores
  <2>4. Cores(new) = {Core(Message(lines, a, i, MaxOrdinal + 1, inode)) : i \in A}
    BY DEF Parse, Cores
  <2>5. Cores(Parse(lines, 1, 0, inode)) = {Core(Message(lines, 1, i, 0, inode)) : i \in L}
    BY DEF Parse, Cores
  <2>6. Cores(rows \cup new) = Cores(rows) \cup Cores(new)
    BY DEF Cores
  <2> HIDE DEF X, A, L, new
  <2>7. Cores(rows) = {Core(Message(lines, 1, i, 0, inode)) : i \in X}
    BY <1>8, <2>2, <2>3
  <2>8. Cores(new) = {Core(Message(lines, 1, i, 0, inode)) : i \in A}
    BY <1>9, <2>2, <2>4
  <2> QED  BY <2>1, <2>5, <2>6, <2>7, <2>8
<1>11. MaxOrdinal \in Nat /\ \A r \in rows : r.ord <= MaxOrdinal
  <2> DEFINE S == {r.ord : r \in rows}
  <2>1. PICK b \in Nat : \A r \in rows : r.ord <= b
    BY DEF Numbered, Bounded
  <2>2. S \in SUBSET Nat /\ S # {} /\ \A x \in S : x <= b
    BY <2>1 DEF Row
  <2>3. MaxOrdinal = Largest(S) /\ \A r \in rows : r.ord \in S
    BY DEF MaxOrdinal
  <2> HIDE DEF S
  <2>4. Largest(S) \in S /\ \A m \in S : m <= Largest(S)
    BY <2>1, <2>2, LargestExists
  <2> QED  BY <2>2, <2>3, <2>4
<1>12. new \in SUBSET Row /\ Ascending(new)
       /\ \A m \in new : m.at \in Starts(lines, a) /\ MaxOrdinal + 1 <= m.ord
  <2>1. MaxOrdinal + 1 \in Nat
    BY <1>11
  <2> QED  BY <1>1, <2>1, ParseNumbers, ParseAscends
<1> HIDE DEF new
<1>13. ASSUME NEW r \in rows, NEW m \in new PROVE r.ord < m.ord /\ r.at < m.at
  <2>1. r.ord \in Nat /\ m.ord \in Nat /\ r.ord < m.ord
    BY <1>11, <1>12 DEF Row
  <2>2. r.at \in Starts(xs, 1) /\ m.at \in Starts(lines, a)
    BY <1>12, CoreOfParse
  <2>3. r.at \in 1..Len(xs) /\ m.at \in 1..Len(lines) /\ Len(xs) < m.at
    BY <1>5, <1>7, <2>2
  <2> QED  BY <1>1, <2>1, <2>3
<1>14. Ascending(rows \cup new)
  <2> SUFFICES ASSUME NEW r \in rows \cup new, NEW q \in rows \cup new
               PROVE  r.ord < q.ord <=> r.at < q.at
    BY DEF Ascending
  <2>1. r.ord \in Nat /\ q.ord \in Nat /\ r.at \in Nat /\ q.at \in Nat
    BY <1>12 DEF Row
  <2>2. CASE r \in rows /\ q \in rows
    BY <2>2 DEF Ascending
  <2>3. CASE r \in new /\ q \in new
    BY <1>12, <2>3 DEF Ascending
  <2>4. CASE r \in rows /\ q \in new
    BY <1>13, <2>4
  <2>5. CASE r \in new /\ q \in rows
    <3>1. q.ord < r.ord /\ q.at < r.at
      BY <1>13, <2>5
    <3> QED  BY <2>1, <3>1
  <2> QED  BY <2>2, <2>3, <2>4, <2>5
<1> QED  BY <1>10, <1>13, <1>14 DEF new

-----------------------------------------------------------------------------
(* The inductive invariant of the gentle worlds.                           *)

Held == sess.size \div 2
Read == job.size \div 2
Unbroken(ls, n) == \A i \in (n + 1)..Len(ls) : ls[i] # "chunk"
Grows == world.kinds # {}

Transcript ==
    /\ WellFormed(lines)
    /\ Grows /\ Paired(world) => \A i \in 1..Len(lines) : lines[i] # "result"
    /\ half # "none" => InPieces(world) /\ half \in world.kinds /\ sess.stored
    /\ Grows => Speaks(lines, Len(lines))

Record ==
    /\ ~sess.stored => /\ sess = NoSession /\ rows = {}
                       /\ job.step \in {"idle", "fullStat", "fullRead", "upsert"}
    /\ sess.stored => /\ sess.inode = inode /\ sess.size = 2 * Held /\ Held <= Len(lines)
                      /\ ~Grows => Held = Len(lines)
                      /\ Grows => Speaks(lines, Held) /\ sess.preview
                      /\ InPieces(world) => Unbroken(lines, Held)
                      /\ sess.version = "none" /\ Grows => job.step \in {"messages", "version"}
    /\ InPieces(world) => sess.version # "stale"

Agree ==
    /\ rows = {} \/ Tells(rows, Told(lines, Held, inode), Paired(world))
    /\ sess.version # "none" =>
          Tells(rows, Told(lines, Held, inode), Paired(world)) /\ sess.count = Cardinality(rows)

Messages ==
    /\ ~Grows \/ job.step \notin {"messages", "incUpdate"} => Agree
    /\ job.step = "version" => rows = Told(lines, Held, inode) /\ sess.count = Cardinality(rows)
    /\ job.step = "messages" =>
          /\ job.msgs = Told(lines, Held, inode) /\ sess.count = Cardinality(job.msgs)
          /\ \E k \in 0..Held : Tells(rows, Told(lines, k, inode), Paired(world))
          /\ job.force \/ job.stale \/ rows = {} \/ rows = Told(lines, Held, inode)

Incremental ==
    /\ job.step \in {"incRead", "incMessages", "incUpdate"} => Grows /\ sess.stored /\ sess.version = "current"
    /\ job.step = "incRead" => rows # {}
    /\ job.step \in {"incMessages", "incUpdate"} =>
          /\ job.size = 2 * Read /\ Held <= Read /\ Read <= Len(lines)
          /\ InPieces(world) => Unbroken(lines, Read)
    /\ job.step = "incMessages" =>
          /\ Tells(rows \cup job.msgs, Told(lines, Read, inode), Paired(world))
          /\ \A r \in rows, m \in job.msgs : r.ord < m.ord
          /\ sess.count + Cardinality(job.msgs) = Cardinality(rows \cup job.msgs)
    /\ job.step = "incUpdate" =>
          /\ Tells(rows, Told(lines, Read, inode), Paired(world))
          /\ sess.count + Cardinality(job.msgs) = Cardinality(rows)

Parsing ==
    /\ job.step # "idle" => job.inode = inode
    /\ job.step \in {"fullStat", "fullRead"} =>
          /\ half = "none"
          /\ rows = {} \/ job.force \/ sess.version = "stale" \/ (Held = Len(lines) /\ Paired(world))
    /\ job.step = "fullRead" => job.size = 2 * Len(lines)
    /\ job.step = "upsert" =>
          /\ job.size = 2 * Read /\ Held <= Read /\ Read <= Len(lines)
          /\ job.msgs = Told(lines, Read, inode)
          /\ ~Grows => Read = Len(lines)
          /\ Grows => Speaks(lines, Read)
          /\ InPieces(world) => Unbroken(lines, Read)
          /\ rows = {} \/ job.force \/ sess.version = "stale" \/ (Held = Read /\ Paired(world))

(* With results a file of the stored size is the one that was stored, so   *)
(* that it is skipped and not parsed again beside rows of other ordinals.  *)
Stamped ==
    ~Paired(world) =>
       /\ sess.stored /\ sess.size = Size => sess.mtime = mtime
       /\ job.step = "incRead" => job.mtime = mtime
       /\ job.step \in {"fullRead", "incMessages", "incUpdate", "upsert"} /\ job.size = Size =>
             job.mtime = mtime

FollowInv ==
    /\ IInv
    /\ Gentle
    /\ Transcript /\ Record /\ Messages /\ Incremental /\ Parsing

-----------------------------------------------------------------------------
(* A size is in half lines: a stored one is that of whole lines.           *)
LEMMA HalfOf == \A n \in Nat : (2 * n) \div 2 = n /\ (2 * n + 1) \div 2 = n
OBVIOUS

LEMMA Opened ==
    ASSUME FollowInv
    PROVE  /\ lines \in Seq(Kinds) /\ Len(lines) \in Nat /\ inode \in Nat
           /\ sess \in SessType /\ job \in JobType /\ world \in World /\ world.kinds \subseteq Kinds
           /\ rows \in SUBSET Row /\ Numbered(rows) /\ job.msgs \in SUBSET Row /\ Numbered(job.msgs)
           /\ Held \in Nat /\ Read \in Nat /\ half \in Kinds \cup {"none"}
<1>1. IInv
  BY DEF FollowInv
<1>2. half \in Kinds \cup {"none"}
  BY <1>1 DEF IInv, TypeOK
<1>3. sess.size \in Nat /\ job.size \in Nat
  BY <1>1, Facts DEF SessType, JobType
<1>4. Held \in Nat /\ Read \in Nat
  BY <1>3 DEF Held, Read
<1> QED  BY <1>1, <1>2, <1>4, Facts, LenProperties DEF World, JobType

(* A world keeps its kind: only what may still happen in it gets less.     *)
Spent == UNCHANGED world \/ \E what \in {"touches", "replaces", "upgrades", "faults", "crashes"} : Spend(what)

LEMMA WorldKeeps ==
    ASSUME world \in World, Spent
    PROVE  /\ world'.kinds = world.kinds /\ world'.mishaps = world.mishaps
           /\ Paired(world') = Paired(world) /\ InPieces(world') = InPieces(world)
           /\ Gentle' = Gentle
<1>1. /\ world'.grow = world.grow /\ world'.partials = world.partials /\ world'.kinds = world.kinds
      /\ world'.replacements = world.replacements /\ world'.files = world.files
      /\ world'.mishaps = world.mishaps
  <2>1. CASE UNCHANGED world
    BY <2>1
  <2>2. ASSUME NEW what \in {"touches", "replaces", "upgrades", "faults", "crashes"}, Spend(what)
        PROVE  /\ world'.grow = world.grow /\ world'.partials = world.partials /\ world'.kinds = world.kinds
               /\ world'.replacements = world.replacements /\ world'.files = world.files
               /\ world'.mishaps = world.mishaps
    BY <2>2 DEF Spend, World
  <2> QED  BY <2>1, <2>2 DEF Spent
<1>2. Paired(world') = Paired(world) /\ InPieces(world') = InPieces(world)
  BY <1>1 DEF Paired, Holds, InPieces
<1>3. Follows(world') = Follows(world)
  BY <1>1, <1>2 DEF Follows
<1> QED  BY <1>1, <1>2, <1>3 DEF Gentle

(* A step of the engine reads the file and leaves it.                      *)
LEMMA EngineFollows ==
    ASSUME FollowInv, IInv', UNCHANGED <<lines, half, inode>>, Spent,
           sess.stored => sess'.stored,
           Record', Messages', Incremental', Parsing'
    PROVE  FollowInv'
<1>1. world'.kinds = world.kinds /\ Paired(world') = Paired(world)
      /\ InPieces(world') = InPieces(world) /\ Gentle'
  BY Opened, WorldKeeps DEF FollowInv
<1>2. Transcript'
  BY <1>1 DEF FollowInv, Transcript, Grows
<1> QED  BY <1>1, <1>2 DEF FollowInv

LEMMA ToldTells ==
    ASSUME NEW ls \in Seq(Kinds), NEW n \in 0..Len(ls), NEW ino \in Nat
    PROVE  /\ Told(ls, n, ino) \in SUBSET Row /\ Numbered(Told(ls, n, ino))
           /\ Ascending(Told(ls, n, ino))
           /\ \A exact \in BOOLEAN : /\ Tells(Told(ls, n, ino), Told(ls, n, ino), exact)
                                     /\ Tells({}, Told(ls, 0, ino), exact)
<1> DEFINE xs == SubSeq(ls, 1, n)
<1>1. xs \in Seq(Kinds) /\ Told(ls, n, ino) = Parse(xs, 1, 0, ino)
  BY CutBegins DEF Told
<1> HIDE DEF xs
<1>2. Told(ls, n, ino) \in SUBSET Row /\ Numbered(Told(ls, n, ino)) /\ Ascending(Told(ls, n, ino))
  <2>1. Parse(xs, 1, 0, ino) \in SUBSET Row /\ Numbered(Parse(xs, 1, 0, ino))
    BY <1>1, ParseNumbers
  <2>2. Ascending(Parse(xs, 1, 0, ino))
    BY <1>1, ParseAscends
  <2> QED  BY <1>1, <2>1, <2>2
<1>3. Told(ls, 0, ino) = {}
  BY AllTold
<1>4. \A exact \in BOOLEAN : Tells({}, Told(ls, 0, ino), exact)
  BY <1>3 DEF Tells, Ascending
<1> QED  BY <1>2, <1>4 DEF Tells

LEMMA TellsSome ==
    ASSUME NEW msgs, NEW told, NEW exact, Tells(msgs, told, exact)
    PROVE  msgs = {} <=> told = {}
BY DEF Tells, Cores

(* Who has spoken is told of.                                              *)
LEMMA SpokenIsTold ==
    ASSUME NEW ls \in Seq(Kinds), NEW n \in 0..Len(ls), NEW ino \in Nat, Speaks(ls, n)
    PROVE  Told(ls, n, ino) # {} /\ n > 0 /\ \E m \in Told(ls, n, ino) : ls[m.at] = "user"
<1> DEFINE xs == SubSeq(ls, 1, n)
<1>1. Len(ls) \in Nat
  BY LenProperties
<1>2. xs \in Seq(Kinds) /\ Len(xs) = n /\ Begins(xs, ls)
  BY CutBegins
<1>3. PICK i \in 1..n : ls[i] = "user"
  BY DEF Speaks
<1> HIDE DEF xs
<1>4. xs[i] = "user"
  BY <1>2, <1>3 DEF Begins
<1>5. i \in Starts(xs, 1)
  BY <1>1, <1>2, <1>4 DEF Starts, Entries, Merged
<1>6. Message(xs, 1, i, 0, ino) \in Parse(xs, 1, 0, ino)
  BY <1>4, <1>5 DEF Parse
<1>7. Message(xs, 1, i, 0, ino).at = i
  BY DEF Message
<1> QED  BY <1>1, <1>3, <1>6, <1>7 DEF Told, xs

LEMMA HasOrdinal ==
    ASSUME rows \in SUBSET Row, Numbered(rows)
    PROVE  MaxOrdinal >= 0 <=> rows # {}
<1>1. CASE rows = {}
  BY <1>1 DEF MaxOrdinal
<1>2. CASE rows # {}
  <2> DEFINE S == {r.ord : r \in rows}
  <2>1. PICK b \in Nat : \A r \in rows : r.ord <= b
    BY DEF Numbered, Bounded
  <2>2. S \in SUBSET Nat /\ S # {} /\ \A x \in S : x <= b
    BY <1>2, <2>1 DEF Row
  <2>3. MaxOrdinal = Largest(S)
    BY <1>2 DEF MaxOrdinal
  <2>4. Largest(S) \in S
    <3> HIDE DEF S
    <3> QED  BY <2>2, LargestExists
  <2> QED  BY <1>2, <2>2, <2>3, <2>4
<1> QED  BY <1>1, <1>2

(* A file written in pieces needs no full parse once it is stored.         *)
LEMMA PiecesAreIncremental ==
    ASSUME FollowInv, InPieces(world), job.step = "incRead"
    PROVE  ~NeedsFullParse(Held + 1)
<1> USE Opened
<1> DEFINE a == Held + 1
<1>1. sess.stored /\ sess.version = "current" /\ Held <= Len(lines) /\ Unbroken(lines, Held)
  BY DEF FollowInv, Incremental, Record
<1>2. Cores(rows) = Cores(Told(lines, Held, inode))
  BY <1>1 DEF FollowInv, Messages, Agree, Tells
<1>3. Entries(lines, a) \subseteq a..Len(lines) /\ \A i \in Entries(lines, a) : lines[i] # "chunk"
  BY <1>1 DEF Entries, Unbroken
<1>4. ASSUME NEW i \in Entries(lines, a), lines[i] = "asst",
             LastClaudeMessageID = {<<inode, Message(lines, a, i, 0, inode).reply>>}
      PROVE  FALSE
  <2> DEFINE replies == {r \in rows : r.reply # {}}
             top == {r \in replies : \A q \in replies : q.ord <= r.ord}
             mine == Message(lines, a, i, 0, inode).reply
  <2>1. i \in 1..Len(lines) /\ Held < i
    BY <1>3
  <2>2. i \in mine
    <3>1. mine = LastBefore({j \in 1..Len(lines) : lines[j] = "asst"}, i)
      BY <1>4 DEF Message
    <3> QED  BY <1>4, <2>1, <3>1 DEF LastBefore
  <2>3. LastClaudeMessageID = {<<r.ino, r.reply>> : r \in top}
    BY DEF LastClaudeMessageID
  <2> HIDE DEF mine
  <2>4. PICK r \in top : <<r.ino, r.reply>> = <<inode, mine>>
    <3> HIDE DEF top
    <3> QED  BY <1>4, <2>3 DEF mine
  <2>5. i \in r.reply /\ r \in rows
    BY <2>2, <2>4
  <2> DEFINE xs == SubSeq(lines, 1, Held)
  <2>6. Len(xs) = Held
    BY <1>1, CutBegins
  <2>11. Told(lines, Held, inode) = Parse(xs, 1, 0, inode)
    BY DEF Told
  <2> HIDE DEF xs, top, replies
  <2>12. Core(r) \in Cores(Parse(xs, 1, 0, inode))
    BY <1>2, <2>5, <2>11 DEF Cores
  <2>7. PICK q \in Parse(xs, 1, 0, inode) : Core(q) = Core(r)
    BY <2>12 DEF Cores
  <2>8. PICK k \in Starts(xs, 1) : q = Message(xs, 1, k, 0, inode)
    BY <2>7 DEF Parse
  <2>9. q.reply \subseteq 1..Held
    BY <2>6, <2>8 DEF Message, LastBefore
  <2>10. r.reply \subseteq 1..Held
    BY <2>7, <2>9 DEF Core
  <2> QED  BY <2>1, <2>5, <2>10
<1> QED  BY <1>3, <1>4 DEF NeedsFullParse, Merged

-----------------------------------------------------------------------------
(* The steps of a pass.                                                    *)

LEMMA processFileFollows == ASSUME FollowInv, Stamped, processFile PROVE FollowInv'
<1> USE Opened
<1>1. UNCHANGED <<lines, half, inode, sess, rows, world>> /\ IInv'
  BY PassStep DEF processFile, fileVars, dbVars, Pass, FollowInv
<1>2. job.step = "idle" /\ job' \in JobType /\ job'.inode = inode
      /\ job'.step = IF CanIncrement THEN "incRead" ELSE "fullStat"
  BY <1>1, Facts DEF processFile, NoJob, IInv, TypeOK, JobType
<1>3. Agree
  BY <1>2 DEF FollowInv, Messages
<1>4. (half = "none" => Size = 2 * Len(lines)) /\ (half # "none" => Size = 2 * Len(lines) + 1)
  BY DEF Size
<1>11. ~Grows => Paired(world)
  BY DEF Grows, Paired
<1>5. ASSUME CanIncrement
      PROVE  Grows /\ sess.stored /\ sess.version = "current" /\ rows # {}
  <2>1. sess.stored /\ sess.version = "current" /\ sess.size < Size /\ rows # {}
    BY <1>5, SizeType, HasOrdinal DEF CanIncrement, SessType, FollowInv
  <2>2. sess.size = 2 * Held /\ (~Grows => Held = Len(lines))
    BY <2>1 DEF FollowInv, Record
  <2>3. ~Grows => half = "none"
    BY DEF FollowInv, Transcript, InPieces, Grows
  <2> QED  BY <1>4, <2>1, <2>2, <2>3
<1>6. ASSUME ~CanIncrement
      PROVE  half = "none" /\ (rows = {} \/ sess.version = "stale" \/ (Held = Len(lines) /\ Paired(world)))
  <2>1. CASE ~sess.stored
    BY <2>1 DEF FollowInv, Record, Transcript
  <2>2. CASE sess.stored
    <3>1. /\ sess.inode = inode /\ sess.size = 2 * Held /\ Held <= Len(lines)
          /\ ~Grows => Held = Len(lines) /\ sess.version \in {"none", "stale", "current"}
          /\ Grows => Speaks(lines, Held) /\ sess.preview
          /\ InPieces(world) => Unbroken(lines, Held) /\ sess.version # "stale"
          /\ ~(sess.version = "none" /\ Grows)
      BY <1>2, <2>2 DEF FollowInv, Record, SessType
    <3>2. ~Grows \/ sess.size = 0 \/ sess.version # "current" \/ Size <= sess.size \/ rows = {}
      BY <1>6, <2>2, <3>1, SizeType, HasOrdinal DEF CanIncrement, FollowInv
    <3>3. Grows /\ sess.version # "none" => rows # {} /\ Held > 0
      <4> SUFFICES ASSUME Grows, sess.version # "none" PROVE rows # {} /\ Held > 0
        OBVIOUS
      <4>1. Tells(rows, Told(lines, Held, inode), Paired(world))
        BY <1>3 DEF Agree
      <4>2. Told(lines, Held, inode) # {} /\ Held > 0
        BY <3>1, SpokenIsTold
      <4> QED  BY <4>1, <4>2, TellsSome
    <3>4. ASSUME half # "none" PROVE FALSE
      <4>1. InPieces(world) /\ Grows
        BY <3>4 DEF FollowInv, Transcript, InPieces, Grows
      <4>2. sess.version = "current"
        BY <3>1, <4>1 DEF SessType
      <4> QED  BY <1>4, <3>1, <3>2, <3>3, <3>4, <4>1, <4>2
    <3>5. CASE ~Grows
      BY <1>11, <3>1, <3>4, <3>5
    <3>6. CASE Grows /\ sess.version # "current"
      BY <3>1, <3>4, <3>6 DEF SessType
    <3>7. CASE Grows /\ sess.version = "current"
      <4>1. Size <= sess.size /\ Size = 2 * Len(lines)
        BY <1>4, <3>1, <3>2, <3>3, <3>4, <3>7
      <4>2. Held = Len(lines) /\ sess.size = Size
        BY <3>1, <4>1
      <4>3. ASSUME ~Paired(world) PROVE FALSE
        <5>1. sess.mtime = mtime
          BY <2>2, <4>2, <4>3 DEF Stamped
        <5>2. shouldSkipFile
          BY <2>2, <3>7, <4>2, <5>1 DEF shouldSkipFile
        <5> QED  BY <5>2 DEF processFile
      <4> QED  BY <3>4, <4>2, <4>3
    <3> QED  BY <3>5, <3>6, <3>7
  <2> QED  BY <2>1, <2>2
<1>7. Record'
  <2>1. ~sess.stored => job'.step = "fullStat"
    BY <1>2, <1>5
  <2> QED  BY <1>1, <1>2, <2>1 DEF FollowInv, Record, Held, Grows
<1>8. Messages'
  BY <1>1, <1>2, <1>3 DEF Messages, Agree, Held
<1>9. Incremental'
  BY <1>1, <1>2, <1>5 DEF Incremental, Grows
<1>10. Parsing'
  BY <1>1, <1>2, <1>6 DEF Parsing, Held
<1> QED  BY <1>1, <1>7, <1>8, <1>9, <1>10, EngineFollows DEF FollowInv, Spent

LEMMA EndPassFollows ==
    ASSUME FollowInv, IInv', UNCHANGED <<lines, half, inode>>, Spent,
           sess.stored => sess'.stored, job' = NoJob, Record', Agree'
    PROVE  FollowInv'
<1>1. job'.step = "idle"
  BY DEF NoJob
<1>2. Messages' /\ Incremental' /\ Parsing'
  BY <1>1 DEF Messages, Incremental, Parsing, Agree
<1> QED  BY <1>2, EngineFollows

LEMMA incReadFollows == ASSUME FollowInv, incRead PROVE FollowInv'
<1> USE Opened
<1>1. UNCHANGED <<lines, half, inode, sess, rows, world>> /\ IInv'
  BY PassStep DEF incRead, ReadAppended, fileVars, dbVars, Pass, FollowInv
<1>2. /\ job.step = "incRead" /\ Grows /\ sess.stored /\ sess.version = "current" /\ rows # {}
      /\ job.inode = inode
  BY DEF incRead, ReadAppended, FollowInv, Incremental, Parsing
<1>3. /\ sess.inode = inode /\ sess.size = 2 * Held /\ Held <= Len(lines)
      /\ sess.count = Cardinality(rows) /\ Agree
      /\ Tells(rows, Told(lines, Held, inode), Paired(world))
  BY <1>2 DEF FollowInv, Record, Messages, Agree
<1>4. FirstUnread = Held + 1
  BY <1>3, HalfOf DEF FirstUnread
<1>5. CASE NeedsFullParse(FirstUnread)
  <2>1. job' = [job EXCEPT !.step = "fullStat", !.force = TRUE]
    BY <1>5 DEF incRead, ReadAppended
  <2>2. job'.step = "fullStat" /\ job'.force /\ job'.inode = inode
    BY <1>2, <2>1 DEF JobType
  <2>3. half = "none"
    BY <1>2, <1>4, <1>5, PiecesAreIncremental DEF FollowInv, Transcript
  <2>4. Record' /\ Messages' /\ Incremental' /\ Parsing'
    <3>1. Record'
      BY <1>1, <1>2, <2>2 DEF FollowInv, Record, Held, Grows
    <3>2. Messages'
      BY <1>1, <1>3, <2>2 DEF Messages, Agree, Held
    <3> QED  BY <1>1, <2>2, <2>3, <3>1, <3>2 DEF Incremental, Parsing
  <2> QED  BY <1>1, <2>4, EngineFollows DEF FollowInv, Spent
<1>6. CASE ~NeedsFullParse(FirstUnread) /\ FirstUnread > Len(lines)
  <2>1. job' = NoJob
    BY <1>6 DEF incRead, ReadAppended, EndPass
  <2>2. Record'
    BY <1>1, <1>2, <2>1 DEF FollowInv, Record, Held, Grows, NoJob
  <2>3. Agree'
    BY <1>1, <1>3 DEF Agree, Held
  <2> QED  BY <1>1, <2>1, <2>2, <2>3, EndPassFollows DEF FollowInv, Spent
<1>7. CASE ~NeedsFullParse(FirstUnread) /\ ~(FirstUnread > Len(lines))
  <2> DEFINE new == Parse(lines, FirstUnread, MaxOrdinal + 1, inode)
             xs == SubSeq(lines, 1, Held)
  <2>1. job' = [job EXCEPT !.step = "incMessages", !.size = 2 * Len(lines), !.msgs = new]
    BY <1>7 DEF incRead, ReadAppended
  <2>2. xs \in Seq(Kinds) /\ Len(xs) = Held /\ Begins(xs, lines)
    BY <1>3, CutBegins
  <2>3. WellFormed(lines) /\ (Paired(world) => \A i \in 1..Len(lines) : lines[i] # "result")
    BY <1>2 DEF FollowInv, Transcript
  <2>4. Tells(rows, Parse(xs, 1, 0, inode), Paired(world))
    BY <1>3 DEF Told
  <2> HIDE DEF xs
  <2>5. /\ Tells(rows \cup new, Parse(lines, 1, 0, inode), Paired(world))
        /\ \A r \in rows, m \in new : r.ord < m.ord
    <3>1. /\ Cores(rows \cup new) = Cores(Parse(lines, 1, 0, inode))
          /\ Ascending(rows \cup new)
          /\ \A r \in rows, m \in new : r.ord < m.ord
      BY <1>2, <1>4, <1>7, <2>2, <2>3, <2>4, LooseExtension DEF Tells
    <3>2. Paired(world) => rows \cup new = Parse(lines, 1, 0, inode)
      BY <1>2, <1>4, <1>7, <2>2, <2>3, <2>4, Extension DEF Tells
    <3> QED  BY <3>1, <3>2 DEF Tells
  <2>6. Parse(lines, 1, 0, inode) = Told(lines, Len(lines), inode)
    BY AllTold
  <2>7. new \in SUBSET Row /\ Numbered(new)
    <3>1. FirstUnread \in Nat \ {0} /\ MaxOrdinal + 1 \in Nat
      BY <1>4, NextOrdinal
    <3> QED  BY <3>1, ParseNumbers
  <2> HIDE DEF new
  <2>8. /\ job'.step = "incMessages" /\ job'.size = 2 * Len(lines) /\ job'.msgs = new
        /\ job'.inode = inode /\ Read' = Len(lines)
    BY <1>2, <2>1, HalfOf DEF JobType, Read
  <2>9. sess.count + Cardinality(new) = Cardinality(rows \cup new)
    <3>1. IsFiniteSet(rows) /\ IsFiniteSet(new)
      BY <2>7, NumberedIsFinite
    <3>2. \A r \in rows, m \in new : r # m
      BY <2>5, <2>7 DEF Row
    <3>3. rows \cap new = {}
      BY <3>2
    <3>4. Cardinality(rows \cup new) = Cardinality(rows) + Cardinality(new) - Cardinality(rows \cap new)
      BY <3>1, FS_Union
    <3>5. Cardinality(rows \cap new) = 0
      BY <3>3, FS_EmptySet
    <3>6. Cardinality(rows) \in Nat /\ Cardinality(new) \in Nat
      BY <3>1, FS_CardinalityType
    <3> QED  BY <1>3, <3>4, <3>5, <3>6
  <2>10. Record'
    BY <1>1, <1>2, <2>8 DEF FollowInv, Record, Held, Grows
  <2>11. Messages'
    BY <1>1, <1>3, <2>8 DEF Messages, Agree, Held
  <2>12. Incremental'
    <3>1. Unbroken(lines, Len(lines))
      BY DEF Unbroken
    <3> QED  BY <1>1, <1>2, <1>3, <2>5, <2>6, <2>8, <2>9, <3>1 DEF Incremental, Grows, Read, Held
  <2>13. Parsing'
    BY <1>1, <2>8 DEF Parsing
  <2> QED  BY <1>1, <2>10, <2>11, <2>12, <2>13, EngineFollows DEF FollowInv, Spent
<1> QED  BY <1>5, <1>6, <1>7

LEMMA incMessagesFollows == ASSUME FollowInv, incMessages PROVE FollowInv'
<1> USE Opened
<1>1. UNCHANGED <<lines, half, inode, sess, world>> /\ IInv'
  BY PassStep DEF incMessages, fileVars, skipVars, Pass, FollowInv
<1>2. job.step = "incMessages" /\ rows' = Appended(job.msgs)
      /\ job'.step = "incUpdate" /\ job'.size = job.size /\ job'.msgs = job.msgs /\ job'.inode = job.inode
  BY DEF incMessages, JobType
<1>3. /\ rows' = rows \cup job.msgs
      /\ Tells(rows', Told(lines, Read, inode), Paired(world))
      /\ sess.count + Cardinality(job.msgs) = Cardinality(rows')
  <2>1. /\ Tells(rows \cup job.msgs, Told(lines, Read, inode), Paired(world))
        /\ \A r \in rows, m \in job.msgs : r.ord < m.ord
        /\ sess.count + Cardinality(job.msgs) = Cardinality(rows \cup job.msgs)
    BY <1>2 DEF FollowInv, Incremental
  <2>2. rows' = rows \cup job.msgs
    BY <1>2, <2>1 DEF Appended
  <2> QED  BY <2>1, <2>2
<1>4. Grows /\ sess.stored /\ job.inode = inode
  BY <1>2 DEF FollowInv, Incremental, Parsing
<1>5. Record'
  BY <1>1, <1>2, <1>4 DEF FollowInv, Record, Held, Grows
<1>6. Messages'
  BY <1>1, <1>2, <1>4 DEF Messages, Grows
<1>7. Incremental'
  BY <1>1, <1>2, <1>3 DEF FollowInv, Incremental, Grows, Read, Held
<1>8. Parsing'
  BY <1>1, <1>2, <1>4 DEF Parsing
<1> QED  BY <1>1, <1>5, <1>6, <1>7, <1>8, EngineFollows DEF FollowInv, Spent

LEMMA UpdateFollows == ASSUME FollowInv, UpdateSessionIncremental PROVE FollowInv'
<1> USE Opened
<1>1. UNCHANGED <<lines, half, inode, rows, world>> /\ IInv' /\ job' = NoJob
  BY PassStep DEF UpdateSessionIncremental, AdvanceSession, EndPass, fileVars, Pass, FollowInv
<1>2. /\ job.step = "incUpdate" /\ Grows /\ sess.stored /\ sess.version = "current"
      /\ job.size = 2 * Read /\ Held <= Read /\ Read <= Len(lines)
      /\ InPieces(world) => Unbroken(lines, Read)
      /\ sess.count + Cardinality(job.msgs) = Cardinality(rows)
      /\ Tells(rows, Told(lines, Read, inode), Paired(world))
  BY DEF UpdateSessionIncremental, AdvanceSession, FollowInv, Incremental
<1>3. /\ sess'.stored /\ sess'.size = job.size /\ sess'.inode = sess.inode /\ sess'.version = sess.version
      /\ sess'.count = sess.count + Cardinality(job.msgs) /\ sess'.preview = sess.preview
  BY <1>2 DEF UpdateSessionIncremental, AdvanceSession, SessType
<1>4. Held' = Read
  BY <1>3 DEF Held, Read
<1>5. Speaks(lines, Read) /\ sess.preview
  BY <1>2 DEF FollowInv, Record, Speaks
<1>6. Record'
  BY <1>1, <1>2, <1>3, <1>4, <1>5 DEF FollowInv, Record, Grows
<1>7. Agree'
  <2>1. sess'.count = Cardinality(rows)
    BY <1>2, <1>3
  <2> HIDE DEF Held, Read
  <2> QED  BY <1>1, <1>2, <1>4, <2>1 DEF Agree
<1> QED  BY <1>1, <1>3, <1>6, <1>7, EndPassFollows DEF FollowInv, Spent

LEMMA fullStatFollows == ASSUME FollowInv, fullStat PROVE FollowInv'
<1> USE Opened
<1>1. UNCHANGED <<lines, half, inode, sess, rows, world>> /\ IInv'
  BY PassStep DEF fullStat, fileVars, dbVars, Pass, FollowInv
<1>2. /\ job.step = "fullStat" /\ job'.step = "fullRead" /\ job'.size = Size
      /\ job'.inode = job.inode /\ job'.force = job.force
  BY DEF fullStat, JobType
<1>3. half = "none" /\ (rows = {} \/ job.force \/ sess.version = "stale" \/ (Held = Len(lines) /\ Paired(world))) /\ job.inode = inode
  BY <1>2 DEF FollowInv, Parsing
<1>4. Size = 2 * Len(lines)
  BY <1>3 DEF Size
<1>5. Record'
  BY <1>1, <1>2 DEF FollowInv, Record, Held, Grows
<1>6. Messages'
  BY <1>1, <1>2 DEF FollowInv, Messages, Agree, Held
<1>7. Incremental' /\ Parsing'
  BY <1>1, <1>2, <1>3, <1>4 DEF Incremental, Parsing, Held
<1> QED  BY <1>1, <1>5, <1>6, <1>7, EngineFollows DEF FollowInv, Spent

LEMMA fullReadFollows == ASSUME FollowInv, fullRead PROVE FollowInv'
<1> USE Opened
<1>1. UNCHANGED <<lines, half, inode, sess, rows, world>> /\ IInv'
  BY PassStep DEF fullRead, fileVars, dbVars, Pass, FollowInv
<1>2. /\ job.step = "fullRead" /\ job'.step = "upsert" /\ job'.size = job.size
      /\ job'.inode = job.inode /\ job'.force = job.force /\ job'.msgs = Parse(lines, 1, 0, inode)
  BY DEF fullRead, JobType
<1>3. /\ rows = {} \/ job.force \/ sess.version = "stale" \/ (Held = Len(lines) /\ Paired(world))
      /\ job.inode = inode /\ job.size = 2 * Len(lines)
  BY <1>2 DEF FollowInv, Parsing
<1>4. Read' = Len(lines)
  BY <1>2, <1>3, HalfOf DEF Read
<1>5. Held <= Len(lines)
  BY DEF FollowInv, Record, NoSession, Held
<1>6. (Grows => Speaks(lines, Len(lines))) /\ Unbroken(lines, Len(lines))
  BY DEF FollowInv, Transcript, Unbroken
<1>7. job'.msgs = Told(lines, Len(lines), inode)
  BY <1>2, AllTold
<1>8. Record'
  BY <1>1, <1>2 DEF FollowInv, Record, Held, Grows
<1>9. Messages' /\ Incremental'
  BY <1>1, <1>2 DEF FollowInv, Messages, Agree, Held, Incremental
<1>10. Parsing'
  <2>1. Held' = Held
    BY <1>1 DEF Held
  <2> QED  BY <1>1, <1>2, <1>3, <1>4, <1>5, <1>6, <1>7, <2>1 DEF Parsing, Grows
<1> QED  BY <1>1, <1>8, <1>9, <1>10, EngineFollows DEF FollowInv, Spent

LEMMA UpsertFollows == ASSUME FollowInv, UpsertSession PROVE FollowInv'
<1> USE Opened
<1>1. UNCHANGED <<lines, half, inode, rows, world>> /\ IInv'
  BY PassStep DEF UpsertSession, WriteSession, fileVars, Pass, FollowInv
<1>2. /\ job.step = "upsert" /\ job'.step = "messages" /\ job'.msgs = job.msgs /\ job'.force = job.force
      /\ job'.inode = job.inode /\ job'.stale = (sess.version = "stale")
      /\ sess'.stored /\ sess'.size = job.size /\ sess'.inode = job.inode
      /\ sess'.count = Cardinality(job.msgs) /\ sess'.preview = (Previews(job.msgs) # {})
      /\ sess'.version = IF sess.stored THEN sess.version ELSE "none"
  BY DEF UpsertSession, WriteSession, JobType
<1>3. /\ job.inode = inode /\ job.size = 2 * Read /\ Held <= Read /\ Read <= Len(lines)
      /\ job.msgs = Told(lines, Read, inode)
      /\ ~Grows => Read = Len(lines)
      /\ Grows => Speaks(lines, Read)
      /\ InPieces(world) => Unbroken(lines, Read)
      /\ rows = {} \/ job.force \/ sess.version = "stale" \/ (Held = Read /\ Paired(world))
  BY <1>2 DEF FollowInv, Parsing
<1>4. Held' = Read
  BY <1>2 DEF Held, Read
<1>5. Agree /\ (~sess.stored => rows = {} /\ sess.version = "none")
  BY <1>2 DEF FollowInv, Messages, Record, NoSession
<1>6. InPieces(world) => sess.version # "stale"
  BY DEF FollowInv, Record
<1>13. Grows => sess'.preview
  <2>1. Grows => \E m \in job.msgs : lines[m.at] = "user"
    BY <1>3, SpokenIsTold
  <2> QED  BY <1>2, <2>1 DEF Previews
<1>7. Record'
  BY <1>1, <1>2, <1>3, <1>4, <1>6, <1>13 DEF Record, Grows
<1>14. rows # {} /\ Held = Read /\ Paired(world) => rows = Told(lines, Read, inode)
  BY <1>5 DEF Agree, Tells
<1>15. Paired(world) \in BOOLEAN /\ Read \in 0..Len(lines)
  BY <1>3 DEF Paired
<1>8. \E k \in 0..Read : Tells(rows, Told(lines, k, inode), Paired(world))
  <2>1. CASE rows = {}
    BY <1>15, <2>1, ToldTells
  <2>2. CASE rows # {}
    <3>1. Tells(rows, Told(lines, Held, inode), Paired(world)) /\ Held \in 0..Read
      BY <1>3, <1>5, <2>2 DEF Agree
    <3> QED  BY <3>1
  <2> QED  BY <2>1, <2>2
<1>9. job.force \/ sess.version = "stale" \/ rows = {} \/ rows = Told(lines, Read, inode)
  BY <1>3, <1>14
<1>10. ~Grows => Agree'
  <2> SUFFICES ASSUME ~Grows PROVE Agree'
    OBVIOUS
  <2>3. Paired(world)
    BY DEF Grows, Paired
  <2>1. CASE ~sess.stored
    <3>1. sess'.version = "none" /\ rows' = {}
      BY <1>1, <1>2, <1>5, <2>1
    <3> QED  BY <3>1 DEF Agree
  <2>2. CASE sess.stored
    <3>1. Held = Read /\ sess'.version = sess.version
      BY <1>2, <1>3, <2>2 DEF FollowInv, Record
    <3>2. rows = {} \/ rows = job.msgs
      BY <1>3, <1>14, <2>3, <3>1
    <3>3. sess.version # "none" => rows = job.msgs
      BY <1>3, <1>5, <2>3, <3>1 DEF Agree, Tells
    <3>4. Tells(job.msgs, Told(lines, Read, inode), Paired(world))
      BY <1>3, <1>15, ToldTells
    <3>5. rows' = {} \/ Tells(rows', Told(lines, Read, inode), Paired(world))
      BY <1>1, <3>2, <3>4
    <3>6. sess'.version # "none" =>
            Tells(rows', Told(lines, Read, inode), Paired(world)) /\ sess'.count = Cardinality(rows')
      BY <1>1, <1>2, <3>1, <3>3, <3>4
    <3> HIDE DEF Held, Read
    <3> QED  BY <1>1, <1>4, <3>5, <3>6 DEF Agree
  <2> QED  BY <2>1, <2>2
<1>11. Messages'
  <2> HIDE DEF Held, Read
  <2>1. job'.stale <=> sess.version = "stale"
    BY <1>2
  <2> QED  BY <1>1, <1>2, <1>3, <1>4, <1>8, <1>9, <1>10, <2>1 DEF Messages, Grows
<1>12. Incremental' /\ Parsing'
  BY <1>1, <1>2, <1>3 DEF Incremental, Parsing
<1> QED  BY <1>1, <1>2, <1>7, <1>11, <1>12, EngineFollows DEF FollowInv, Spent

LEMMA writeMessagesFollows == ASSUME FollowInv, writeMessages PROVE FollowInv'
<1> USE Opened
<1>1. UNCHANGED <<lines, half, inode, sess, world>> /\ IInv'
  BY PassStep DEF writeMessages, fileVars, skipVars, Pass, FollowInv
<1>2. /\ job.step = "messages" /\ job'.step = "version" /\ job'.inode = job.inode
      /\ rows' = IF job.force \/ job.stale THEN job.msgs ELSE Appended(job.msgs)
  BY DEF writeMessages, JobType
<1>3. /\ job.msgs = Told(lines, Held, inode) /\ job.inode = inode /\ sess.stored
      /\ sess.count = Cardinality(job.msgs) /\ Held \in 0..Len(lines)
      /\ job.force \/ job.stale \/ rows = {} \/ rows = Told(lines, Held, inode)
  BY <1>2 DEF FollowInv, Messages, Parsing, Record
<1>4. rows' = Told(lines, Held, inode)
  <2>1. CASE job.force \/ job.stale
    BY <1>2, <1>3, <2>1
  <2>2. CASE ~(job.force \/ job.stale)
    <3>1. rows' = rows \cup {m \in job.msgs : \A r \in rows : r.ord < m.ord}
      BY <1>2, <2>2 DEF Appended
    <3>2. CASE rows = {}
      BY <1>3, <3>1, <3>2
    <3>3. CASE rows = job.msgs
      <4>1. \A m \in job.msgs : ~(m.ord < m.ord)
        BY DEF Row
      <4> QED  BY <1>3, <3>1, <3>3, <4>1
    <3> QED  BY <1>3, <2>2, <3>2, <3>3
  <2> QED  BY <2>1, <2>2
<1>5. Record'
  BY <1>1, <1>2, <1>3 DEF FollowInv, Record, Held, Grows
<1>6. Messages'
  <2>1. Tells(rows', Told(lines, Held, inode), Paired(world)) /\ sess.count = Cardinality(rows')
    <3>1. Paired(world) \in BOOLEAN
      BY DEF Paired
    <3> QED  BY <1>3, <1>4, <3>1, ToldTells
  <2>2. Held' = Held
    BY <1>1 DEF Held
  <2> HIDE DEF Held
  <2> QED  BY <1>1, <1>2, <1>4, <2>1, <2>2 DEF Messages, Agree
<1>7. Incremental' /\ Parsing'
  BY <1>1, <1>2, <1>3 DEF Incremental, Parsing
<1> QED  BY <1>1, <1>5, <1>6, <1>7, EngineFollows DEF FollowInv, Spent

LEMMA SetVersionFollows == ASSUME FollowInv, SetSessionDataVersion PROVE FollowInv'
<1> USE Opened
<1>1. UNCHANGED <<lines, half, inode, rows, world>> /\ IInv' /\ job' = NoJob
  BY PassStep DEF SetSessionDataVersion, EndPass, fileVars, Pass, FollowInv
<1>2. /\ job.step = "version" /\ sess'.version = "current" /\ sess'.stored = sess.stored
      /\ sess'.size = sess.size /\ sess'.inode = sess.inode /\ sess'.count = sess.count
      /\ sess'.preview = sess.preview
  BY DEF SetSessionDataVersion, SessType
<1>3. /\ sess.stored /\ rows = Told(lines, Held, inode) /\ Held' = Held
      /\ sess.count = Cardinality(rows) /\ Held \in 0..Len(lines)
  BY <1>2 DEF FollowInv, Messages, Record, Held
<1>4. Record'
  BY <1>1, <1>2, <1>3 DEF FollowInv, Record, Grows
<1>5. Agree'
  <2>1. Paired(world) \in BOOLEAN
    BY DEF Paired
  <2>2. Tells(rows, Told(lines, Held, inode), Paired(world))
    BY <1>3, <2>1, ToldTells
  <2> HIDE DEF Held
  <2> QED  BY <1>1, <1>2, <1>3, <2>2 DEF Agree
<1> QED  BY <1>1, <1>2, <1>4, <1>5, EndPassFollows DEF FollowInv, Spent

-----------------------------------------------------------------------------
(* The agent.                                                              *)

(* One more line leaves every prefix as it was.                            *)
LEMMA LongerFile ==
    ASSUME NEW ls \in Seq(Kinds), NEW k \in Kinds
    PROVE  /\ Append(ls, k) \in Seq(Kinds) /\ Len(Append(ls, k)) = Len(ls) + 1
           /\ Append(ls, k)[Len(ls) + 1] = k
           /\ \A i \in 1..Len(ls) : Append(ls, k)[i] = ls[i]
           /\ Entries(Append(ls, k), 1) = Entries(ls, 1) \cup (IF k = "meta" THEN {} ELSE {Len(ls) + 1})
<1>1. Len(ls) \in Nat /\ Append(ls, k) \in Seq(Kinds) /\ Len(Append(ls, k)) = Len(ls) + 1
      /\ Append(ls, k)[Len(ls) + 1] = k
      /\ \A i \in 1..Len(ls) : Append(ls, k)[i] = ls[i]
  BY LenProperties, AppendProperties
<1> DEFINE l == Append(ls, k)
<1>2. l \in Seq(Kinds) /\ Len(l) = Len(ls) + 1 /\ l[Len(ls) + 1] = k /\ \A i \in 1..Len(ls) : l[i] = ls[i]
  BY <1>1
<1> HIDE DEF l
<1>3. Entries(l, 1) = Entries(ls, 1) \cup (IF k = "meta" THEN {} ELSE {Len(ls) + 1})
  BY <1>1, <1>2 DEF Entries
<1> QED  BY <1>1, <1>3 DEF l

LEMMA StaysWellFormed ==
    ASSUME NEW ls \in Seq(Kinds), WellFormed(ls), NEW k \in Kinds, k # "chunk" \/ MayFollow(ls, k)
    PROVE  WellFormed(Append(ls, k))
<1> DEFINE l == Append(ls, k)
<1>1. /\ Len(l) = Len(ls) + 1 /\ l[Len(ls) + 1] = k /\ Len(ls) \in Nat
      /\ \A i \in 1..Len(ls) : l[i] = ls[i]
      /\ Entries(l, 1) = Entries(ls, 1) \cup (IF k = "meta" THEN {} ELSE {Len(ls) + 1})
  BY LongerFile, LenProperties
<1> HIDE DEF l
<1>2. Entries(ls, 1) \subseteq 1..Len(ls)
  BY DEF Entries
<1>3. ASSUME NEW i \in Entries(ls, 1), l[i] = "chunk"
      PROVE  \E j \in Entries(l, 1) : /\ j < i /\ l[j] \in {"asst", "chunk"}
                                      /\ \A x \in Entries(l, 1) : x < i => x <= j
  <2>1. ls[i] = "chunk"
    BY <1>1, <1>2, <1>3
  <2>2. PICK j \in Entries(ls, 1) : /\ j < i /\ ls[j] \in {"asst", "chunk"}
                                    /\ \A x \in Entries(ls, 1) : x < i => x <= j
    BY <2>1 DEF WellFormed
  <2>3. j \in Entries(l, 1) /\ l[j] \in {"asst", "chunk"}
    BY <1>1, <1>2, <2>2
  <2>4. \A x \in Entries(l, 1) : x < i => x <= j
    BY <1>1, <1>2, <2>2
  <2> QED  BY <2>2, <2>3, <2>4
<1>4. ASSUME k = "chunk"
      PROVE  \E j \in Entries(l, 1) : /\ j < Len(ls) + 1 /\ l[j] \in {"asst", "chunk"}
                                      /\ \A x \in Entries(l, 1) : x < Len(ls) + 1 => x <= j
  <2>1. Entries(ls, 1) # {} /\ ls[Largest(Entries(ls, 1))] \in {"asst", "chunk"}
    BY <1>4 DEF MayFollow
  <2> DEFINE j == Largest(Entries(ls, 1))
  <2>2. Entries(ls, 1) \in SUBSET Nat /\ \A x \in Entries(ls, 1) : x <= Len(ls)
    BY <1>1, <1>2
  <2>3. j \in Entries(ls, 1) /\ \A m \in Entries(ls, 1) : m <= j
    BY <1>1, <2>1, <2>2, LargestExists
  <2> HIDE DEF j
  <2>4. j \in Entries(l, 1) /\ j < Len(ls) + 1 /\ l[j] = ls[j]
    BY <1>1, <1>2, <2>3
  <2>5. \A x \in Entries(l, 1) : x < Len(ls) + 1 => x <= j
    BY <1>1, <1>2, <2>3
  <2> QED  BY <2>1, <2>4, <2>5 DEF j
<1>5. WellFormed(l)
  BY <1>1, <1>3, <1>4 DEF WellFormed
<1> QED  BY <1>5 DEF l

(* The file grows by a line while no full parse measures or reads it.      *)
LEMMA GrowthFollows ==
    ASSUME FollowInv, IInv', NEW k \in world.kinds, lines' = Append(lines, k),
           k # "chunk" \/ MayFollow(lines, k), job.step \in world.grow,
           UNCHANGED <<inode, sess, rows, job, world>>, half' = half \/ half' = "none"
    PROVE  FollowInv'
<1> USE Opened
<1>1. k \in Kinds /\ (Paired(world) => k # "result") /\ Grows /\ job.step \notin {"fullStat", "fullRead"}
      /\ (InPieces(world) => k # "chunk")
  BY DEF FollowInv, Gentle, Follows, Paired, Grows
<1>2. /\ Len(lines') = Len(lines) + 1 /\ lines'[Len(lines) + 1] = k
      /\ \A i \in 1..Len(lines) : lines'[i] = lines[i]
  BY <1>1, LongerFile
<1>3. \A n \in 0..Len(lines) : Told(lines', n, inode) = Told(lines, n, inode)
  BY <1>1, CutOfLonger
<1>4. \A n \in 0..Len(lines) : Speaks(lines, n) => Speaks(lines', n)
  BY <1>2 DEF Speaks
<1>5. \A n \in 0..Len(lines) : InPieces(world) /\ Unbroken(lines, n) => Unbroken(lines', n)
  <2> SUFFICES ASSUME NEW n \in 0..Len(lines), InPieces(world), Unbroken(lines, n),
                      NEW i \in (n + 1)..Len(lines')
               PROVE  lines'[i] # "chunk"
    BY DEF Unbroken
  <2>1. CASE i = Len(lines) + 1
    BY <1>1, <1>2, <2>1
  <2>2. CASE i # Len(lines) + 1
    BY <1>2, <2>2 DEF Unbroken
  <2> QED  BY <2>1, <2>2
<1>6. Held' = Held /\ Read' = Read /\ Held <= Len(lines)
  BY DEF Held, Read, FollowInv, Record, NoSession
<1>7. Transcript'
  <2>1. WellFormed(lines')
    BY <1>1, StaysWellFormed DEF FollowInv, Transcript
  <2>2. Paired(world) => \A i \in 1..Len(lines') : lines'[i] # "result"
    <3> SUFFICES ASSUME Paired(world), NEW i \in 1..Len(lines') PROVE lines'[i] # "result"
      OBVIOUS
    <3>1. CASE i = Len(lines) + 1
      BY <1>1, <1>2, <3>1
    <3>2. CASE i # Len(lines) + 1
      BY <1>1, <1>2, <3>2 DEF FollowInv, Transcript
    <3> QED  BY <3>1, <3>2
  <2>3. Speaks(lines', Len(lines'))
    <3>1. Speaks(lines, Len(lines)) => Speaks(lines', Len(lines'))
      BY <1>2 DEF Speaks
    <3> QED  BY <1>1, <3>1 DEF FollowInv, Transcript
  <2> QED  BY <1>1, <2>1, <2>2, <2>3 DEF FollowInv, Transcript
<1>8. Record'
  <2>1. Held \in 0..Len(lines)
    BY <1>6
  <2>2. /\ Told(lines', Held, inode) = Told(lines, Held, inode)
        /\ Speaks(lines, Held) => Speaks(lines', Held)
        /\ InPieces(world) /\ Unbroken(lines, Held) => Unbroken(lines', Held)
    BY <1>3, <1>4, <1>5, <2>1
  <2>3. Record
    BY DEF FollowInv
  <2> QED  BY <1>1, <1>2, <1>6, <2>2, <2>3 DEF Record, Grows
<1>9. Messages'
  <2>1. Held \in 0..Len(lines)
    BY <1>6
  <2>2. Agree => Agree'
    BY <1>3, <1>6, <2>1 DEF Agree
  <2>3. (\E n \in 0..Held : Tells(rows, Told(lines, n, inode), Paired(world)))
        => \E n \in 0..Held : Tells(rows, Told(lines', n, inode), Paired(world))
    BY <1>3, <1>6
  <2>4. Told(lines', Held, inode) = Told(lines, Held, inode)
    BY <1>3, <2>1
  <2> QED  BY <1>6, <2>2, <2>3, <2>4 DEF FollowInv, Messages, Grows
<1>10. Incremental'
  <2>1. ASSUME job.step \in {"incMessages", "incUpdate"}
        PROVE  Read \in 0..Len(lines) /\ Told(lines', Read, inode) = Told(lines, Read, inode)
               /\ (InPieces(world) => Unbroken(lines', Read))
    <3>1. Read \in 0..Len(lines) /\ (InPieces(world) => Unbroken(lines, Read))
      BY <2>1 DEF FollowInv, Incremental
    <3> QED  BY <1>3, <1>5, <3>1
  <2>2. Incremental
    BY DEF FollowInv
  <2> QED  BY <1>2, <1>6, <2>1, <2>2 DEF Incremental, Grows
<1>11. Parsing'
  <2>1. ASSUME job.step = "upsert"
        PROVE  Read \in 0..Len(lines) /\ Told(lines', Read, inode) = Told(lines, Read, inode)
               /\ Speaks(lines', Read) /\ (InPieces(world) => Unbroken(lines', Read))
    <3>1. Read \in 0..Len(lines) /\ Speaks(lines, Read) /\ (InPieces(world) => Unbroken(lines, Read))
      BY <1>1, <2>1 DEF FollowInv, Parsing
    <3> QED  BY <1>3, <1>4, <1>5, <3>1
  <2>2. Parsing
    BY DEF FollowInv
  <2> QED  BY <1>1, <1>2, <1>6, <2>1, <2>2 DEF Parsing, Grows
<1>12. Gentle'
  BY DEF FollowInv, Gentle
<1> QED  BY <1>7, <1>8, <1>9, <1>10, <1>11, <1>12 DEF FollowInv

LEMMA AgentFollows == ASSUME FollowInv, Agent PROVE FollowInv'
<1> USE Opened
<1>1. IInv'
  BY AgentStep DEF FollowInv
<1>2. ASSUME NEW k \in world.kinds, AppendLine(k) PROVE FollowInv'
  <2>1. MayFollow(lines, k) /\ lines' = Append(lines, k) /\ job.step \in world.grow
        /\ UNCHANGED <<inode, sess, rows, job, world, half>>
    BY <1>2 DEF AppendLine, dbVars
  <2> QED  BY <1>1, <2>1, GrowthFollows
<1>3. ASSUME NEW k \in world.kinds, AppendHalf(k) PROVE FollowInv'
  <2>1. world.partials # "never" /\ UNCHANGED <<lines, inode, sess, rows, job, world>> /\ half' = k
        /\ job.step \in world.grow
    BY <1>3 DEF AppendHalf, dbVars
  <2>2. sess.stored
    <3>1. world.partials \in {"never", "once stored", "always"}
      BY DEF World
    <3> QED  BY <1>3, <2>1, <3>1 DEF AppendHalf, FollowInv, Gentle
  <2>3. InPieces(world) /\ job.step \notin {"fullStat", "fullRead"}
    BY <2>1 DEF InPieces, FollowInv, Gentle
  <2>4. Transcript'
    BY <2>1, <2>2, <2>3 DEF FollowInv, Transcript, Grows
  <2>5. Record' /\ Messages' /\ Incremental' /\ Parsing'
    <3>1. Held' = Held /\ Read' = Read
      BY <2>1 DEF Held, Read
    <3>2. Record' /\ Messages'
      BY <2>1, <3>1 DEF FollowInv, Record, Messages, Agree, Grows
    <3>3. Incremental' /\ Parsing'
      BY <2>1, <2>3, <3>1 DEF FollowInv, Incremental, Parsing, Grows
    <3> QED  BY <3>2, <3>3
  <2>6. Gentle'
    BY <2>1 DEF FollowInv, Gentle
  <2> QED  BY <1>1, <2>4, <2>5, <2>6 DEF FollowInv
<1>4. ASSUME CompleteLine PROVE FollowInv'
  <2>1. half # "none" /\ lines' = Append(lines, half) /\ half' = "none" /\ job.step \in world.grow
        /\ UNCHANGED <<inode, sess, rows, job, world>>
    BY <1>4 DEF CompleteLine, dbVars
  <2>2. half \in world.kinds /\ half # "chunk"
    BY <2>1 DEF FollowInv, Transcript, Gentle, Follows
  <2> QED  BY <1>1, <2>1, <2>2, GrowthFollows
<1>5. ASSUME Touch PROVE FollowInv'
  <2>1. UNCHANGED <<lines, half, inode, sess, rows, job>> /\ Spend("touches")
    BY <1>5 DEF Touch, dbVars
  <2>6. Spent
    BY <2>1 DEF Spent
  <2>2. Paired(world') = Paired(world) /\ InPieces(world') = InPieces(world) /\ world'.kinds = world.kinds
    BY <2>6, WorldKeeps
  <2>3. Held' = Held /\ Read' = Read /\ Grows' = Grows
    BY <2>1, <2>2 DEF Held, Read, Grows
  <2>4. Record' /\ Messages'
    BY <2>1, <2>2, <2>3 DEF FollowInv, Record, Messages, Agree
  <2>5. Incremental' /\ Parsing'
    BY <2>1, <2>2, <2>3 DEF FollowInv, Incremental, Parsing
  <2> QED  BY <1>1, <2>1, <2>4, <2>5, <2>6, EngineFollows
<1>6. ASSUME NEW ls \in world.replacements, Replace(ls) PROVE FollowInv'
  BY DEF FollowInv, Gentle
<1> QED  BY <1>2, <1>3, <1>4, <1>5, <1>6 DEF Agent

-----------------------------------------------------------------------------
(* Failures.                                                               *)

LEMMA FailureFollows == ASSUME FollowInv, Failure \/ Upgrade PROVE FollowInv'
<1> USE Opened
<1>1. IInv' /\ UNCHANGED <<lines, half, inode, rows>>
  BY FailureStep DEF FollowInv, Failure, WriteFails, ParseFails, Crash, Upgrade, fileVars, dbVars
<1>5. Spent
  BY DEF Failure, WriteFails, ParseFails, Crash, Upgrade, Spent
<1>2. /\ Paired(world') = Paired(world) /\ InPieces(world') = InPieces(world)
      /\ world'.kinds = world.kinds
  BY <1>5, WorldKeeps
<1>3. ASSUME Failure PROVE FollowInv'
  <2>1. Grows => job.step \notin {"incUpdate", "messages", "version"}
    <3>1. job.step \in world.mishaps
      BY <1>3 DEF Failure, WriteFails, ParseFails, Crash
    <3> QED  BY <3>1 DEF FollowInv, Gentle, Follows, Grows
  <2>2. UNCHANGED sess /\ job' = NoJob
    BY <1>3 DEF Failure, WriteFails, ParseFails, Crash, EndPass, dbVars
  <2>3. Held' = Held /\ Grows' = Grows /\ job'.step = "idle"
    BY <1>2, <2>2 DEF Held, Grows, NoJob
  <2>4. Record'
    BY <1>1, <1>2, <2>1, <2>2, <2>3 DEF FollowInv, Record
  <2>6. Agree
    BY <2>1 DEF FollowInv, Messages
  <2>5. Agree'
    BY <1>1, <1>2, <2>2, <2>3, <2>6 DEF Agree
  <2> QED  BY <1>1, <1>5, <2>2, <2>4, <2>5, EndPassFollows
<1>4. ASSUME Upgrade PROVE FollowInv'
  <2>1. /\ job.step = "idle" /\ UNCHANGED job /\ sess.version = "current"
        /\ sess' = [sess EXCEPT !.version = "stale"] /\ "upgrade" \in world.mishaps
    BY <1>4 DEF Upgrade
  <2>2. ~InPieces(world)
    BY <2>1 DEF FollowInv, Gentle, Follows, InPieces
  <2>3. /\ sess'.stored = sess.stored /\ sess'.size = sess.size /\ sess'.inode = sess.inode
        /\ sess'.count = sess.count /\ sess'.version = "stale" /\ Held' = Held /\ sess.stored
        /\ sess'.preview = sess.preview
    BY <2>1 DEF SessType, Held, FollowInv, Record, NoSession
  <2>4. Record'
    BY <1>1, <1>2, <2>1, <2>2, <2>3 DEF FollowInv, Record, Grows
  <2>7. Agree /\ sess.count = Cardinality(rows) /\ Tells(rows, Told(lines, Held, inode), Paired(world))
    BY <2>1 DEF FollowInv, Messages, Agree
  <2>8. Agree'
    BY <1>1, <1>2, <2>3, <2>7 DEF Agree
  <2>5. Messages'
    BY <2>1, <2>8 DEF Messages
  <2>6. Incremental' /\ Parsing'
    BY <2>1 DEF Incremental, Parsing
  <2> QED  BY <1>1, <1>5, <2>3, <2>4, <2>5, <2>6, EngineFollows
<1> QED  BY <1>3, <1>4

-----------------------------------------------------------------------------
(* What was read is stored with the mtime it was read at.                  *)
LEMMA StampsFollow == ASSUME FollowInv, Stamped, Spent, Next PROVE Stamped'
<1> USE Opened
<1> SUFFICES ASSUME ~Paired(world) PROVE Stamped'
  BY WorldKeeps DEF Stamped
<1>1. Grows /\ "incRead" \notin world.grow /\ "touch" \notin world.mishaps
      /\ world.grow \cap {"fullStat", "fullRead"} = {} /\ world.replacements = {}
  BY DEF FollowInv, Gentle, Follows, Grows, Paired
<1>2. /\ sess.stored /\ sess.size = Size => sess.mtime = mtime
      /\ job.step = "incRead" => job.mtime = mtime
      /\ job.step \in {"fullRead", "incMessages", "incUpdate", "upsert"} /\ job.size = Size =>
            job.mtime = mtime
  BY DEF Stamped
<1>3. ASSUME job.step \in world.grow, UNCHANGED <<sess, job>>, Size' > Size PROVE Stamped'
  <2>1. Size \in Nat /\ 2 * Len(lines) <= Size
    BY SizeType DEF Size, FollowInv
  <2>2. sess.stored => sess.size <= Size
    BY <2>1 DEF FollowInv, Record
  <2>3. job.step \in {"incMessages", "incUpdate", "upsert"} => job.size <= Size
    BY <2>1 DEF FollowInv, Incremental, Parsing
  <2>4. job.step \notin {"incRead", "fullRead"}
    BY <1>1, <1>3
  <2>5. Size' \in Int /\ sess.size \in Nat /\ job.size \in Nat
    <3>1. Len(lines') \in Nat
      <4>1. IInv'
        BY AgentStep, PassStep, FailureStep DEF Next, FollowInv
      <4> QED  BY <4>1, LenProperties DEF IInv, TypeOK
    <3> QED  BY <3>1 DEF Size, SessType, JobType
  <2> HIDE DEF Size
  <2> QED  BY <1>3, <2>1, <2>2, <2>3, <2>4, <2>5 DEF Stamped
<1>4. CASE Agent
  <2>1. ASSUME NEW k \in world.kinds, AppendLine(k) PROVE Stamped'
    <3>1. k \in Kinds /\ half = "none" /\ UNCHANGED <<half, sess, job>> /\ lines' = Append(lines, k)
          /\ job.step \in world.grow
      BY <2>1 DEF AppendLine, dbVars
    <3>2. Len(lines') = Len(lines) + 1
      BY <3>1, AppendProperties
    <3>3. Size' > Size
      BY <3>1, <3>2 DEF Size
    <3> QED  BY <1>3, <3>1, <3>3
  <2>2. ASSUME NEW k \in world.kinds, AppendHalf(k) PROVE Stamped'
    <3>1. k \in Kinds /\ half = "none" /\ UNCHANGED <<lines, sess, job>> /\ half' = k
          /\ job.step \in world.grow
      BY <2>2 DEF AppendHalf, dbVars
    <3>2. half' # "none"
      BY <3>1 DEF Kinds
    <3>3. Size' > Size
      BY <3>1, <3>2 DEF Size
    <3> QED  BY <1>3, <3>1, <3>3
  <2>3. ASSUME CompleteLine PROVE Stamped'
    <3>1. half # "none" /\ UNCHANGED <<sess, job>> /\ lines' = Append(lines, half) /\ half' = "none"
          /\ job.step \in world.grow /\ half \in Kinds
      BY <2>3 DEF CompleteLine, dbVars
    <3>2. Len(lines') = Len(lines) + 1
      BY <3>1, AppendProperties
    <3>3. Size' > Size
      BY <3>1, <3>2 DEF Size
    <3> QED  BY <1>3, <3>1, <3>3
  <2>4. ~Touch /\ \A ls \in world.replacements : ~Replace(ls)
    BY <1>1 DEF Touch
  <2> QED  BY <1>4, <2>1, <2>2, <2>3, <2>4 DEF Agent
<1>5. CASE Pass \/ Failure \/ Upgrade
  <2>1. Size' = Size /\ mtime' = mtime
    BY <1>5 DEF Pass, processFile, incRead, ReadAppended, incMessages, UpdateSessionIncremental,
                AdvanceSession, fullStat, fullRead, UpsertSession, WriteSession, writeMessages,
                SetSessionDataVersion, Failure, WriteFails, ParseFails, Crash, Upgrade, fileVars, Size
  <2> HIDE DEF Size
  <2>2. CASE processFile
    BY <1>2, <2>1, <2>2 DEF processFile, NoJob, Stamped, dbVars
  <2>3. CASE incRead
    <3>1. UNCHANGED sess /\ job.mtime = mtime
      BY <1>2, <2>3 DEF incRead, ReadAppended, dbVars
    <3>2. job'.step \in {"fullStat", "idle"} \/ (job'.step = "incMessages" /\ job'.mtime = job.mtime)
      <4>1. CASE NeedsFullParse(FirstUnread)
        BY <2>3, <4>1 DEF incRead, ReadAppended, JobType
      <4>2. CASE ~NeedsFullParse(FirstUnread) /\ FirstUnread > Len(lines)
        BY <2>3, <4>2 DEF incRead, ReadAppended, EndPass, NoJob
      <4>3. CASE ~NeedsFullParse(FirstUnread) /\ ~(FirstUnread > Len(lines))
        <5>1. job' = [job EXCEPT !.step = "incMessages", !.size = 2 * Len(lines),
                        !.msgs = Parse(lines, FirstUnread, MaxOrdinal + 1, inode)]
          BY <2>3, <4>3 DEF incRead, ReadAppended
        <5> QED  BY <5>1 DEF JobType
      <4> QED  BY <4>1, <4>2, <4>3
    <3> QED  BY <1>2, <2>1, <3>1, <3>2 DEF Stamped
  <2>4. CASE incMessages
    BY <1>2, <2>1, <2>4 DEF incMessages, Stamped, JobType
  <2>5. CASE UpdateSessionIncremental
    <3>1. job.step = "incUpdate" /\ sess'.size = job.size /\ sess'.mtime = job.mtime /\ job' = NoJob
      BY <2>5 DEF UpdateSessionIncremental, AdvanceSession, EndPass, SessType
    <3> QED  BY <1>2, <2>1, <3>1 DEF Stamped, NoJob
  <2>6. CASE fullStat
    BY <1>2, <2>1, <2>6 DEF fullStat, Stamped, JobType, dbVars
  <2>7. CASE fullRead
    BY <1>2, <2>1, <2>7 DEF fullRead, Stamped, JobType, dbVars
  <2>8. CASE UpsertSession
    <3>1. /\ job.step = "upsert" /\ sess'.size = job.size /\ sess'.mtime = job.mtime
          /\ job'.step = "messages"
      BY <2>8 DEF UpsertSession, WriteSession, JobType
    <3> QED  BY <1>2, <2>1, <3>1 DEF Stamped
  <2>9. CASE writeMessages
    BY <1>2, <2>1, <2>9 DEF writeMessages, Stamped, JobType
  <2>10. CASE SetSessionDataVersion
    BY <1>2, <2>1, <2>10 DEF SetSessionDataVersion, EndPass, NoJob, Stamped, SessType
  <2>11. CASE Failure
    <3>1. UNCHANGED sess /\ job' = NoJob
      BY <2>11 DEF Failure, WriteFails, ParseFails, Crash, EndPass, dbVars
    <3> QED  BY <1>2, <2>1, <3>1 DEF Stamped, NoJob
  <2>12. CASE Upgrade
    BY <1>2, <2>1, <2>12 DEF Upgrade, Stamped, SessType
  <2> QED  BY <1>5, <2>2, <2>3, <2>4, <2>5, <2>6, <2>7, <2>8, <2>9, <2>10, <2>11, <2>12 DEF Pass
<1> QED  BY <1>4, <1>5 DEF Next

-----------------------------------------------------------------------------
Following == IInv /\ (Gentle => FollowInv /\ Stamped)

LEMMA FollowsAtFirst == Init => Following
<1> SUFFICES ASSUME Init PROVE Following
  OBVIOUS
<1>1. IInv
  BY Initially
<1>2. world \in World /\ world \in Worlds /\ lines \in world.files
  BY WorldsAssumption DEF Init
<1>3. ASSUME Gentle PROVE FollowInv /\ Stamped
  <2>1. half = "none" /\ sess = NoSession /\ rows = {} /\ job = NoJob
    BY DEF Init
  <2>2. WellFormed(lines)
    BY <1>2, WorldsAssumption
  <2>3. Grows /\ Paired(world) => \A i \in 1..Len(lines) : lines[i] # "result"
    BY <1>2 DEF Grows, Paired, Holds
  <2>4. Grows => Speaks(lines, Len(lines))
    BY <1>2, <1>3 DEF Gentle, Follows, Grows
  <2>5. Transcript
    BY <2>1, <2>2, <2>3, <2>4 DEF Transcript
  <2>6. Record /\ Messages /\ Incremental /\ Parsing /\ Stamped
    BY <2>1 DEF NoSession, NoJob, Record, Messages, Agree, Incremental, Parsing, Stamped
  <2> QED  BY <1>1, <1>3, <2>5, <2>6 DEF FollowInv
<1> QED  BY <1>1, <1>3 DEF Following

LEMMA WorldStays == [Next]_vars => Spent
<1> SUFFICES ASSUME [Next]_vars PROVE Spent
  OBVIOUS
<1>1. CASE Agent
  BY <1>1 DEF Agent, AppendLine, AppendHalf, CompleteLine, Touch, Replace, Spent
<1>2. CASE Pass
  BY <1>2 DEF Pass, processFile, incRead, ReadAppended, incMessages, UpdateSessionIncremental,
              AdvanceSession, fullStat, fullRead, UpsertSession, WriteSession, writeMessages,
              SetSessionDataVersion, Spent
<1>3. CASE Failure \/ Upgrade
  BY <1>3 DEF Failure, WriteFails, ParseFails, Crash, Upgrade, Spent
<1>4. CASE UNCHANGED vars
  BY <1>4 DEF vars, Spent
<1> QED  BY <1>1, <1>2, <1>3, <1>4 DEF Next

LEMMA FollowsOn == Following /\ [Next]_vars => Following'
<1> SUFFICES ASSUME Following, [Next]_vars PROVE Following'
  OBVIOUS
<1>1. IInv' /\ Spent
  BY AgentStep, PassStep, FailureStep, StutterStep, WorldStays DEF Following, Next
<1>2. Gentle' = Gentle
  BY <1>1, Facts, WorldKeeps DEF Following
<1>3. ASSUME Gentle PROVE FollowInv' /\ Stamped'
  <2>1. FollowInv /\ Stamped
    BY <1>3 DEF Following
  <2>2. CASE Pass
    <3>1. FollowInv'
      BY <2>1, <2>2, processFileFollows, incReadFollows, incMessagesFollows, UpdateFollows, fullStatFollows,
         fullReadFollows, UpsertFollows, writeMessagesFollows, SetVersionFollows DEF Pass
    <3> QED  BY <1>1, <2>1, <2>2, <3>1, StampsFollow DEF Next
  <2>3. CASE Agent \/ Failure \/ Upgrade
    <3>1. FollowInv'
      BY <2>1, <2>3, AgentFollows, FailureFollows
    <3> QED  BY <1>1, <2>1, <2>3, <3>1, StampsFollow DEF Next
  <2>4. CASE UNCHANGED vars
    <3>1. UNCHANGED <<lines, half, inode, mtime, sess, rows, job, world>>
      BY <2>4 DEF vars, fileVars, dbVars
    <3>2. Transcript' /\ Record' /\ Messages' /\ Incremental' /\ Parsing' /\ Gentle'
      BY <2>1, <3>1 DEF FollowInv, Transcript, Record, Messages, Agree, Incremental, Parsing, Held, Read,
                        Grows, Gentle
    <3>3. Stamped'
      BY <2>1, <3>1 DEF Stamped, Size
    <3> QED  BY <1>1, <3>2, <3>3 DEF FollowInv
  <2> QED  BY <2>2, <2>3, <2>4 DEF Next
<1> QED  BY <1>1, <1>2, <1>3 DEF Following

LEMMA Followed == Spec => []Following
BY FollowsAtFirst, FollowsOn, PTL DEF Spec

(* The rows hold the messages of a prefix of the file.                     *)
LEMMA RowsArePrefix ==
    ASSUME FollowInv
    PROVE  \E n \in 0..Len(lines) : Tells(rows, Told(lines, n, inode), Paired(world))
<1> USE Opened
<1>1. Held \in 0..Len(lines) /\ 0 \in 0..Len(lines) /\ Paired(world) \in BOOLEAN
  BY DEF FollowInv, Record, NoSession, Held, Paired
<1>2. CASE job.step = "incUpdate"
  BY <1>2 DEF FollowInv, Incremental
<1>3. CASE job.step = "messages"
  BY <1>1, <1>3 DEF FollowInv, Messages
<1>4. CASE job.step \notin {"incUpdate", "messages"}
  <2>1. rows = {} \/ Tells(rows, Told(lines, Held, inode), Paired(world))
    BY <1>4 DEF FollowInv, Messages, Agree
  <2>2. Tells({}, Told(lines, 0, inode), Paired(world))
    BY <1>1, ToldTells
  <2> HIDE DEF Held, Told
  <2> QED  BY <1>1, <2>1, <2>2
<1> QED  BY <1>2, <1>3, <1>4

LEMMA SameCore ==
    ASSUME NEW msgs, NEW told, NEW exact, Tells(msgs, told, exact)
    PROVE  /\ \A r \in msgs : \E q \in told : Core(q) = Core(r)
           /\ \A q \in told : \E r \in msgs : Core(r) = Core(q)
<1>1. Cores(msgs) = Cores(told)
  BY DEF Tells
<1>2. ASSUME NEW r \in msgs PROVE \E q \in told : Core(q) = Core(r)
  <2>1. Core(r) \in Cores(told)
    BY <1>1 DEF Cores
  <2> QED  BY <2>1 DEF Cores
<1>3. ASSUME NEW q \in told PROVE \E r \in msgs : Core(r) = Core(q)
  <2>1. Core(q) \in Cores(msgs)
    BY <1>1 DEF Cores
  <2> QED  BY <2>1 DEF Cores
<1> QED  BY <1>2, <1>3

LEMMA SameLines == ASSUME NEW r, NEW q, Core(r) = Core(q) PROVE LinesOf(r) = LinesOf(q)
BY DEF Core, LinesOf

(* In every world that Gentle admits, over growth, tool results, failures, *)
(* crashes and upgrades, what the engine shows of a file it would skip is  *)
(* what a parse of the whole file says, no line is in two messages, and    *)
(* message_count is their number.                                          *)
THEOREM RowsFollow == Spec => []RowsFollowTheFile
<1>1. ASSUME Following, Gentle PROVE SkippedIsComplete /\ NoLineTwice /\ CountIsRows
  <2>1. FollowInv
    BY <1>1 DEF Following
  <2> USE <2>1, Opened
  <2>2. ASSUME job.step = "idle", shouldSkipFile
        PROVE  /\ Tells(rows, Parse(lines, 1, 0, inode), Paired(world))
               /\ sess.count = Cardinality(rows)
    <3>1. sess.stored /\ sess.size = Size /\ sess.version = "current"
      BY <2>2 DEF shouldSkipFile
    <3>2. sess.size = 2 * Held
      BY <3>1 DEF FollowInv, Record
    <3>3. Tells(rows, Told(lines, Held, inode), Paired(world)) /\ sess.count = Cardinality(rows)
      BY <2>2, <3>1 DEF FollowInv, Messages, Agree
    <3>4. Held = Len(lines)
      BY <3>1, <3>2 DEF Size
    <3> QED  BY <3>3, <3>4, AllTold
  <2>3. NoLineTwice
    <3>1. PICK n \in 0..Len(lines) : Tells(rows, Told(lines, n, inode), Paired(world))
      BY RowsArePrefix
    <3> DEFINE xs == SubSeq(lines, 1, n)
    <3>2. xs \in Seq(Kinds) /\ Told(lines, n, inode) = Parse(xs, 1, 0, inode)
      BY CutBegins DEF Told
    <3> HIDE DEF xs
    <3> SUFFICES ASSUME NEW r \in rows, NEW q \in rows, r # q
                 PROVE  LinesOf(r) \cap LinesOf(q) = {}
      BY DEF NoLineTwice
    <3>3. PICK a \in Parse(xs, 1, 0, inode) : Core(a) = Core(r)
      BY <3>1, <3>2, SameCore
    <3>4. PICK b \in Parse(xs, 1, 0, inode) : Core(b) = Core(q)
      BY <3>1, <3>2, SameCore
    <3>5. r.at # q.at
      <4> SUFFICES ASSUME r.at = q.at PROVE FALSE
        OBVIOUS
      <4>1. r.at \in Nat /\ ~(r.ord < q.ord) /\ ~(q.ord < r.ord)
        BY <3>1 DEF Tells, Ascending, Row
      <4>2. r.ord = q.ord
        BY <4>1 DEF Row
      <4> QED  BY <4>2 DEF Numbered, Distinct
    <3>6. a # b
      BY <3>3, <3>4, <3>5 DEF Core
    <3>7. LinesOf(a) \cap LinesOf(b) = {}
      BY <3>2, <3>6, LinesApart
    <3> QED  BY <3>3, <3>4, <3>7, SameLines
  <2>4. SkippedIsComplete
    <3> SUFFICES ASSUME job.step = "idle", shouldSkipFile PROVE InSync
      BY DEF SkippedIsComplete
    <3> DEFINE whole == Parse(lines, 1, 0, inode)
    <3>1. Tells(rows, whole, Paired(world))
      BY <2>2
    <3> HIDE DEF whole
    <3>2. \A r \in rows : \E q \in whole : LinesOf(r) = LinesOf(q)
      <4> TAKE r \in rows
      <4>1. PICK q \in whole : Core(q) = Core(r)
        BY <3>1, SameCore
      <4> QED  BY <4>1, SameLines
    <3>3. \A q \in whole : \E r \in rows : LinesOf(r) = LinesOf(q)
      <4> TAKE q \in whole
      <4>1. PICK r \in rows : Core(q) = Core(r)
        BY <3>1, SameCore
      <4> QED  BY <4>1, SameLines
    <3>4. {LinesOf(r) : r \in rows} = {LinesOf(r) : r \in whole}
      BY <3>2, <3>3
    <3>5. Paired(world) => rows = whole
      BY <3>1 DEF Tells
    <3> QED  BY <3>4, <3>5 DEF InSync, whole
  <2>5. CountIsRows
    BY <2>2 DEF CountIsRows
  <2> QED  BY <2>3, <2>4, <2>5
<1>2. Following => RowsFollowTheFile
  BY <1>1 DEF RowsFollowTheFile
<1> QED  BY <1>2, Followed, PTL

LEMMA PrefixIsKept ==
    ASSUME NEW ls \in Seq(Kinds), NEW n \in 0..Len(ls), NEW k \in 0..n, NEW ino \in Nat,
           NEW r \in Told(ls, k, ino)
    PROVE  \E q \in Told(ls, n, ino) : LinesOf(r) \subseteq LinesOf(q)
<1> DEFINE xs == SubSeq(ls, 1, k)
           ys == SubSeq(ls, 1, n)
<1>1. Len(ls) \in Nat
  BY LenProperties
<1>2. xs \in Seq(Kinds) /\ Len(xs) = k /\ Begins(xs, ls) /\ ys \in Seq(Kinds) /\ Len(ys) = n /\ Begins(ys, ls)
  BY <1>1, CutBegins
<1>3. r \in Parse(xs, 1, 0, ino)
  BY DEF Told
<1> HIDE DEF xs, ys
<1>4. Begins(xs, ys)
  BY <1>1, <1>2 DEF Begins
<1>5. \E q \in Parse(ys, 1, 0, ino) : LinesOf(r) \subseteq LinesOf(q)
  BY <1>2, <1>3, <1>4, MessageGrows
<1> QED  BY <1>5 DEF Told, ys

(* No pass loses a line it had stored, not even one that replaces all rows *)
(* because the file has to be parsed again.                                *)
THEOREM LinesStay == Spec => LinesAreKept
<1>1. ASSUME Following, [Next]_vars, Gentle PROVE StoredLines \subseteq StoredLines'
  <2>1. FollowInv
    BY <1>1 DEF Following
  <2> USE <2>1, Opened
  <2>2. CASE rows' = rows
    BY <2>2 DEF StoredLines
  <2>3. CASE incMessages
    BY <2>3 DEF incMessages, Appended, StoredLines
  <2>4. CASE writeMessages
    <3>1. job.step = "messages" /\ rows' = IF job.force \/ job.stale THEN job.msgs ELSE Appended(job.msgs)
      BY <2>4 DEF writeMessages
    <3>2. CASE rows \subseteq rows'
      BY <3>2 DEF StoredLines
    <3>3. CASE rows' = job.msgs
      <4>1. job.msgs = Told(lines, Held, inode) /\ Held \in 0..Len(lines)
        BY <3>1 DEF FollowInv, Messages, Record
      <4>2. PICK k \in 0..Held : Tells(rows, Told(lines, k, inode), Paired(world))
        BY <3>1 DEF FollowInv, Messages
      <4>3. \A r \in rows : \E q \in rows' : LinesOf(r) \subseteq LinesOf(q)
        <5> TAKE r \in rows
        <5>1. PICK a \in Told(lines, k, inode) : Core(a) = Core(r)
          BY <4>2, SameCore
        <5>2. \E q \in rows' : LinesOf(a) \subseteq LinesOf(q)
          BY <3>3, <4>1, PrefixIsKept
        <5> QED  BY <5>1, <5>2, SameLines
      <4> QED  BY <4>3 DEF StoredLines
    <3> QED  BY <3>1, <3>2, <3>3 DEF Appended
  <2>5. ASSUME ~incMessages, ~writeMessages PROVE rows' = rows
    <3>1. CASE Agent
      BY <3>1 DEF Agent, AppendLine, AppendHalf, CompleteLine, Touch, Replace, dbVars
    <3>2. CASE Pass
      BY <2>5, <3>2 DEF Pass, processFile, incRead, ReadAppended, UpdateSessionIncremental,
                  AdvanceSession, fullStat, fullRead, UpsertSession, WriteSession,
                  SetSessionDataVersion, dbVars
    <3>3. CASE Failure \/ Upgrade
      BY <3>3 DEF Failure, WriteFails, ParseFails, Crash, Upgrade, dbVars
    <3>4. CASE UNCHANGED vars
      BY <3>4 DEF vars, dbVars
    <3> QED  BY <1>1, <3>1, <3>2, <3>3, <3>4 DEF Next
  <2> QED  BY <2>2, <2>3, <2>4, <2>5
<1>2. Following /\ [Next]_vars => [Gentle => StoredLines \subseteq StoredLines']_vars
  BY <1>1
<1> QED  BY <1>2, Followed, PTL DEF Spec, LinesAreKept

=============================================================================
