---------------------- MODULE DistributedChallengesProofs ----------------------
(***************************************************************************)
(* Proofs about DistributedChallenges, for any number of servers, players  *)
(* and challenges.                                                         *)
(*                                                                         *)
(* The invariant follows every job through the queue of its server.  Redis *)
(* executes the commands of a server in the order they were issued, one of *)
(* each queued job per round, so a job keeps its distance to those issued  *)
(* before it: that is what ranks say, and why what closes a challenge      *)
(* cannot overtake its registration.  From the step a job is at follows    *)
(* which locks it may rely on, so that a DEL that does not look at the     *)
(* value, in the rollback or after the read of a release, deletes none of  *)
(* another challenge.  A challenge that is closed is being closed by a job *)
(* or settled: no job, no metadata and no lock is left of it.              *)
(***************************************************************************)
EXTENDS DistributedChallenges, SequenceTheorems, FiniteSetTheorems, TLAPS

(* Job a is in queue q, and it is there before b. *)
In(q, a) == \E i \in 1 .. Len(q) : q[i] = a
Ahead(q, a, b) == \E i, k \in 1 .. Len(q) : i < k /\ q[i] = a /\ q[k] = b
-----------------------------------------------------------------------------
(* The inductive invariant. *)

(* Types, with the queues of commands as sequences of jobs. *)
DistTypes ==
    /\ match \in [ChallengeId ->
          [phase : {"unused", "void", "resolved", "lost"} \cup Open,
           challenger : Player \cup {Nobody}, opponent : Player \cup {House, Nobody},
           owner : Server \cup {NoServer}, staked : BOOLEAN]]
    /\ timer \in [ChallengeId -> Nat]
    /\ moved \in [ChallengeId -> SUBSET (Player \cup {House})]
    /\ announced \subseteq ChallengeId /\ escrowed \subseteq ChallengeId
    /\ told \subseteq ChallengeId
    /\ run \in [Server -> {"new", "up", "down"}] /\ crashes \in 0 .. MaxCrashes
    /\ home \in [Player -> Server \cup {NoServer}]
    /\ queue \in [Server -> Seq(AnyJob)]
    /\ onChain \in [Server -> SUBSET AnyJob]
    /\ sweep \in [Server -> SUBSET ChallengeId]
    /\ lock \in [Player -> {NoLock} \cup {Lock(c, s) : c \in ChallengeId, s \in Server}]
    /\ lockTtl \in [Player -> 0 .. LockTicks]
    /\ meta \in [ChallengeId -> {"none", "partial", "open", "closed"}]
    /\ age \in [ChallengeId -> 0 .. GraceTicks]
    /\ beat \in [Server -> 0 .. BeatTicks]
    /\ commands \subseteq [c : ChallengeId, actor : Player, answer : Answer]

(* Challenges that were created, and the locks they hold. *)
Used(c) == match[c].phase # "unused"
Holds(c, p) == lock[p] = Lock(c, Owner(c))
LocksHeld(c) == Holds(c, match[c].challenger) /\ Holds(c, match[c].opponent)

(* Jobs that dispatch the closing of a challenge. *)
Closing(j) == j.fn \in {"close", "counter"}

(* The steps a job of each kind goes through, if the opponent is o. *)
StepsOf(o, fn) ==
    IF fn = "create"
    THEN {"register", "push", "trim", "status"} \cup
         (IF o = House THEN {}
          ELSE {"lockFirst", "lockSecond", "probeFirst", "probeSecond", "rollback"})
    ELSE {"push", "trim", "status"} \cup
         (IF fn \in {"accept", "move"} THEN {}
          ELSE {"getFirst", "delFirst", "clear"} \cup
               (IF o = House THEN {} ELSE {"getSecond", "delSecond"}))

(* How far a job has come.  Each round through the queue takes a job one    *)
(* rank up, so one that was issued earlier stays ahead.                     *)
Rank(o, j) ==
    IF ~Closing(j)
    THEN IF j.step = "lockFirst" THEN 1
         ELSE IF j.step \in {"lockSecond", "probeFirst"} THEN 2
         ELSE IF j.step \in {"register", "probeSecond"} THEN 3
         ELSE IF j.step \in {"rollback", "push"} THEN 4
         ELSE IF j.step = "trim" THEN 5 ELSE 6
    ELSE IF o = House
    THEN IF j.step = "push" THEN 3 ELSE IF j.step = "trim" THEN 4
         ELSE IF j.step = "status" THEN 5 ELSE 6
    ELSE IF j.step = "push" THEN 1 ELSE IF j.step = "trim" THEN 2
         ELSE IF j.step = "status" THEN 3 ELSE IF j.step = "getFirst" THEN 4
         ELSE IF j.step \in {"delFirst", "getSecond"} THEN 5 ELSE 6

(* What holds of two jobs of one challenge, a ahead of b: it is created and *)
(* closed once, and what closes it does not overtake what came before.      *)
Pair(o, a, b) ==
    /\ ~(a.fn = "create" /\ b.fn = "create")
    /\ ~(Closing(a) /\ Closing(b))
    /\ Closing(b) => Rank(o, a) >= Rank(o, b)
    /\ Closing(a) => Rank(o, b) >= Rank(o, a) + 1

Orderly(m, q) ==
    \A a, b \in AnyJob : a.c = b.c /\ Ahead(q, a, b) => Pair(m[a.c].opponent, a, b)

(* A job belongs to the owner of its challenge. *)
JobOK(s, j) ==
    /\ Used(j.c) /\ Owner(j.c) = s
    /\ j.step \in StepsOf(match[j.c].opponent, j.fn)
    /\ j.fn = "create" => j.c \notin announced /\ age[j.c] = 0
    /\ Closing(j) => ~IsOpen(j.c)
    /\ j.fn = "counter" => match[j.c].opponent # House

(* What a job relies on when it writes the locks of its players. *)
LocksOK(j) ==
    LET p == match[j.c].challenger
        o == match[j.c].opponent
    IN  /\ j.step \in {"lockSecond", "probeSecond", "rollback", "delFirst"} => Holds(j.c, p)
        /\ j.step = "delSecond" => Holds(j.c, o)
        /\ j.fn = "create" /\ j.step \in {"register", "push", "trim", "status"}
             /\ o # House /\ match[j.c].phase = "pending" => LocksHeld(j.c)
        /\ j.step \in {"getSecond", "delSecond", "clear"} => ~Holds(j.c, p)
        /\ j.step = "clear" => \A x \in Player : ~Holds(j.c, x)

(* The queue of a server. *)
QueueOK(s) ==
    /\ \A a \in AnyJob : In(queue[s], a) => JobOK(s, a) /\ LocksOK(a)
    /\ Orderly(match, queue[s])

(* Past the dispatch of everything that came before the closing. *)
Ranked(o, j) == Rank(o, j) >= IF o = House THEN 6 ELSE 4

(* Its jobs that await the chain: a challenge has no other closing, and what*)
(* is queued of it comes before the release.                                *)
ChainOK(s) ==
    /\ \A j \in onChain[s] :
          /\ JobOK(s, j) /\ j.step = "status" /\ j.fn \in {"accept", "close", "counter"}
          /\ match[j.c].staked
    /\ \A j, k \in onChain[s] : Closing(j) /\ Closing(k) /\ j.c = k.c => j = k
    /\ \A j \in onChain[s], a \in AnyJob :
          Closing(j) /\ In(queue[s], a) /\ a.c = j.c
            => ~Closing(a) /\ Ranked(match[j.c].opponent, a)

(* A server that is not running handles nothing. *)
ServerOK(s) == run[s] # "up" => queue[s] = <<>> /\ onChain[s] = {} /\ sweep[s] = {}

(* A match has two parties and an owner. *)
PartiesOK(c) == /\ match[c].challenger \in Player
                /\ match[c].opponent \in Player \cup {House}
                /\ match[c].challenger # match[c].opponent
                /\ Owner(c) \in Server

(* Some server has a job of c, or one that closes it. *)
Touched(c) == \E s \in Server : \/ \E j \in onChain[s] : j.c = c
                                \/ \E j \in AnyJob : In(queue[s], j) /\ j.c = c
BeingClosed(c) ==
    \E s \in Server : \E j \in AnyJob : In(queue[s], j) /\ j.c = c /\ Closing(j)
Settled(c) == ~Touched(c) /\ meta[c] = "none" /\ \A x \in Player : ~Holds(c, x)

(* An open or handled challenge of some age has an owner with a heartbeat. *)
BeatOK(c) ==
    (IsOpen(c) \/ Touched(c)) /\ age[c] > 0 => beat[Owner(c)] >= BeatTicks - 1

(* What a sweep has read, and what players were told, is over. *)
SweepOK(c) ==
    \A s \in Server : c \in sweep[s] => Used(c) /\ ~IsOpen(c) /\ ~Touched(c)
ToldOK(c) == c \in told => Used(c) /\ ~IsOpen(c)

(* The locks of an announced challenge are its own while it can be answered. *)
AnnouncedOK(c) ==
    c \in announced /\ match[c].phase = "pending" /\ timer[c] > 0 /\ NotHouse(c)
      => LocksHeld(c)

(* A closed challenge is being closed, or nothing of it is left. *)
ClosedOK(c) ==
    match[c].phase \in {"void", "resolved"} /\ ~match[c].staked /\ ~BeingClosed(c)
      => Settled(c)

(* All that holds of a challenge. *)
ChallengeOK(c) ==
    /\ ~Used(c) => age[c] = 0 /\ meta[c] = "none" /\ c \notin announced
    /\ Used(c) => PartiesOK(c)
    /\ IsOpen(c) => run[Owner(c)] = "up"
    /\ match[c].phase = "pending" => timer[c] <= PendingTicks
    /\ BeatOK(c) /\ SweepOK(c) /\ ToldOK(c) /\ AnnouncedOK(c) /\ ClosedOK(c)

(* A lock is held for a challenge of the player by its owner, and outlives  *)
(* the answer the challenge awaits.                                         *)
LockOK(p) ==
    lock[p] # NoLock =>
        LET c == lock[p].challenge
        IN  /\ Used(c) /\ lock[p].server = Owner(c) /\ p \in Parties(c) /\ NotHouse(c)
            /\ match[c].phase = "pending" => timer[c] <= lockTtl[p]

(* The inductive invariant. *)
DistInv ==
    /\ DistTypes
    /\ \A s \in Server : QueueOK(s) /\ ChainOK(s) /\ ServerOK(s)
    /\ \A c \in ChallengeId : ChallengeOK(c)
    /\ \A p \in Player : LockOK(p)

(* The empty queue lists nothing. *)
LEMMA NothingQueued ==
    ASSUME NEW a, NEW b
    PROVE  ~In(<<>>, a) /\ ~Ahead(<<>>, a, b)
BY DEF In, Ahead

(* The head of a queue is in it. *)
LEMMA HeadIsIn ==
    ASSUME NEW T, NEW q \in Seq(T), q # <<>>
    PROVE  In(q, Head(q)) /\ Head(q) \in T /\ Tail(q) \in Seq(T)
BY EmptySeq, LenProperties, HeadTailProperties DEF In

(* What is in a queue has its type. *)
LEMMA InHasType ==
    ASSUME NEW T, NEW q \in Seq(T), NEW a, In(q, a)
    PROVE  a \in T
BY ElementOfSeq DEF In

(* Of two jobs in order both are in the queue. *)
LEMMA AheadAreIn ==
    ASSUME NEW q, NEW a, NEW b, Ahead(q, a, b)
    PROVE  In(q, a) /\ In(q, b)
BY DEF In, Ahead

(* What is in a queue when a job is appended. *)
LEMMA InAppended ==
    ASSUME NEW T, NEW q \in Seq(T), NEW j \in T, NEW a
    PROVE  In(Append(q, j), a) <=> In(q, a) \/ a = j
<1>1. /\ Len(q) \in Nat /\ Len(Append(q, j)) = Len(q) + 1
      /\ \A i \in 1 .. Len(q) : Append(q, j)[i] = q[i]
      /\ Append(q, j)[Len(q) + 1] = j
  BY LenProperties
<1>2. \A i : i \in 1 .. Len(q) + 1 <=> i \in 1 .. Len(q) \/ i = Len(q) + 1
  BY <1>1
<1> QED
  BY <1>1, <1>2 DEF In

(* And what is ahead of what: everything that was there of the new job. *)
LEMMA AheadAppended ==
    ASSUME NEW T, NEW q \in Seq(T), NEW j \in T, NEW a, NEW b
    PROVE  Ahead(Append(q, j), a, b) <=> Ahead(q, a, b) \/ (In(q, a) /\ b = j)
<1>1. /\ Len(q) \in Nat /\ Len(Append(q, j)) = Len(q) + 1
      /\ \A i \in 1 .. Len(q) : Append(q, j)[i] = q[i]
      /\ Append(q, j)[Len(q) + 1] = j
  BY LenProperties
<1>2. \A i : i \in 1 .. Len(q) + 1 <=> i \in 1 .. Len(q) \/ i = Len(q) + 1
  BY <1>1
<1>3. \A i, k \in 1 .. Len(q) + 1 :
         i < k <=> (i \in 1 .. Len(q) /\ k \in 1 .. Len(q) /\ i < k)
                     \/ (i \in 1 .. Len(q) /\ k = Len(q) + 1)
  BY <1>1
<1> QED
  BY <1>1, <1>2, <1>3 DEF In, Ahead

(* What is in a queue is its head or behind it. *)
LEMMA InTail ==
    ASSUME NEW T, NEW q \in Seq(T), q # <<>>, NEW a
    PROVE  In(q, a) <=> a = Head(q) \/ In(Tail(q), a)
<1>1. /\ Len(q) \in Nat \ {0} /\ Len(Tail(q)) = Len(q) - 1
      /\ \A i \in 1 .. Len(Tail(q)) : Tail(q)[i] = q[i + 1]
      /\ Head(q) = q[1]
  BY EmptySeq, LenProperties, HeadTailProperties
<1>2. \A i \in 1 .. Len(q) : i = 1 \/ (i - 1 \in 1 .. Len(Tail(q)) /\ q[i] = Tail(q)[i - 1])
  BY <1>1
<1>3. \A i \in 1 .. Len(Tail(q)) : i + 1 \in 1 .. Len(q) /\ q[i + 1] = Tail(q)[i]
  BY <1>1
<1> QED
  BY <1>1, <1>2, <1>3 DEF In

(* And the head is ahead of everything behind it. *)
LEMMA AheadTail ==
    ASSUME NEW T, NEW q \in Seq(T), q # <<>>, NEW a, NEW b
    PROVE  Ahead(q, a, b) <=> Ahead(Tail(q), a, b) \/ (a = Head(q) /\ In(Tail(q), b))
<1>1. /\ Len(q) \in Nat \ {0} /\ Len(Tail(q)) = Len(q) - 1
      /\ \A i \in 1 .. Len(Tail(q)) : Tail(q)[i] = q[i + 1]
      /\ Head(q) = q[1]
  BY EmptySeq, LenProperties, HeadTailProperties
<1>2. \A i \in 1 .. Len(q) : i = 1 \/ (i - 1 \in 1 .. Len(Tail(q)) /\ q[i] = Tail(q)[i - 1])
  BY <1>1
<1>3. \A i \in 1 .. Len(Tail(q)) : i + 1 \in 1 .. Len(q) /\ q[i + 1] = Tail(q)[i]
  BY <1>1
<1>4. ASSUME Ahead(q, a, b)
      PROVE  Ahead(Tail(q), a, b) \/ (a = Head(q) /\ In(Tail(q), b))
  <2>1. PICK i, k \in 1 .. Len(q) : i < k /\ q[i] = a /\ q[k] = b
    BY <1>4 DEF Ahead
  <2>2. k - 1 \in 1 .. Len(Tail(q)) /\ Tail(q)[k - 1] = b
    BY <1>1, <1>2, <2>1
  <2>3. CASE i = 1
    BY <1>1, <2>1, <2>2, <2>3 DEF In
  <2>4. CASE i # 1
    <3>1. i - 1 \in 1 .. Len(Tail(q)) /\ Tail(q)[i - 1] = a /\ i - 1 < k - 1
      BY <1>1, <1>2, <2>1, <2>4
    <3> QED
      BY <2>2, <3>1 DEF Ahead
  <2> QED
    BY <2>3, <2>4
<1>5. ASSUME Ahead(Tail(q), a, b)
      PROVE  Ahead(q, a, b)
  <2>1. PICK i, k \in 1 .. Len(Tail(q)) : i < k /\ Tail(q)[i] = a /\ Tail(q)[k] = b
    BY <1>5 DEF Ahead
  <2>2. i + 1 \in 1 .. Len(q) /\ k + 1 \in 1 .. Len(q) /\ i + 1 < k + 1
        /\ q[i + 1] = a /\ q[k + 1] = b
    BY <1>1, <1>3, <2>1
  <2> QED
    BY <2>2 DEF Ahead
<1>6. ASSUME a = Head(q), In(Tail(q), b)
      PROVE  Ahead(q, a, b)
  <2>1. PICK k \in 1 .. Len(Tail(q)) : Tail(q)[k] = b
    BY <1>6 DEF In
  <2>2. 1 \in 1 .. Len(q) /\ k + 1 \in 1 .. Len(q) /\ 1 < k + 1 /\ q[1] = a /\ q[k + 1] = b
    BY <1>1, <1>3, <1>6, <2>1
  <2> QED
    BY <2>2 DEF Ahead
<1> QED
  BY <1>4, <1>5, <1>6

(* What two queues in a row list. *)
LEMMA InConcat ==
    ASSUME NEW T, NEW q \in Seq(T), NEW r \in Seq(T), NEW a
    PROVE  In(q \o r, a) <=> In(q, a) \/ In(r, a)
<1>1. /\ Len(q) \in Nat /\ Len(r) \in Nat /\ Len(q \o r) = Len(q) + Len(r)
      /\ \A i \in 1 .. Len(q) + Len(r) :
            (q \o r)[i] = IF i <= Len(q) THEN q[i] ELSE r[i - Len(q)]
  BY LenProperties, ConcatProperties
<1>2. \A i \in 1 .. Len(q) : i \in 1 .. Len(q) + Len(r) /\ (q \o r)[i] = q[i]
  BY <1>1
<1>3. \A i \in 1 .. Len(r) :
         i + Len(q) \in 1 .. Len(q) + Len(r) /\ (q \o r)[i + Len(q)] = r[i]
  BY <1>1
<1>4. \A i \in 1 .. Len(q) + Len(r) : \/ i \in 1 .. Len(q)
                                      \/ i - Len(q) \in 1 .. Len(r) /\ (q \o r)[i] = r[i - Len(q)]
  BY <1>1
<1> QED
  BY <1>1, <1>2, <1>3, <1>4 DEF In

(* And in which order: that of each, and the first before the second. *)
LEMMA AheadConcat ==
    ASSUME NEW T, NEW q \in Seq(T), NEW r \in Seq(T), NEW a, NEW b, Ahead(q \o r, a, b)
    PROVE  Ahead(q, a, b) \/ Ahead(r, a, b) \/ (In(q, a) /\ In(r, b))
<1>1. /\ Len(q) \in Nat /\ Len(r) \in Nat /\ Len(q \o r) = Len(q) + Len(r)
      /\ \A i \in 1 .. Len(q) + Len(r) :
            (q \o r)[i] = IF i <= Len(q) THEN q[i] ELSE r[i - Len(q)]
  BY LenProperties, ConcatProperties
<1>2. PICK i, k \in 1 .. Len(q) + Len(r) : i < k /\ (q \o r)[i] = a /\ (q \o r)[k] = b
  BY <1>1 DEF Ahead
<1>3. CASE k <= Len(q)
  <2>1. i \in 1 .. Len(q) /\ k \in 1 .. Len(q) /\ q[i] = a /\ q[k] = b
    BY <1>1, <1>2, <1>3
  <2> QED
    BY <1>2, <2>1 DEF Ahead
<1>4. CASE ~(k <= Len(q))
  <2>1. k - Len(q) \in 1 .. Len(r) /\ r[k - Len(q)] = b
    BY <1>1, <1>2, <1>4
  <2>2. CASE i <= Len(q)
    <3>1. i \in 1 .. Len(q) /\ q[i] = a
      BY <1>1, <1>2, <2>2
    <3> QED
      BY <2>1, <3>1 DEF In
  <2>3. CASE ~(i <= Len(q))
    <3>1. i - Len(q) \in 1 .. Len(r) /\ r[i - Len(q)] = a /\ i - Len(q) < k - Len(q)
      BY <1>1, <1>2, <2>3
    <3> QED
      BY <2>1, <3>1 DEF Ahead
  <2> QED
    BY <2>2, <2>3
<1> QED
  BY <1>3, <1>4

(* SetToSeq lists the members of a finite set, each of them once. *)
LEMMA ListedOnce ==
    ASSUME NEW T, NEW S, S \subseteq T, IsFiniteSet(S)
    PROVE  /\ SetToSeq(S) \in Seq(T)
           /\ \A a : In(SetToSeq(S), a) => a \in S
           /\ \A a : a \in S => In(SetToSeq(S), a)
           /\ \A a, b : Ahead(SetToSeq(S), a, b) => a # b
<1> DEFINE n == Cardinality(S)
<1>1. n \in Nat /\ ExistsBijection(1 .. n, S)
  BY FS_CardinalityType
<1>2. PICK f \in [1 .. n -> S] : IsInjective(f)
  BY <1>1 DEF ExistsBijection, Bijection, Injection
<1>3. SetToSeq(S) \in [1 .. n -> S] /\ IsInjective(SetToSeq(S))
  BY <1>2 DEF SetToSeq
<1>4. SetToSeq(S) \in Seq(S) /\ Len(SetToSeq(S)) = n
  BY <1>1, <1>3
<1>5. SetToSeq(S) \in Injection(1 .. n, S)
  BY <1>3 DEF Injection
<1>6. IsFiniteSet(1 .. n) /\ Cardinality(1 .. n) = n
  BY <1>1, FS_Interval
<1>7. SetToSeq(S) \in Surjection(1 .. n, S)
  BY <1>5, <1>6, FS_Injection
<1>8. \A a \in S : \E i \in 1 .. n : SetToSeq(S)[i] = a
  BY <1>7 DEF Surjection
<1>9. SetToSeq(S) \in Seq(T)
  BY <1>4, SeqMonotonic
<1>10. DOMAIN SetToSeq(S) = 1 .. n
  BY <1>3
<1>11. \A i, k \in 1 .. n : i < k => SetToSeq(S)[i] # SetToSeq(S)[k]
  BY <1>1, <1>3, <1>10 DEF IsInjective
<1> HIDE DEF n
<1>12. \A a : In(SetToSeq(S), a) => a \in S
  BY <1>3, <1>4 DEF In
<1>13. \A a : a \in S => In(SetToSeq(S), a)
  BY <1>4, <1>8 DEF In
<1>14. \A a, b : Ahead(SetToSeq(S), a, b) => a # b
  BY <1>4, <1>11 DEF Ahead
<1> QED
  BY <1>9, <1>12, <1>13, <1>14

(* A set of naturals has a least member: NextId exists. *)
LEMMA LeastOfNaturals ==
    ASSUME NEW S, S \subseteq Nat, S # {}
    PROVE  \E x \in S : \A y \in S : x <= y
<1>1. \E x \in S : \A y \in S : ~(<<y, x>> \in OpToRel(<, Nat))
  BY NatLessThanWellFounded, WFMin
<1>2. PICK x \in S : \A y \in S : ~(<<y, x>> \in OpToRel(<, Nat))
  BY <1>1
<1>3. \A y \in S : ~(y < x)
  BY <1>2 DEF OpToRel
<1>4. \A y \in S : x <= y
  BY <1>3
<1> QED
  BY <1>4

-----------------------------------------------------------------------------
(* Queues whose jobs keep their order. *)

(* A rank is a number from one to six. *)
LEMMA RankType ==
    ASSUME NEW o, NEW j
    PROVE  Rank(o, j) \in 1 .. 6
BY DEF Rank

(* A queue stays in order when its head is taken. *)
LEMMA OrderlyTail ==
    ASSUME NEW m, NEW q \in Seq(AnyJob), q # <<>>, Orderly(m, q)
    PROVE  Orderly(m, Tail(q))
BY AheadTail DEF Orderly

(* And when a job is appended that may follow those of its challenge. *)
LEMMA OrderlyAppended ==
    ASSUME NEW m, NEW q \in Seq(AnyJob), NEW j \in AnyJob, Orderly(m, q),
           \A a \in AnyJob : In(q, a) /\ a.c = j.c => Pair(m[a.c].opponent, a, j)
    PROVE  Orderly(m, Append(q, j))
BY AheadAppended DEF Orderly

(* The job at the head that goes on to its next command may follow the      *)
(* others: it went up one rank, as every job ahead of it had.               *)
LEMMA OrderlyAdvance ==
    ASSUME NEW m, NEW q \in Seq(AnyJob), q # <<>>, NEW j \in AnyJob, Orderly(m, q),
           j.c = Head(q).c, j.fn = Head(q).fn,
           Closing(j) => Rank(m[j.c].opponent, j) <= Rank(m[j.c].opponent, Head(q)) + 1,
           ~Closing(j) => Rank(m[j.c].opponent, j) >= Rank(m[j.c].opponent, Head(q)) + 1
    PROVE  Orderly(m, Append(Tail(q), j))
<1>1. Tail(q) \in Seq(AnyJob) /\ Head(q) \in AnyJob
  BY HeadIsIn
<1>2. Orderly(m, Tail(q))
  BY OrderlyTail
<1>3. ASSUME NEW a \in AnyJob, In(Tail(q), a), a.c = j.c
      PROVE  Pair(m[a.c].opponent, a, j)
  <2>1. Pair(m[a.c].opponent, Head(q), a)
    BY <1>1, <1>3, AheadTail DEF Orderly
  <2>2. /\ Rank(m[a.c].opponent, a) \in 1 .. 6 /\ Rank(m[a.c].opponent, j) \in 1 .. 6
        /\ Rank(m[a.c].opponent, Head(q)) \in 1 .. 6
    BY RankType
  <2>3. Closing(j) <=> Closing(Head(q))
    BY DEF Closing
  <2>4. CASE Closing(j)
    <3>1. ~Closing(a) /\ Rank(m[a.c].opponent, a) >= Rank(m[a.c].opponent, Head(q)) + 1
      BY <2>1, <2>3, <2>4 DEF Pair
    <3>2. Rank(m[a.c].opponent, j) <= Rank(m[a.c].opponent, Head(q)) + 1
      BY <1>3, <2>4
    <3>3. j.fn # "create"
      BY <2>4 DEF Closing
    <3>4. Rank(m[a.c].opponent, a) >= Rank(m[a.c].opponent, j)
      BY <2>2, <3>1, <3>2
    <3> QED
      BY <2>4, <3>1, <3>3, <3>4 DEF Pair
  <2>5. CASE ~Closing(j)
    <3>1. /\ Closing(a) => Rank(m[a.c].opponent, Head(q)) >= Rank(m[a.c].opponent, a)
          /\ ~(Head(q).fn = "create" /\ a.fn = "create")
      BY <2>1 DEF Pair
    <3>2. Rank(m[a.c].opponent, j) >= Rank(m[a.c].opponent, Head(q)) + 1
      BY <1>3, <2>5
    <3>3. Closing(a) => Rank(m[a.c].opponent, j) >= Rank(m[a.c].opponent, a) + 1
      BY <2>2, <3>1, <3>2
    <3> QED
      BY <2>5, <3>1, <3>3 DEF Pair
  <2> QED
    BY <2>4, <2>5
<1> QED
  BY <1>1, <1>2, <1>3, OrderlyAppended

(* The order does not depend on more of a match than its opponent. *)
LEMMA OrderlyKept ==
    ASSUME NEW m, NEW n, NEW q \in Seq(AnyJob), Orderly(m, q),
           \A a \in AnyJob : In(q, a) => n[a.c].opponent = m[a.c].opponent
    PROVE  Orderly(n, q)
BY AheadAreIn DEF Orderly

-----------------------------------------------------------------------------
(* What becomes of a challenge. *)

(* A challenge keeps its parties, its owner and its stake, does not go back *)
(* to awaiting an answer, and does not open again.                          *)
Progress(c) ==
    Used(c) =>
        /\ match'[c].phase # "unused"
        /\ match'[c].challenger = match[c].challenger /\ match'[c].opponent = match[c].opponent
        /\ match'[c].owner = match[c].owner /\ match'[c].staked = match[c].staked
        /\ match'[c].phase = "pending" => match[c].phase = "pending" /\ timer'[c] <= timer[c]
        /\ match'[c].phase \in Open => match[c].phase \in Open

(* The locks of a challenge stay. *)
SameLocks(c) ==
    \A x \in Player : lock'[x] = Lock(c, Owner(c)) <=> lock[x] = Lock(c, Owner(c))

(* What a job relies on stays. *)
Kept(j) ==
    /\ Progress(j.c)
    /\ j.fn = "create" /\ j.c \notin announced /\ age[j.c] = 0
         => j.c \notin announced' /\ age'[j.c] = 0

(* A job stays one its owner may have. *)
LEMMA JobKept ==
    ASSUME DistTypes, NEW s \in Server, NEW j \in AnyJob, JobOK(s, j), Kept(j)
    PROVE  JobOK(s, j)'
BY DEF JobOK, Kept, Progress, Used, Owner, IsOpen, Open

(* And keeps the locks it relies on when those of its challenge stay. *)
LEMMA LocksKept ==
    ASSUME DistTypes, NEW s \in Server, NEW j \in AnyJob, JobOK(s, j), LocksOK(j),
           Kept(j), SameLocks(j.c), PartiesOK(j.c)
    PROVE  LocksOK(j)'
<1>1. /\ match'[j.c].challenger = match[j.c].challenger
      /\ match'[j.c].opponent = match[j.c].opponent /\ Owner(j.c)' = Owner(j.c)
      /\ match'[j.c].phase = "pending" => match[j.c].phase = "pending"
  BY DEF Kept, Progress, Owner, Used, JobOK
<1>2. /\ match[j.c].challenger \in Player
      /\ match[j.c].opponent # House => match[j.c].opponent \in Player
      /\ match[j.c].opponent \in Player \cup {House}
  BY DEF PartiesOK
<1>3. \A x \in Player : Holds(j.c, x)' <=> Holds(j.c, x)
  BY <1>1 DEF SameLocks, Holds
<1>4. j.step = "delSecond" => match[j.c].opponent # House
  BY DEF JobOK, StepsOf
<1>5. LocksHeld(j.c) /\ match[j.c].opponent # House => LocksHeld(j.c)'
  BY <1>1, <1>2, <1>3 DEF LocksHeld
<1> QED
  BY <1>1, <1>2, <1>3, <1>4, <1>5 DEF LocksOK

(* Nothing happens to challenge c. *)
SameJobs(c) ==
    \A s \in Server : \A a \in AnyJob :
        a.c = c => /\ In(queue'[s], a) <=> In(queue[s], a)
                   /\ a \in onChain'[s] <=> a \in onChain[s]
Same(c) ==
    /\ match'[c] = match[c] /\ timer'[c] = timer[c] /\ meta'[c] = meta[c] /\ age'[c] = age[c]
    /\ c \in announced' <=> c \in announced
    /\ c \in told' <=> c \in told
    /\ \A s \in Server : c \in sweep'[s] => c \in sweep[s]
    /\ SameLocks(c) /\ SameJobs(c)

(* A challenge in use goes on: it may close, its jobs may come to an end, *)
(* but it is not created, told of or swept.                               *)
Goes(c) ==
    /\ Used(c) /\ Progress(c)
    /\ c \in told' => c \in told
    /\ \A s \in Server : c \in sweep'[s] => c \in sweep[s]
    /\ Touched(c)' => Touched(c) \/ IsOpen(c)
    /\ age'[c] = 0 \/ age'[c] = age[c]
    /\ AnnouncedOK(c)' /\ ClosedOK(c)'

(* A challenge that goes on keeps its invariant. *)
LEMMA ChallengeGoesOn ==
    ASSUME DistTypes, DistTypes', NEW c \in ChallengeId, ChallengeOK(c), Goes(c),
           run' = run, \A s \in Server : beat'[s] \in 0 .. BeatTicks /\ beat'[s] >= beat[s]
    PROVE  ChallengeOK(c)'
<1>1. Used(c) /\ Used(c)' /\ PartiesOK(c) /\ Owner(c)' = Owner(c) /\ Owner(c) \in Server
  BY DEF Goes, Progress, Used, ChallengeOK, PartiesOK, Owner
<1>2. IsOpen(c)' => IsOpen(c)
  BY <1>1 DEF Goes, Progress, IsOpen
<1>3. PartiesOK(c)'
  BY <1>1 DEF Goes, Progress, PartiesOK
<1>4. IsOpen(c)' => run'[Owner(c)'] = "up"
  BY <1>1, <1>2 DEF ChallengeOK
<1>5. match'[c].phase = "pending" => timer'[c] <= PendingTicks
  BY <1>1, DistributedAssumption DEF Goes, Progress, ChallengeOK, DistTypes
<1>6. BeatOK(c)'
  <2>1. SUFFICES ASSUME (IsOpen(c) \/ Touched(c))', age'[c] > 0
                 PROVE  beat'[Owner(c)'] >= BeatTicks - 1
    BY DEF BeatOK
  <2>2. IsOpen(c) \/ Touched(c)
    BY <1>2, <2>1 DEF Goes
  <2>3. age[c] > 0
    BY <2>1 DEF Goes
  <2>4. beat[Owner(c)] >= BeatTicks - 1
    BY <2>2, <2>3 DEF ChallengeOK, BeatOK
  <2>5. beat[Owner(c)] \in Int /\ beat'[Owner(c)] \in Int /\ BeatTicks \in Int
    BY <1>1, DistributedAssumption DEF DistTypes
  <2> QED
    BY <1>1, <2>4, <2>5
<1>7. SweepOK(c)'
  BY <1>1, <1>2 DEF Goes, ChallengeOK, SweepOK
<1>8. ToldOK(c)'
  BY <1>1, <1>2 DEF Goes, ChallengeOK, ToldOK
<1> QED
  BY <1>1, <1>3, <1>4, <1>5, <1>6, <1>7, <1>8 DEF Goes, ChallengeOK

(* A challenge whose jobs stay is handled as before. *)
LEMMA TouchedSame ==
    ASSUME NEW c \in ChallengeId, SameJobs(c), DistTypes, DistTypes'
    PROVE  (Touched(c)' <=> Touched(c)) /\ (BeingClosed(c)' <=> BeingClosed(c))
<1>1. \A s \in Server : onChain[s] \subseteq AnyJob /\ onChain'[s] \subseteq AnyJob
  BY DEF DistTypes
<1> QED
  BY <1>1 DEF SameJobs, Touched, BeingClosed

(* A challenge whose locks stay holds what it held. *)
LEMMA HoldsSame ==
    ASSUME NEW c \in ChallengeId, SameLocks(c), Owner(c)' = Owner(c)
    PROVE  \A x \in Player : Holds(c, x)' <=> Holds(c, x)
BY DEF SameLocks, Holds

(* A challenge nothing happens to keeps its invariant. *)
LEMMA ChallengeSame ==
    ASSUME DistTypes, DistTypes', NEW c \in ChallengeId, ChallengeOK(c), Same(c),
           run' = run, \A s \in Server : beat'[s] \in 0 .. BeatTicks /\ beat'[s] >= beat[s]
    PROVE  ChallengeOK(c)'
<1>1. /\ match'[c] = match[c] /\ timer'[c] = timer[c] /\ meta'[c] = meta[c]
      /\ age'[c] = age[c] /\ Owner(c)' = Owner(c) /\ (Used(c)' <=> Used(c))
      /\ (IsOpen(c)' <=> IsOpen(c)) /\ (NotHouse(c)' <=> NotHouse(c))
  BY DEF Same, Owner, Used, IsOpen, NotHouse
<1>2. (Touched(c)' <=> Touched(c)) /\ (BeingClosed(c)' <=> BeingClosed(c))
  BY TouchedSame DEF Same
<1>3. \A x \in Player : Holds(c, x)' <=> Holds(c, x)
  BY <1>1, HoldsSame DEF Same
<1>4. AnnouncedOK(c)'
  <2>1. SUFFICES ASSUME c \in announced, match[c].phase = "pending", timer[c] > 0, NotHouse(c)
                 PROVE  LocksHeld(c)'
    BY <1>1 DEF AnnouncedOK, Same
  <2>2. LocksHeld(c) /\ PartiesOK(c)
    BY <2>1 DEF ChallengeOK, AnnouncedOK, Used
  <2> QED
    BY <1>1, <1>3, <2>1, <2>2 DEF LocksHeld, PartiesOK, NotHouse
<1>5. ClosedOK(c)'
  BY <1>1, <1>2, <1>3 DEF ChallengeOK, ClosedOK, Settled
<1>6. CASE Used(c)
  <2>1. Progress(c)
    BY <1>1, <1>6 DEF Progress, Used, DistTypes
  <2>2. Goes(c)
    BY <1>1, <1>2, <1>4, <1>5, <1>6, <2>1 DEF Goes, Same
  <2> QED
    BY <2>2, ChallengeGoesOn
<1>7. CASE ~Used(c)
  <2>1. ~IsOpen(c) /\ match[c].phase = "unused"
    BY <1>7 DEF Used, IsOpen, Open
  <2>2. age[c] = 0 /\ meta[c] = "none" /\ c \notin announced
    BY <1>7 DEF ChallengeOK
  <2>3. BeatOK(c)' /\ SweepOK(c)' /\ ToldOK(c)'
    BY <1>1, <1>2, <1>7, <2>1, <2>2 DEF ChallengeOK, BeatOK, SweepOK, ToldOK, Same
  <2> QED
    BY <1>1, <1>4, <1>5, <1>7, <2>1, <2>2, <2>3 DEF ChallengeOK, Same
<1> QED
  BY <1>6, <1>7

-----------------------------------------------------------------------------
(* What a step of one server leaves in order. *)

(* What is known of a queued job and its challenge. *)
LEMMA JobKnown ==
    ASSUME DistInv, NEW s \in Server, NEW a \in AnyJob, In(queue[s], a)
    PROVE  /\ JobOK(s, a) /\ LocksOK(a) /\ a.c \in ChallengeId /\ Used(a.c)
           /\ Owner(a.c) = s /\ PartiesOK(a.c) /\ ChallengeOK(a.c) /\ Touched(a.c)
<1>1. JobOK(s, a) /\ LocksOK(a)
  BY DEF DistInv, QueueOK
<1>2. a.c \in ChallengeId
  BY DEF AnyJob
<1>3. Used(a.c) /\ Owner(a.c) = s
  BY <1>1 DEF JobOK
<1>4. ChallengeOK(a.c)
  BY <1>2 DEF DistInv
<1>5. PartiesOK(a.c)
  BY <1>3, <1>4 DEF ChallengeOK
<1>6. Touched(a.c)
  BY DEF Touched
<1> QED
  BY <1>1, <1>2, <1>3, <1>4, <1>5, <1>6

(* What is known of a job that awaits the chain. *)
LEMMA ChainKnown ==
    ASSUME DistInv, NEW s \in Server, NEW a \in onChain[s]
    PROVE  /\ JobOK(s, a) /\ a \in AnyJob /\ a.c \in ChallengeId /\ Used(a.c)
           /\ Owner(a.c) = s /\ PartiesOK(a.c) /\ ChallengeOK(a.c) /\ Touched(a.c)
<1>1. JobOK(s, a)
  BY DEF DistInv, ChainOK
<1>2. a \in AnyJob /\ a.c \in ChallengeId
  BY DEF AnyJob, DistInv, DistTypes
<1>3. Used(a.c) /\ Owner(a.c) = s
  BY <1>1 DEF JobOK
<1>4. ChallengeOK(a.c)
  BY <1>2 DEF DistInv
<1>5. PartiesOK(a.c)
  BY <1>3, <1>4 DEF ChallengeOK
<1>6. Touched(a.c)
  BY DEF Touched
<1> QED
  BY <1>1, <1>2, <1>3, <1>4, <1>5, <1>6

(* The jobs that were in a queue are still in order after a step. *)
LEMMA OldOrder ==
    ASSUME DistInv, NEW s \in Server, \A c \in ChallengeId : Progress(c)
    PROVE  Orderly(match', queue[s])
<1>1. queue[s] \in Seq(AnyJob) /\ Orderly(match, queue[s])
  BY DEF DistInv, DistTypes, QueueOK
<1>2. ASSUME NEW a \in AnyJob, In(queue[s], a)
      PROVE  match'[a.c].opponent = match[a.c].opponent
  BY <1>2, JobKnown DEF Progress
<1>3. \A a : In(queue[s], a) => match'[a.c].opponent = match[a.c].opponent
  BY <1>1, <1>2, InHasType
<1> QED
  BY <1>1, <1>3, OrderlyKept

(* A queue that waits stays in order. *)
LEMMA QueueWaits ==
    ASSUME DistInv, DistTypes', NEW s \in Server, \A c \in ChallengeId : Progress(c),
           queue'[s] = queue[s],
           \A a \in AnyJob : In(queue[s], a) => Kept(a) /\ LocksOK(a)'
    PROVE  QueueOK(s)'
<1>1. \A a \in AnyJob : In(queue[s], a) => JobOK(s, a)'
  BY JobKnown, JobKept DEF DistInv
<1>2. Orderly(match', queue[s])
  BY OldOrder
<1> QED
  BY <1>1, <1>2 DEF QueueOK

(* So do the jobs that await the chain, unless an earlier closing is        *)
(* overtaken.                                                               *)
LEMMA ChainGoesOn ==
    ASSUME DistInv, DistTypes', NEW s \in Server, \A c \in ChallengeId : Progress(c),
           onChain'[s] \subseteq onChain[s],
           \A j \in onChain'[s] : \A a \in AnyJob :
              Closing(j) /\ In(queue'[s], a) /\ a.c = j.c
                => In(queue[s], a) \/ (~Closing(a) /\ Ranked(match[j.c].opponent, a))
    PROVE  ChainOK(s)'
<1>1. ASSUME NEW j \in onChain'[s]
      PROVE  /\ JobOK(s, j)' /\ j.step = "status" /\ j.fn \in {"accept", "close", "counter"}
             /\ match'[j.c].staked /\ match'[j.c].opponent = match[j.c].opponent
  <2>1. j \in onChain[s] /\ j \in AnyJob /\ JobOK(s, j) /\ j.c \in ChallengeId /\ Used(j.c)
    BY ChainKnown
  <2>2. j.step = "status" /\ j.fn \in {"accept", "close", "counter"} /\ match[j.c].staked
    BY <2>1 DEF DistInv, ChainOK
  <2>3. Kept(j)
    BY <2>1, <2>2 DEF Kept
  <2> QED
    BY <2>1, <2>2, <2>3, JobKept DEF DistInv, Progress
<1>2. \A j, k \in onChain'[s] : Closing(j) /\ Closing(k) /\ j.c = k.c => j = k
  BY DEF DistInv, ChainOK
<1>3. ASSUME NEW j \in onChain'[s], NEW a \in AnyJob, Closing(j), In(queue'[s], a), a.c = j.c
      PROVE  ~Closing(a) /\ Ranked(match'[j.c].opponent, a)
  BY <1>1, <1>3 DEF DistInv, ChainOK
<1> QED
  BY <1>1, <1>2, <1>3 DEF ChainOK

(* A lock that is not written stays one of its challenge. *)
LEMMA LockGoesOn ==
    ASSUME DistInv, DistTypes', NEW p \in Player, \A c \in ChallengeId : Progress(c),
           lock'[p] = lock[p], lockTtl'[p] = lockTtl[p]
    PROVE  LockOK(p)'
<1>1. SUFFICES ASSUME lock[p] # NoLock
               PROVE  LET c == lock[p].challenge
                      IN  /\ Used(c)' /\ lock[p].server = Owner(c)' /\ p \in Parties(c)'
                          /\ NotHouse(c)'
                          /\ match'[c].phase = "pending" => timer'[c] <= lockTtl[p]
  BY DEF LockOK
<1> DEFINE c == lock[p].challenge
<1>2. LockOK(p) /\ lock[p] \in {Lock(d, s) : d \in ChallengeId, s \in Server}
  BY <1>1 DEF DistInv, DistTypes
<1>3. c \in ChallengeId
  BY <1>2 DEF Lock
<1>4. /\ Used(c) /\ lock[p].server = Owner(c) /\ p \in Parties(c) /\ NotHouse(c)
      /\ match[c].phase = "pending" => timer[c] <= lockTtl[p]
  BY <1>1, <1>2 DEF LockOK
<1>5. Progress(c)
  BY <1>3
<1>6. timer[c] \in Nat /\ timer'[c] \in Nat /\ lockTtl[p] \in Int
  BY <1>3, DistributedAssumption DEF DistInv, DistTypes
<1> QED
  BY <1>3, <1>4, <1>5, <1>6 DEF Progress, Used, Owner, Parties, NotHouse

-----------------------------------------------------------------------------
(* A job goes on to its next command. *)

(* What a step keeps of each server. *)
InOrder(t) == QueueOK(t) /\ ChainOK(t) /\ ServerOK(t)

(* The job at the head goes on as j. *)
Advances(s, j) ==
    /\ run[s] = "up" /\ queue[s] # <<>> /\ j \in AnyJob
    /\ j.c = HeadOf(s).c /\ j.fn = HeadOf(s).fn
    /\ j.step \in StepsOf(match[j.c].opponent, j.fn)
    /\ LET o == match[j.c].opponent
       IN  /\ Closing(j) => Rank(o, j) <= Rank(o, HeadOf(s)) + 1
           /\ ~Closing(j) => Rank(o, j) >= Rank(o, HeadOf(s)) + 1
    /\ queue' = [queue EXCEPT ![s] = Append(Tail(@), j)]
    /\ match' = match /\ timer' = timer /\ announced' = announced /\ told' = told
    /\ run' = run /\ beat' = beat /\ sweep' = sweep /\ onChain' = onChain
    /\ age'[j.c] = 0 \/ age'[j.c] = age[j.c]
    /\ \A c \in ChallengeId :
          c # j.c => meta'[c] = meta[c] /\ age'[c] = age[c] /\ SameLocks(c)

(* What holds of queues and challenges when a job goes on to its next       *)
(* command.                                                                 *)
LEMMA AdvanceOK ==
    ASSUME DistInv, DistTypes', NEW s \in Server, NEW j, Advances(s, j),
           \A a \in AnyJob : (In(Tail(queue[s]), a) \/ a = j) /\ a.c = j.c => LocksOK(a)',
           AnnouncedOK(j.c)'
    PROVE  (\A t \in Server : InOrder(t)') /\ (\A c \in ChallengeId : ChallengeOK(c)')
<1> DEFINE h == Head(queue[s])
<1>1. DistTypes /\ j \in AnyJob /\ j.c \in ChallengeId /\ j.c = h.c /\ j.fn = h.fn
  BY DEF DistInv, Advances, AnyJob, HeadOf
<1>2. /\ queue[s] \in Seq(AnyJob) /\ queue[s] # <<>> /\ Tail(queue[s]) \in Seq(AnyJob)
      /\ h \in AnyJob /\ In(queue[s], h)
      /\ queue'[s] = Append(Tail(queue[s]), j)
      /\ \A t \in Server : t # s => queue'[t] = queue[t]
  <2>1. queue[s] \in Seq(AnyJob) /\ queue[s] # <<>>
    BY DEF DistInv, DistTypes, Advances
  <2>2. /\ queue'[s] = Append(Tail(queue[s]), j)
        /\ \A t \in Server : t # s => queue'[t] = queue[t]
    BY DEF DistInv, DistTypes, Advances
  <2> QED
    BY <2>1, <2>2, HeadIsIn
<1>3. /\ JobOK(s, h) /\ Used(j.c) /\ Owner(j.c) = s /\ PartiesOK(j.c) /\ ChallengeOK(j.c)
      /\ Touched(j.c)
  BY <1>1, <1>2, JobKnown
<1>4. \A a \in AnyJob : In(queue[s], a) <=> a = h \/ In(Tail(queue[s]), a)
  BY <1>2, InTail
<1>5. \A a \in AnyJob : In(queue'[s], a) <=> In(Tail(queue[s]), a) \/ a = j
  <2>1. Tail(queue[s]) \in Seq(AnyJob) /\ j \in AnyJob
    BY <1>1, <1>2
  <2>2. \A a : In(Append(Tail(queue[s]), j), a) <=> In(Tail(queue[s]), a) \/ a = j
    BY <2>1, InAppended
  <2> QED
    BY <1>2, <2>2
<1>6. \A c \in ChallengeId : Progress(c)
  <2>1. match' = match /\ timer' = timer /\ \A c \in ChallengeId : timer[c] <= timer[c]
    BY DEF Advances, DistInv, DistTypes
  <2> QED
    BY <2>1 DEF Progress, Used
<1>7. \A a \in AnyJob : a.c \in ChallengeId /\ Used(a.c) => Kept(a)
  <2>1. SUFFICES ASSUME NEW a \in AnyJob, a.c \in ChallengeId
                 PROVE  Kept(a)
    OBVIOUS
  <2>2. age'[a.c] = 0 \/ age'[a.c] = age[a.c]
    BY <2>1 DEF Advances
  <2> QED
    BY <1>6, <2>1, <2>2 DEF Kept, Advances
<1> HIDE DEF h
<1>8. \A t \in Server : \A a \in AnyJob : In(queue[t], a) /\ a.c # j.c => LocksOK(a)'
  <2>1. SUFFICES ASSUME NEW t \in Server, NEW a \in AnyJob, In(queue[t], a), a.c # j.c
                 PROVE  LocksOK(a)'
    OBVIOUS
  <2>2. JobOK(t, a) /\ LocksOK(a) /\ a.c \in ChallengeId /\ PartiesOK(a.c) /\ Used(a.c)
    BY <2>1, JobKnown
  <2>3. SameLocks(a.c)
    BY <2>1, <2>2 DEF Advances
  <2> QED
    BY <1>1, <1>7, <2>2, <2>3, LocksKept
<1>9. QueueOK(s)'
  <2>1. ASSUME NEW a \in AnyJob, In(queue'[s], a)
        PROVE  JobOK(s, a)' /\ LocksOK(a)'
    <3>1. CASE a = j
      <4>1. JobOK(s, j)
        BY <1>1, <1>3 DEF JobOK, Advances, Closing
      <4> QED
        BY <1>1, <1>3, <1>7, <3>1, <4>1, JobKept
    <3>2. CASE In(Tail(queue[s]), a)
      <4>1. JobOK(s, a) /\ a.c \in ChallengeId /\ Used(a.c) /\ In(queue[s], a)
        BY <1>4, <3>2, JobKnown
      <4>2. JobOK(s, a)'
        BY <1>1, <1>7, <4>1, JobKept
      <4> QED
        BY <1>8, <3>2, <4>1, <4>2
    <3> QED
      BY <1>5, <2>1, <3>1, <3>2
  <2>2. Orderly(match', queue[s]) /\ match' = match
    BY <1>6, OldOrder DEF Advances
  <2>3. Orderly(match', queue'[s])
    <3>1. /\ Closing(j) => Rank(match[j.c].opponent, j) <= Rank(match[j.c].opponent, h) + 1
          /\ ~Closing(j) => Rank(match[j.c].opponent, j) >= Rank(match[j.c].opponent, h) + 1
      BY DEF Advances, h, HeadOf
    <3> QED
      BY <1>1, <1>2, <2>2, <3>1, OrderlyAdvance DEF h
  <2> QED
    BY <2>1, <2>3 DEF QueueOK
<1>10. \A t \in Server : t # s => QueueOK(t)'
  <2>1. SUFFICES ASSUME NEW t \in Server, t # s
                 PROVE  QueueOK(t)'
    OBVIOUS
  <2>2. ASSUME NEW a \in AnyJob, In(queue[t], a)
        PROVE  Kept(a) /\ LocksOK(a)'
    BY <1>3, <1>7, <1>8, <2>1, <2>2, JobKnown
  <2> QED
    BY <1>2, <1>6, <2>1, <2>2, QueueWaits
<1>11. \A t \in Server : ChainOK(t)'
  <2>1. SUFFICES ASSUME NEW t \in Server
                 PROVE  ChainOK(t)'
    OBVIOUS
  <2>2. onChain'[t] \subseteq onChain[t]
    BY DEF Advances
  <2>3. ASSUME NEW k \in onChain'[t], NEW a \in AnyJob, Closing(k), In(queue'[t], a), a.c = k.c
        PROVE  In(queue[t], a) \/ (~Closing(a) /\ Ranked(match[k.c].opponent, a))
    <3>1. SUFFICES ASSUME t = s, a = j
                   PROVE  ~Closing(j) /\ Ranked(match[k.c].opponent, j)
      BY <1>2, <1>4, <1>5, <2>3
    <3>2. ~Closing(h) /\ Ranked(match[k.c].opponent, h)
      BY <1>1, <1>2, <2>3, <3>1 DEF DistInv, ChainOK, Advances
    <3>3. ~Closing(j)
      BY <1>1, <3>2 DEF Closing
    <3>4. Rank(match[j.c].opponent, j) >= Rank(match[j.c].opponent, h) + 1
      BY <3>3 DEF Advances, h, HeadOf
    <3>5. /\ Rank(match[j.c].opponent, j) \in 1 .. 6
          /\ Rank(match[j.c].opponent, h) \in 1 .. 6
      BY RankType
    <3> QED
      BY <2>3, <3>1, <3>2, <3>3, <3>4, <3>5 DEF Ranked
  <2> QED
    BY <1>6, <2>2, <2>3, ChainGoesOn
<1>12. \A t \in Server : ServerOK(t)'
  BY <1>2 DEF DistInv, ServerOK, Advances
<1>13. \A t \in Server : beat'[t] \in 0 .. BeatTicks /\ beat'[t] >= beat[t]
  BY DistributedAssumption DEF Advances, DistInv, DistTypes
<1>14. ChallengeOK(j.c)'
  <2>1. h \in AnyJob /\ In(queue[s], h) /\ (Closing(h) <=> Closing(j)) /\ In(queue'[s], j)
    BY <1>1, <1>2, <1>5 DEF Closing
  <2>2. ClosedOK(j.c)'
    <3>1. SUFFICES ASSUME match[j.c].phase \in {"void", "resolved"}, ~match[j.c].staked
                   PROVE  BeingClosed(j.c)'
      BY DEF ClosedOK, Advances
    <3>2. BeingClosed(j.c)
      BY <1>1, <1>3, <3>1 DEF DistInv, ChallengeOK, ClosedOK, Settled
    <3>3. PICK t \in Server, b \in AnyJob : In(queue[t], b) /\ b.c = j.c /\ Closing(b)
      BY <3>2 DEF BeingClosed
    <3>4. t = s
      BY <1>3, <3>3, JobKnown
    <3>5. CASE b = h
      BY <1>1, <2>1, <3>3, <3>5 DEF BeingClosed
    <3>6. CASE b # h
      BY <1>4, <1>5, <3>3, <3>4, <3>6 DEF BeingClosed
    <3> QED
      BY <3>5, <3>6
  <2>3. Goes(j.c)
    BY <1>1, <1>3, <1>6, <2>2 DEF Goes, Advances
  <2> QED
    BY <1>1, <1>3, <1>13, <2>3, ChallengeGoesOn DEF Advances
<1>15. \A c \in ChallengeId : c # j.c => ChallengeOK(c)'
  <2>1. SUFFICES ASSUME NEW c \in ChallengeId, c # j.c
                 PROVE  ChallengeOK(c)'
    OBVIOUS
  <2>2. SameJobs(c)
    BY <1>1, <1>2, <1>4, <1>5, <2>1 DEF SameJobs, Advances
  <2>3. Same(c)
    BY <2>1, <2>2 DEF Same, Advances
  <2> QED
    BY <1>1, <1>13, <2>1, <2>3, ChallengeSame DEF DistInv, Advances
<1> QED
  BY <1>9, <1>10, <1>11, <1>12, <1>14, <1>15 DEF InOrder

-----------------------------------------------------------------------------
(* Types. *)

(* The type of a match. *)
MatchType ==
    [phase : {"unused", "void", "resolved", "lost"} \cup Open,
     challenger : Player \cup {Nobody}, opponent : Player \cup {House, Nobody},
     owner : Server \cup {NoServer}, staked : BOOLEAN]

(* A challenge that is created gets an id that was not used. *)
LEMMA NextIdIsFresh ==
    ASSUME Fresh # {}
    PROVE  NextId \in ChallengeId /\ ~Used(NextId)
<1>1. Fresh \subseteq Nat
  BY DistributedAssumption DEF Fresh, ChallengeId
<1>2. \E c \in Fresh : \A d \in Fresh : c <= d
  BY <1>1, LeastOfNaturals
<1>3. NextId \in Fresh
  BY <1>2 DEF NextId
<1> QED
  BY <1>3 DEF Fresh, Used

(* A job is a record of its parts. *)
LEMMA JobType ==
    ASSUME NEW c \in ChallengeId, NEW fn \in {"create", "accept", "move", "close", "counter"},
           NEW step \in {"lockFirst", "lockSecond", "probeFirst", "probeSecond", "rollback",
                   "register", "push", "trim", "status", "getFirst", "delFirst",
                   "getSecond", "delSecond", "clear"}
    PROVE  /\ Job(c, fn, step) \in AnyJob
           /\ Job(c, fn, step).c = c /\ Job(c, fn, step).fn = fn
           /\ Job(c, fn, step).step = step
BY DEF Job, AnyJob

(* So is the one that registers a new challenge. *)
LEMMA CreateJobType ==
    ASSUME NEW c \in ChallengeId, NEW o
    PROVE  /\ CreateJob(c, o) \in AnyJob
           /\ CreateJob(c, o).c = c /\ CreateJob(c, o).fn = "create"
           /\ CreateJob(c, o).step = IF o = House THEN "register" ELSE "lockFirst"
BY JobType DEF CreateJob

(* Appending jobs and taking the head leave queues of jobs. *)
LEMMA QueueType ==
    ASSUME queue \in [Server -> Seq(AnyJob)], NEW s \in Server
    PROVE  /\ \A j \in AnyJob : [queue EXCEPT ![s] = Append(@, j)] \in [Server -> Seq(AnyJob)]
           /\ queue[s] # <<>> =>
                /\ HeadOf(s) \in AnyJob /\ HeadOf(s).c \in ChallengeId
                /\ HeadOf(s).fn \in {"create", "accept", "move", "close", "counter"}
                /\ In(queue[s], HeadOf(s))
                /\ [queue EXCEPT ![s] = Tail(@)] \in [Server -> Seq(AnyJob)]
                /\ \A j \in AnyJob :
                     [queue EXCEPT ![s] = Append(Tail(@), j)] \in [Server -> Seq(AnyJob)]
<1>1. queue[s] \in Seq(AnyJob)
  OBVIOUS
<1>2. \A j \in AnyJob : Append(queue[s], j) \in Seq(AnyJob)
  BY <1>1
<1>3. ASSUME queue[s] # <<>>
      PROVE  HeadOf(s) \in AnyJob /\ In(queue[s], HeadOf(s)) /\ Tail(queue[s]) \in Seq(AnyJob)
  BY <1>1, <1>3, HeadIsIn DEF HeadOf
<1>4. ASSUME queue[s] # <<>>
      PROVE  \A j \in AnyJob : Append(Tail(queue[s]), j) \in Seq(AnyJob)
  BY <1>3, <1>4
<1>5. ASSUME queue[s] # <<>>
      PROVE  /\ HeadOf(s).c \in ChallengeId
             /\ HeadOf(s).fn \in {"create", "accept", "move", "close", "counter"}
  BY <1>3, <1>5 DEF AnyJob
<1> QED
  BY <1>2, <1>3, <1>4, <1>5

(* Writing a phase leaves matches. *)
LEMMA PhaseType ==
    ASSUME match \in [ChallengeId -> MatchType], NEW c \in ChallengeId,
           NEW phase \in {"unused", "void", "resolved", "lost"} \cup Open
    PROVE  /\ [match EXCEPT ![c].phase = phase] \in [ChallengeId -> MatchType]
           /\ \A d \in ChallengeId : d # c => [match EXCEPT ![c].phase = phase][d] = match[d]
           /\ LET m == [match EXCEPT ![c].phase = phase][c]
              IN  /\ m.phase = phase /\ m.challenger = match[c].challenger
                  /\ m.opponent = match[c].opponent /\ m.owner = match[c].owner
                  /\ m.staked = match[c].staked
BY DEF MatchType

(* So does creating one. *)
LEMMA CreatedType ==
    ASSUME match \in [ChallengeId -> MatchType], Fresh # {}, NEW s \in Server, NEW p \in Player,
           NEW q \in Player \cup {House}, NEW staked \in BOOLEAN
    PROVE  /\ Created(s, p, q, staked) \in [ChallengeId -> MatchType]
           /\ \A d \in ChallengeId : d # NextId => Created(s, p, q, staked)[d] = match[d]
           /\ Created(s, p, q, staked)[NextId] =
                 [phase |-> "pending", challenger |-> p, opponent |-> q, owner |-> s,
                  staked |-> staked]
<1>1. NextId \in ChallengeId
  BY NextIdIsFresh
<1> QED
  BY <1>1 DEF Created, MatchType, Open

(* What is known of the job at the head of a queue. *)
LEMMA HeadKnown ==
    ASSUME DistInv, NEW s \in Server, queue[s] # <<>>
    PROVE  /\ HeadOf(s) \in AnyJob /\ HeadOf(s).c \in ChallengeId /\ In(queue[s], HeadOf(s))
           /\ JobOK(s, HeadOf(s)) /\ LocksOK(HeadOf(s)) /\ Used(HeadOf(s).c)
           /\ Owner(HeadOf(s).c) = s /\ PartiesOK(HeadOf(s).c) /\ ChallengeOK(HeadOf(s).c)
           /\ Touched(HeadOf(s).c)
<1>1. HeadOf(s) \in AnyJob /\ In(queue[s], HeadOf(s))
  BY QueueType DEF DistInv, DistTypes
<1> QED
  BY <1>1, JobKnown

(* The closings of one tick can be listed. *)
LEMMA TickJobs ==
    ASSUME NEW S \in SUBSET ChallengeId
    PROVE  LET J == {Job(c, "close", "push") : c \in S}
           IN  IsFiniteSet(J) /\ J \subseteq AnyJob /\ SetToSeq(J) \in Seq(AnyJob)
<1> DEFINE J == {Job(c, "close", "push") : c \in S}
<1>1. IsFiniteSet(ChallengeId)
  BY DistributedAssumption, FS_Interval DEF ChallengeId
<1>2. IsFiniteSet(S)
  BY <1>1, FS_Subset
<1>3. IsFiniteSet(J)
  <2> DEFINE f == [c \in S |-> Job(c, "close", "push")]
  <2>1. f \in Surjection(S, J)
    BY DEF Surjection
  <2> QED
    BY <1>2, <2>1, FS_Surjection
<1>4. J \subseteq AnyJob
  BY JobType
<1> QED
  BY <1>3, <1>4, ListedOnce

-----------------------------------------------------------------------------
(* The commands of a job, one by one. *)

(* The job at the head of the queue of s goes on to step, locks aside.      *)
Steps(s, step) ==
    /\ run[s] = "up" /\ queue[s] # <<>> /\ GoOn(s, step)
    /\ UNCHANGED <<beat, UnlessMatch, NotRedis>>
    /\ LET h == HeadOf(s)
           j == Job(h.c, h.fn, step)
           o == match[h.c].opponent
       IN  /\ step \in StepsOf(o, h.fn)
           /\ Closing(j) => Rank(o, j) <= Rank(o, h) + 1
           /\ ~Closing(j) => Rank(o, j) >= Rank(o, h) + 1
           /\ age' = age \/ age' = [age EXCEPT ![h.c] = 0]
           /\ meta' = meta \/ \E m \in {"none", "partial", "open", "closed"} :
                                 meta' = [meta EXCEPT ![h.c] = m]

(* The head of the queue of s, at its next command. *)
NextJob(s, step) == Job(HeadOf(s).c, HeadOf(s).fn, step)

(* Types and parts of a step to the next command. *)
LEMMA StepsKnown ==
    ASSUME DistInv, NEW s \in Server,
           NEW step \in {"lockFirst", "lockSecond", "probeFirst", "probeSecond", "rollback",
                   "register", "push", "trim", "status", "getFirst", "delFirst",
                   "getSecond", "delSecond", "clear"},
           Steps(s, step),
           \A c \in ChallengeId : c # HeadOf(s).c => SameLocks(c),
           lock' \in [Player -> {NoLock} \cup {Lock(c, t) : c \in ChallengeId, t \in Server}],
           lockTtl' \in [Player -> 0 .. LockTicks]
    PROVE  /\ DistTypes' /\ Advances(s, NextJob(s, step))
           /\ NextJob(s, step) \in AnyJob /\ NextJob(s, step).c = HeadOf(s).c
           /\ NextJob(s, step).fn = HeadOf(s).fn /\ NextJob(s, step).step = step
<1> DEFINE j == NextJob(s, step)
           c0 == HeadOf(s).c
<1>1. DistTypes /\ queue[s] # <<>> /\ queue \in [Server -> Seq(AnyJob)]
  BY DEF DistInv, DistTypes, Steps
<1>2. c0 \in ChallengeId /\ HeadOf(s).fn \in {"create", "accept", "move", "close", "counter"}
  BY <1>1, QueueType
<1>3. j \in AnyJob /\ j.c = c0 /\ j.fn = HeadOf(s).fn /\ j.step = step
  BY <1>2, JobType DEF NextJob
<1>4. queue' = [queue EXCEPT ![s] = Append(Tail(@), j)]
  BY DEF Steps, GoOn, Continued, NextJob
<1>5. queue' \in [Server -> Seq(AnyJob)]
  BY <1>1, <1>3, <1>4, QueueType
<1>6. age' \in [ChallengeId -> 0 .. GraceTicks] /\ (age'[c0] = 0 \/ age'[c0] = age[c0])
      /\ \A c \in ChallengeId : c # c0 => age'[c] = age[c]
  <2>1. 0 \in 0 .. GraceTicks /\ age \in [ChallengeId -> 0 .. GraceTicks]
    BY <1>1, DistributedAssumption DEF DistTypes
  <2>2. age' = age \/ age' = [age EXCEPT ![c0] = 0]
    BY DEF Steps
  <2>3. CASE age' = age
    BY <2>1, <2>3
  <2>4. CASE age' = [age EXCEPT ![c0] = 0]
    BY <1>2, <2>1, <2>4
  <2> QED
    BY <2>2, <2>3, <2>4
<1>7. meta' \in [ChallengeId -> {"none", "partial", "open", "closed"}]
      /\ \A c \in ChallengeId : c # c0 => meta'[c] = meta[c]
  <2>1. meta \in [ChallengeId -> {"none", "partial", "open", "closed"}]
    BY <1>1 DEF DistTypes
  <2>2. \/ meta' = meta
        \/ \E m \in {"none", "partial", "open", "closed"} : meta' = [meta EXCEPT ![c0] = m]
    BY DEF Steps
  <2> QED
    BY <1>2, <2>1, <2>2
<1>8. /\ UNCHANGED <<match, timer, moved, announced, escrowed, run, crashes, home>>
      /\ UNCHANGED <<onChain, sweep, beat, commands, told>>
  BY DEF Steps, UnlessMatch, NotRedis, nodes
<1>9. DistTypes'
  BY <1>1, <1>5, <1>6, <1>7, <1>8 DEF DistTypes, Open
<1>10. Advances(s, j)
  <2>1. /\ run[s] = "up" /\ step \in StepsOf(match[c0].opponent, HeadOf(s).fn)
        /\ Closing(j) => Rank(match[c0].opponent, j) <= Rank(match[c0].opponent, HeadOf(s)) + 1
        /\ ~Closing(j) => Rank(match[c0].opponent, j) >= Rank(match[c0].opponent, HeadOf(s)) + 1
    BY DEF Steps, NextJob
  <2> HIDE DEF j
  <2> QED
    BY <1>1, <1>3, <1>4, <1>6, <1>7, <1>8, <2>1 DEF Advances
<1> QED
  BY <1>3, <1>9, <1>10

(* A command that writes no lock keeps the invariant. *)
LEMMA StepsQuietly ==
    ASSUME DistInv, NEW s \in Server,
           NEW step \in {"lockFirst", "lockSecond", "probeFirst", "probeSecond", "rollback",
                   "register", "push", "trim", "status", "getFirst", "delFirst",
                   "getSecond", "delSecond", "clear"},
           Steps(s, step), lock' = lock, lockTtl' = lockTtl, LocksOK(NextJob(s, step))
    PROVE  DistInv'
<1> SUFFICES ASSUME NEW j, j = NextJob(s, step), NEW c0, c0 = HeadOf(s).c
             PROVE  DistInv'
  OBVIOUS
<1>1. DistTypes /\ queue[s] # <<>>
  BY DEF DistInv, Steps
<1>2. \A c \in ChallengeId : SameLocks(c)
  BY DEF SameLocks
<1>3. /\ lock' \in [Player -> {NoLock} \cup {Lock(c, t) : c \in ChallengeId, t \in Server}]
      /\ lockTtl' \in [Player -> 0 .. LockTicks]
  BY <1>1 DEF DistTypes
<1>4. DistTypes' /\ Advances(s, j) /\ j \in AnyJob /\ j.c = c0
  BY <1>2, <1>3, StepsKnown
<1>5. c0 \in ChallengeId /\ ChallengeOK(c0)
  BY <1>1, HeadKnown
<1>6. match' = match /\ timer' = timer /\ announced' = announced
  BY <1>4 DEF Advances
<1>7. \A a : LocksOK(a) => LocksOK(a)'
  BY <1>6 DEF LocksOK, Holds, LocksHeld, Owner
<1>8. ASSUME NEW a \in AnyJob, In(Tail(queue[s]), a) \/ a = j
      PROVE  LocksOK(a)'
  <2>1. CASE a = j
    BY <1>7, <2>1
  <2>2. CASE In(Tail(queue[s]), a)
    <3>1. In(queue[s], a)
      BY <1>1, <2>2, InTail DEF DistTypes
    <3> QED
      BY <1>7, <3>1, JobKnown
  <2> QED
    BY <1>8, <2>1, <2>2
<1>9. AnnouncedOK(c0)'
  BY <1>5, <1>6 DEF ChallengeOK, AnnouncedOK, NotHouse, LocksHeld, Holds, Owner
<1>10. (\A t \in Server : InOrder(t)') /\ (\A c \in ChallengeId : ChallengeOK(c)')
  BY <1>4, <1>8, <1>9, AdvanceOK
<1>11. \A c \in ChallengeId : Progress(c)
  <2>1. \A c \in ChallengeId : timer[c] <= timer[c]
    BY <1>1 DEF DistTypes
  <2> QED
    BY <1>6, <2>1 DEF Progress, Used
<1>12. \A p \in Player : LockOK(p)'
  BY <1>4, <1>11, LockGoesOn
<1> QED
  BY <1>4, <1>10, <1>12 DEF DistInv, InOrder

(* What a lock says when it is held. *)
LEMMA LockKnown ==
    ASSUME DistInv, NEW p \in Player, NEW c \in ChallengeId, NEW s \in Server,
           lock[p] = Lock(c, s)
    PROVE  Used(c) /\ s = Owner(c) /\ p \in Parties(c) /\ NotHouse(c) /\ lock[p] # NoLock
<1>1. c # 0 /\ lock[p].challenge = c /\ lock[p].server = s
  BY DistributedAssumption DEF ChallengeId, Lock
<1>2. lock[p] # NoLock
  BY <1>1 DEF NoLock
<1>3. LockOK(p)
  BY DEF DistInv
<1> QED
  BY <1>1, <1>2, <1>3 DEF LockOK

(* Locks are equal when challenge and server are. *)
LEMMA LocksAreEqual ==
    ASSUME NEW c, NEW s, NEW d, NEW t
    PROVE  /\ (Lock(c, s) = Lock(d, t)) <=> (c = d /\ s = t)
           /\ c \in ChallengeId => Lock(c, s) # NoLock
BY DistributedAssumption DEF Lock, NoLock, ChallengeId

(* A command that sets or deletes a lock. *)
LEMMA StepsLocking ==
    ASSUME DistInv, NEW s \in Server,
           NEW step \in {"lockFirst", "lockSecond", "probeFirst", "probeSecond", "rollback",
                   "register", "push", "trim", "status", "getFirst", "delFirst",
                   "getSecond", "delSecond", "clear"},
           Steps(s, step), NEW p \in Player, NEW c0, c0 = HeadOf(s).c,
           NEW v \in {NoLock, Lock(c0, s)}, NEW w \in 0 .. LockTicks,
           lock' = [lock EXCEPT ![p] = v], lockTtl' = [lockTtl EXCEPT ![p] = w],
           lock[p] \in {NoLock, Lock(c0, s)},
           NEW j, j = NextJob(s, step),
           LocksOK(j)', AnnouncedOK(c0)', LockOK(p)',
           \A a \in AnyJob : In(Tail(queue[s]), a) /\ a.c = c0 => LocksOK(a)'
    PROVE  DistInv'
<1>1. DistTypes /\ queue[s] # <<>>
  BY DEF DistInv, Steps
<1>2. c0 \in ChallengeId /\ Used(c0) /\ Owner(c0) = s
  BY <1>1, HeadKnown
<1>3. \A c \in ChallengeId : c # c0 => SameLocks(c)
  BY <1>1, <1>2, LocksAreEqual DEF SameLocks, DistTypes
<1>4. /\ lock' \in [Player -> {NoLock} \cup {Lock(c, t) : c \in ChallengeId, t \in Server}]
      /\ lockTtl' \in [Player -> 0 .. LockTicks]
  BY <1>1, <1>2 DEF DistTypes
<1>5. DistTypes' /\ Advances(s, j) /\ j \in AnyJob /\ j.c = c0
  BY <1>3, <1>4, StepsKnown
<1>6. match' = match /\ timer' = timer
  BY <1>5 DEF Advances
<1>7. \A a \in AnyJob : (In(Tail(queue[s]), a) \/ a = j) /\ a.c = j.c => LocksOK(a)'
  BY <1>5
<1>8. AnnouncedOK(j.c)'
  BY <1>5
<1>9. (\A t \in Server : InOrder(t)') /\ (\A c \in ChallengeId : ChallengeOK(c)')
  BY <1>5, <1>7, <1>8, AdvanceOK
<1>10. \A c \in ChallengeId : Progress(c)
  <2>1. \A c \in ChallengeId : timer[c] <= timer[c]
    BY <1>1 DEF DistTypes
  <2> QED
    BY <1>6, <2>1 DEF Progress, Used
<1>11. \A x \in Player : LockOK(x)'
  <2>1. SUFFICES ASSUME NEW x \in Player, x # p
                 PROVE  LockOK(x)'
    OBVIOUS
  <2>2. lock'[x] = lock[x] /\ lockTtl'[x] = lockTtl[x]
    BY <1>1, <2>1 DEF DistTypes
  <2> QED
    BY <1>5, <1>10, <2>2, LockGoesOn
<1> QED
  BY <1>5, <1>9, <1>11 DEF DistInv, InOrder

(* Which job issues which command. *)
LEMMA WhichJob ==
    ASSUME NEW s, NEW j \in AnyJob, JobOK(s, j)
    PROVE  /\ j.step \in {"lockFirst", "lockSecond", "probeFirst", "probeSecond", "rollback"}
                => j.fn = "create" /\ match[j.c].opponent # House
           /\ j.step = "register" => j.fn = "create"
           /\ j.step \in {"getFirst", "delFirst", "getSecond", "delSecond", "clear"}
                => Closing(j)
           /\ j.step \in {"getSecond", "delSecond"} => match[j.c].opponent # House
           /\ j.fn = "create" => ~Closing(j)
BY DEF JobOK, StepsOf, Closing, AnyJob

(* The jobs of a challenge that wait behind one that registers it claim no  *)
(* lock.                                                                    *)
LEMMA BehindRegistration ==
    ASSUME DistInv, NEW s \in Server, queue[s] # <<>>,
           HeadOf(s).step \in {"lockFirst", "lockSecond", "rollback"},
           NEW a \in AnyJob, In(Tail(queue[s]), a), a.c = HeadOf(s).c
    PROVE  a.fn # "create" /\ a.step \in {"push", "trim", "status", "getFirst"}
<1> DEFINE h == HeadOf(s)
           o == match[a.c].opponent
<1>1. /\ queue[s] \in Seq(AnyJob) /\ h \in AnyJob /\ JobOK(s, h)
  BY HeadKnown DEF DistInv, DistTypes
<1>2. Ahead(queue[s], h, a)
  BY <1>1, AheadTail DEF HeadOf
<1>3. Pair(o, h, a)
  BY <1>1, <1>2 DEF DistInv, QueueOK, Orderly
<1>4. In(queue[s], a)
  BY <1>1, InTail
<1>5. JobOK(s, a)
  BY <1>4, JobKnown
<1>6. h.fn = "create" /\ ~Closing(h)
  BY <1>1, WhichJob
<1>7. Rank(o, h) <= 4
  BY <1>6 DEF Rank
<1>8. CASE Closing(a)
  <2>1. Rank(o, h) >= Rank(o, a) /\ Rank(o, h) \in 1 .. 6 /\ Rank(o, a) \in 1 .. 6
    BY <1>3, <1>8, RankType DEF Pair
  <2>2. Rank(o, a) <= 4
    BY <1>7, <2>1
  <2>3. o # House
    BY <1>1, WhichJob
  <2>4. a.step \in {"push", "trim", "status", "getFirst"}
    BY <1>8, <2>2, <2>3 DEF Rank
  <2> QED
    BY <1>8, <2>4 DEF Closing
<1>9. CASE ~Closing(a)
  BY <1>3, <1>5, <1>6, <1>9 DEF Pair, JobOK, StepsOf, Closing, AnyJob
<1> QED
  BY <1>8, <1>9

(* Nor do those behind one that releases it. *)
LEMMA BehindRelease ==
    ASSUME DistInv, NEW s \in Server, queue[s] # <<>>,
           HeadOf(s).step \in {"delFirst", "delSecond"},
           NEW a \in AnyJob, In(Tail(queue[s]), a), a.c = HeadOf(s).c
    PROVE  ~Closing(a) /\ a.step \in {"push", "trim", "status"}
<1> DEFINE h == HeadOf(s)
           o == match[a.c].opponent
<1>1. /\ queue[s] \in Seq(AnyJob) /\ h \in AnyJob /\ JobOK(s, h)
  BY HeadKnown DEF DistInv, DistTypes
<1>2. Ahead(queue[s], h, a)
  BY <1>1, AheadTail DEF HeadOf
<1>3. Pair(o, h, a)
  BY <1>1, <1>2 DEF DistInv, QueueOK, Orderly
<1>4. In(queue[s], a)
  BY <1>1, InTail
<1>5. JobOK(s, a)
  BY <1>4, JobKnown
<1>6. Closing(h)
  BY <1>1, WhichJob
<1>7. Rank(o, h) >= 5
  BY <1>6 DEF Rank
<1>8. ~Closing(a) /\ Rank(o, a) >= Rank(o, h) + 1
  BY <1>3, <1>6 DEF Pair
<1>9. Rank(o, a) >= 6
  BY <1>7, <1>8, RankType
<1>10. a.step \notin {"lockFirst", "lockSecond", "probeFirst", "register", "probeSecond",
                     "rollback"}
  BY <1>8, <1>9 DEF Rank
<1> QED
  BY <1>5, <1>8, <1>10 DEF JobOK, StepsOf, Closing, AnyJob

(* What is known when a command is executed. *)
LEMMA AtKnown ==
    ASSUME NEW s, NEW step, At(s, step)
    PROVE  run[s] = "up" /\ queue[s] # <<>> /\ HeadOf(s).step = step
BY DEF At, HeadOf

(* The job on its next command is that of the head. *)
LEMMA NextJobIs ==
    ASSUME DistInv, NEW s \in Server, queue[s] # <<>>,
           NEW step \in {"lockFirst", "lockSecond", "probeFirst", "probeSecond", "rollback",
                   "register", "push", "trim", "status", "getFirst", "delFirst",
                   "getSecond", "delSecond", "clear"}
    PROVE  /\ NextJob(s, step) \in AnyJob /\ NextJob(s, step).c = HeadOf(s).c
           /\ NextJob(s, step).fn = HeadOf(s).fn /\ NextJob(s, step).step = step
           /\ Job(HeadOf(s).c, HeadOf(s).fn, step) = NextJob(s, step)
           /\ Closing(NextJob(s, step)) <=> Closing(HeadOf(s))
<1>1. /\ HeadOf(s).c \in ChallengeId
      /\ HeadOf(s).fn \in {"create", "accept", "move", "close", "counter"}
  BY QueueType DEF DistInv, DistTypes
<1> QED
  BY <1>1, JobType DEF NextJob, Closing

(* SET NX keeps the invariant: it takes no lock from another challenge. *)
LEMMA SetLockInv ==
    ASSUME DistInv, NEW s \in Server, queue[s] # <<>>, run[s] = "up",
           NEW p, NEW won, NEW lost,
           \/ /\ HeadOf(s).step = "lockFirst" /\ p = match[HeadOf(s).c].challenger
              /\ won = "lockSecond" /\ lost = "probeFirst"
           \/ /\ HeadOf(s).step = "lockSecond" /\ p = match[HeadOf(s).c].opponent
              /\ won = "register" /\ lost = "probeSecond",
           SetLock(s, p, won, lost),
           UNCHANGED <<meta, age, beat, UnlessMatch, NotRedis>>
    PROVE  DistInv'
<1> DEFINE h == HeadOf(s)
           o == match[h.c].opponent
<1> SUFFICES ASSUME NEW c0, c0 = HeadOf(s).c
             PROVE  DistInv'
  OBVIOUS
<1>1. /\ h \in AnyJob /\ c0 \in ChallengeId /\ JobOK(s, h) /\ LocksOK(h) /\ Used(c0)
      /\ Owner(c0) = s /\ PartiesOK(c0) /\ ChallengeOK(c0)
  BY HeadKnown
<1>2. h.fn = "create" /\ match[c0].opponent # House /\ ~Closing(h)
  BY <1>1, WhichJob
<1>3. p \in Player
  BY <1>1, <1>2 DEF PartiesOK
<1>4. DistTypes
  BY DEF DistInv
<1>5. CASE lock[p] = NoLock
  <2>1. GoOn(s, won) /\ lock' = [lock EXCEPT ![p] = Lock(c0, s)]
        /\ lockTtl' = [lockTtl EXCEPT ![p] = LockTicks]
    BY <1>5 DEF SetLock
  <2> SUFFICES ASSUME NEW j, j = NextJob(s, won)
               PROVE  DistInv'
    OBVIOUS
  <2>2. j \in AnyJob /\ j.c = c0 /\ j.fn = "create" /\ j.step = won /\ ~Closing(j)
    BY <1>2, NextJobIs
  <2>3. Steps(s, won)
    <3>1. won \in StepsOf(o, h.fn)
      BY <1>2 DEF StepsOf
    <3>2. Rank(o, j) >= Rank(o, h) + 1
      BY <1>2, <2>2 DEF Rank
    <3> QED
      BY <2>1, <2>2, <3>1, <3>2, NextJobIs DEF Steps
  <2>4. LockTicks \in 0 .. LockTicks
    BY DistributedAssumption
  <2>5. match' = match /\ timer' = timer /\ announced' = announced
    BY DEF UnlessMatch, NotRedis
  <2>6. /\ lock'[p] = Lock(c0, s) /\ lockTtl'[p] = LockTicks
        /\ \A x \in Player : x # p => lock'[x] = lock[x]
    BY <1>3, <1>4, <2>1 DEF DistTypes
  <2>7. \A x \in Player : Holds(c0, x) => Holds(c0, x)'
    BY <1>1, <2>5, <2>6 DEF Holds, Owner
  <2>8. Holds(c0, p)'
    BY <1>1, <2>5, <2>6 DEF Holds, Owner
  <2>9. LocksOK(j)'
    <3>1. HeadOf(s).step = "lockSecond" => Holds(c0, match[c0].challenger)
      BY <1>1 DEF LocksOK
    <3>2. CASE won = "lockSecond"
      BY <2>2, <2>5, <2>8, <3>2 DEF LocksOK
    <3>3. CASE won = "register"
      <4>1. LocksHeld(c0)'
        BY <1>1, <2>5, <2>7, <2>8, <3>1, <3>3 DEF LocksHeld, PartiesOK
      <4> QED
        BY <2>2, <3>3, <4>1 DEF LocksOK
    <3> QED
      BY <3>2, <3>3
  <2>10. AnnouncedOK(c0)'
    BY <1>1, <1>2, <2>5 DEF JobOK, AnnouncedOK
  <2>11. LockOK(p)'
    <3>1. lock'[p].challenge = c0 /\ lock'[p].server = s
      BY <2>6 DEF Lock
    <3>2. p \in Parties(c0) /\ NotHouse(c0) /\ s = Owner(c0)
      BY <1>1, <1>2 DEF Parties, NotHouse
    <3>3. match[c0].phase = "pending" => timer[c0] <= LockTicks
      <4>1. timer[c0] \in Nat /\ (match[c0].phase = "pending" => timer[c0] <= PendingTicks)
        BY <1>1, <1>4 DEF ChallengeOK, DistTypes
      <4> QED
        BY <4>1, DistributedAssumption
    <3> QED
      BY <1>1, <2>5, <2>6, <3>1, <3>2, <3>3 DEF LockOK, Used, Owner, Parties, NotHouse
  <2>12. ASSUME NEW a \in AnyJob, In(Tail(queue[s]), a), a.c = c0
         PROVE  LocksOK(a)'
    BY <2>12, BehindRegistration DEF LocksOK
  <2> QED
    BY <1>3, <1>5, <2>1, <2>3, <2>4, <2>9, <2>10, <2>11, <2>12, StepsLocking
<1>6. CASE lock[p] # NoLock
  <2>1. GoOn(s, lost) /\ lock' = lock /\ lockTtl' = lockTtl
    BY <1>6 DEF SetLock
  <2>2. /\ NextJob(s, lost).c = c0 /\ NextJob(s, lost).fn = "create"
        /\ NextJob(s, lost).step = lost /\ ~Closing(NextJob(s, lost))
    BY <1>2, NextJobIs
  <2>3. Steps(s, lost)
    <3>1. lost \in StepsOf(o, h.fn)
      BY <1>2 DEF StepsOf
    <3>2. Rank(o, NextJob(s, lost)) >= Rank(o, h) + 1
      BY <1>2, <2>2 DEF Rank
    <3> QED
      BY <2>1, <2>2, <3>1, <3>2, NextJobIs DEF Steps
  <2>4. LocksOK(NextJob(s, lost))
    BY <1>1, <2>2 DEF LocksOK
  <2> QED
    BY <2>1, <2>3, <2>4, StepsQuietly
<1> QED
  BY <1>5, <1>6

(* The challenger's lock. *)
LEMMA LockFirstInv ==
    ASSUME DistInv, NEW s \in Server, LockFirst(s)
    PROVE  DistInv'
<1>1. run[s] = "up" /\ queue[s] # <<>> /\ HeadOf(s).step = "lockFirst"
  BY AtKnown DEF LockFirst
<1> QED
  BY <1>1, SetLockInv DEF LockFirst

(* The opponent's. *)
LEMMA LockSecondInv ==
    ASSUME DistInv, NEW s \in Server, LockSecond(s)
    PROVE  DistInv'
<1>1. run[s] = "up" /\ queue[s] # <<>> /\ HeadOf(s).step = "lockSecond"
  BY AtKnown DEF LockSecond
<1> QED
  BY <1>1, SetLockInv DEF LockSecond

(* Looking at who holds the opponent's lock writes nothing. *)
LEMMA ProbeSecondInv ==
    ASSUME DistInv, NEW s \in Server, ProbeSecond(s)
    PROVE  DistInv'
<1> DEFINE j == NextJob(s, "rollback")
<1>1. run[s] = "up" /\ queue[s] # <<>> /\ HeadOf(s).step = "probeSecond"
  BY AtKnown DEF ProbeSecond
<1>2. HeadOf(s) \in AnyJob /\ JobOK(s, HeadOf(s)) /\ LocksOK(HeadOf(s))
  BY <1>1, HeadKnown
<1>3. HeadOf(s).fn = "create" /\ match[HeadOf(s).c].opponent # House /\ ~Closing(HeadOf(s))
  BY <1>1, <1>2, WhichJob
<1>4. j.c = HeadOf(s).c /\ j.fn = "create" /\ j.step = "rollback" /\ ~Closing(j)
  BY <1>1, <1>3, NextJobIs
<1>5. Steps(s, "rollback") /\ lock' = lock /\ lockTtl' = lockTtl
  <2>1. "rollback" \in StepsOf(match[HeadOf(s).c].opponent, HeadOf(s).fn)
    BY <1>3 DEF StepsOf
  <2>2. Rank(match[HeadOf(s).c].opponent, j) >= Rank(match[HeadOf(s).c].opponent, HeadOf(s)) + 1
    BY <1>1, <1>3, <1>4 DEF Rank
  <2> QED
    BY <1>1, <1>4, <2>1, <2>2, NextJobIs DEF ProbeSecond, Steps, redisVars
<1>6. LocksOK(j)
  BY <1>1, <1>2, <1>4 DEF LocksOK
<1> QED
  BY <1>5, <1>6, StepsQuietly

(* Writing the metadata. *)
LEMMA RegisterInv ==
    ASSUME DistInv, NEW s \in Server, Register(s)
    PROVE  DistInv'
<1> DEFINE j == NextJob(s, "push")
<1>1. run[s] = "up" /\ queue[s] # <<>> /\ HeadOf(s).step = "register"
  BY AtKnown DEF Register
<1>2. HeadOf(s) \in AnyJob /\ JobOK(s, HeadOf(s)) /\ LocksOK(HeadOf(s))
  BY <1>1, HeadKnown
<1>3. HeadOf(s).fn = "create" /\ ~Closing(HeadOf(s))
  BY <1>1, <1>2, WhichJob
<1>4. j.c = HeadOf(s).c /\ j.fn = "create" /\ j.step = "push" /\ ~Closing(j)
  BY <1>1, <1>3, NextJobIs
<1>5. Steps(s, "push") /\ lock' = lock /\ lockTtl' = lockTtl
  <2>1. "push" \in StepsOf(match[HeadOf(s).c].opponent, HeadOf(s).fn)
    BY <1>3 DEF StepsOf
  <2>2. Rank(match[HeadOf(s).c].opponent, j) >= Rank(match[HeadOf(s).c].opponent, HeadOf(s)) + 1
    BY <1>1, <1>3, <1>4 DEF Rank
  <2> QED
    BY <1>1, <1>4, <2>1, <2>2, NextJobIs DEF Register, Steps
<1>6. LocksOK(j)
  BY <1>1, <1>2, <1>3, <1>4 DEF LocksOK
<1> QED
  BY <1>5, <1>6, StepsQuietly

(* Writing the history. *)
LEMMA AppendHistoryInv ==
    ASSUME DistInv, NEW s \in Server, AppendHistory(s)
    PROVE  DistInv'
<1> SUFFICES ASSUME NEW next \in {"trim", "status"}, GoOn(s, next),
                    At(s, IF next = "trim" THEN "push" ELSE "trim")
             PROVE  DistInv'
  BY DEF AppendHistory
<1> DEFINE j == NextJob(s, next)
           o == match[HeadOf(s).c].opponent
<1>1. run[s] = "up" /\ queue[s] # <<>> /\ HeadOf(s).step = IF next = "trim" THEN "push" ELSE "trim"
  BY AtKnown
<1>2. HeadOf(s) \in AnyJob /\ JobOK(s, HeadOf(s)) /\ LocksOK(HeadOf(s))
  BY <1>1, HeadKnown
<1>3. /\ j.c = HeadOf(s).c /\ j.fn = HeadOf(s).fn /\ j.step = next
      /\ Closing(j) <=> Closing(HeadOf(s))
  BY <1>1, NextJobIs
<1>4. Steps(s, next) /\ lock' = lock /\ lockTtl' = lockTtl
  <2>1. next \in StepsOf(o, HeadOf(s).fn)
    BY DEF StepsOf
  <2>2. Closing(j) => Rank(o, j) <= Rank(o, HeadOf(s)) + 1
    BY <1>1, <1>3 DEF Rank
  <2>3. ~Closing(j) => Rank(o, j) >= Rank(o, HeadOf(s)) + 1
    BY <1>1, <1>3 DEF Rank
  <2>4. UNCHANGED <<redisVars, UnlessMatch, NotRedis>>
    BY DEF AppendHistory
  <2> QED
    BY <1>1, <2>1, <2>2, <2>3, <2>4, NextJobIs DEF Steps, redisVars
<1>5. LocksOK(j)
  BY <1>1, <1>2, <1>3 DEF LocksOK
<1> QED
  BY <1>4, <1>5, StepsQuietly

(* A challenge holds no locks but those of its parties, and none against the*)
(* house.                                                                   *)
LEMMA NotElsewhere ==
    ASSUME DistInv, NEW c \in ChallengeId, Used(c), Owner(c) \in Server
    PROVE  \A x \in Player : Holds(c, x) => x \in Parties(c) /\ NotHouse(c)
BY LockKnown DEF Holds

(* Reading a lock before its release: a miss means it is not the            *)
(* challenge's.                                                             *)
LEMMA GetLockInv ==
    ASSUME DistInv, NEW s \in Server, NEW step, NEW p, NEW hit, NEW miss,
           \/ /\ step = "getFirst" /\ p = match[HeadOf(s).c].challenger /\ hit = "delFirst"
              /\ miss = IF match[HeadOf(s).c].opponent = House THEN "clear" ELSE "getSecond"
           \/ /\ step = "getSecond" /\ p = match[HeadOf(s).c].opponent /\ hit = "delSecond"
              /\ miss = "clear",
           GetLock(s, step, p, hit, miss)
    PROVE  DistInv'
<1> DEFINE h == HeadOf(s)
           c0 == h.c
           o == match[h.c].opponent
<1>1. run[s] = "up" /\ queue[s] # <<>> /\ h.step = step
  BY AtKnown DEF GetLock
<1>2. /\ h \in AnyJob /\ c0 \in ChallengeId /\ JobOK(s, h) /\ LocksOK(h) /\ Used(c0)
      /\ Owner(c0) = s /\ PartiesOK(c0)
  BY <1>1, HeadKnown
<1>3. Closing(h) /\ (step = "getSecond" => o # House)
  BY <1>1, <1>2, WhichJob
<1>4. \A x \in Player : Holds(c0, x) => x \in {match[c0].challenger, o} /\ o # House
  BY <1>2, NotElsewhere DEF Parties, NotHouse
<1>5. Holds(c0, p) <=> lock[p] = Lock(c0, s)
  BY <1>2 DEF Holds
<1>6. step = "getSecond" => ~Holds(c0, match[c0].challenger)
  BY <1>1, <1>2 DEF LocksOK
<1>7. PICK next \in {"delFirst", "delSecond", "getSecond", "clear"} :
         /\ GoOn(s, next)
         /\ next = IF Holds(c0, p) THEN hit ELSE miss
  BY <1>5 DEF GetLock
<1> DEFINE j == NextJob(s, next)
<1>8. j.c = c0 /\ j.fn = h.fn /\ j.step = next /\ Closing(j)
  BY <1>1, <1>3, NextJobIs
<1>9. Holds(c0, match[c0].challenger) => o # House
  BY <1>2, <1>4 DEF PartiesOK
<1>10. Steps(s, next) /\ lock' = lock /\ lockTtl' = lockTtl
  <2>1. next \in StepsOf(o, h.fn)
    BY <1>3, <1>7 DEF StepsOf, Closing
  <2>2. Rank(o, j) <= Rank(o, h) + 1
    <3>1. CASE o = House
      BY <1>1, <1>3, <1>7, <1>8, <3>1 DEF Rank
    <3>2. CASE o # House
      BY <1>1, <1>3, <1>7, <1>8, <3>2 DEF Rank
    <3> QED
      BY <3>1, <3>2
  <2>3. UNCHANGED <<redisVars, UnlessMatch, NotRedis>>
    BY DEF GetLock
  <2> QED
    BY <1>1, <1>7, <1>8, <2>1, <2>2, <2>3, NextJobIs DEF Steps, redisVars
<1>11. LocksOK(j)
  <2>1. next = "delFirst" => Holds(c0, match[c0].challenger)
    BY <1>7
  <2>2. next = "delSecond" => Holds(c0, o) /\ ~Holds(c0, match[c0].challenger)
    BY <1>6, <1>7
  <2>3. next = "getSecond" => ~Holds(c0, match[c0].challenger)
    BY <1>7
  <2>4. next = "clear" => \A x \in Player : ~Holds(c0, x)
    BY <1>4, <1>6, <1>7
  <2>5. next = "clear" => ~Holds(c0, match[c0].challenger)
    BY <1>2, <2>4 DEF PartiesOK
  <2>6. j.fn # "create"
    BY <1>8 DEF Closing
  <2> HIDE DEF j
  <2> QED
    BY <1>7, <1>8, <2>1, <2>2, <2>3, <2>4, <2>5, <2>6 DEF LocksOK
<1> QED
  BY <1>10, <1>11, StepsQuietly

(* DEL after the lock was read as the challenge's own: no other challenge   *)
(* can have taken it meanwhile.                                             *)
LEMMA DelLockInv ==
    ASSUME DistInv, NEW s \in Server, NEW step, NEW p, NEW next,
           \/ /\ step = "delFirst" /\ p = match[HeadOf(s).c].challenger
              /\ next = IF match[HeadOf(s).c].opponent = House THEN "clear" ELSE "getSecond"
           \/ /\ step = "delSecond" /\ p = match[HeadOf(s).c].opponent /\ next = "clear",
           DelLock(s, step, p, next)
    PROVE  DistInv'
<1> DEFINE h == HeadOf(s)
           o == match[h.c].opponent
<1> SUFFICES ASSUME NEW c0, c0 = HeadOf(s).c, NEW j, j = NextJob(s, next)
             PROVE  DistInv'
  OBVIOUS
<1>1. run[s] = "up" /\ queue[s] # <<>> /\ h.step = step
  BY AtKnown DEF DelLock
<1>2. /\ h \in AnyJob /\ c0 \in ChallengeId /\ JobOK(s, h) /\ LocksOK(h) /\ Used(c0)
      /\ Owner(c0) = s /\ PartiesOK(c0) /\ DistTypes
  BY <1>1, HeadKnown DEF DistInv
<1>3. Closing(h) /\ (step = "delSecond" => o # House) /\ ~IsOpen(c0)
  BY <1>1, <1>2, WhichJob DEF JobOK
<1>4. \A x \in Player : Holds(c0, x) => x \in {match[c0].challenger, o} /\ o # House
  BY <1>2, NotElsewhere DEF Parties, NotHouse
<1>5. /\ Holds(c0, p)
      /\ step = "delSecond" => ~Holds(c0, match[c0].challenger)
  BY <1>1, <1>2 DEF LocksOK
<1>6. p \in Player /\ o # House
  BY <1>2, <1>3, <1>4, <1>5 DEF PartiesOK
<1>7. next \in {"getSecond", "clear"} /\ (next = "getSecond" <=> step = "delFirst")
  BY <1>6
<1>8. j.c = c0 /\ j.fn = h.fn /\ j.step = next /\ Closing(j)
  BY <1>1, <1>3, <1>7, NextJobIs
<1>9. /\ lock' = [lock EXCEPT ![p] = NoLock] /\ lockTtl' = [lockTtl EXCEPT ![p] = 0]
      /\ UNCHANGED <<meta, age, beat, UnlessMatch, NotRedis>> /\ GoOn(s, next)
  BY DEF DelLock
<1>10. Steps(s, next)
  <2>1. next \in StepsOf(o, h.fn)
    BY <1>3, <1>6, <1>7 DEF StepsOf, Closing
  <2>2. Rank(o, j) <= Rank(o, h) + 1
    BY <1>1, <1>3, <1>6, <1>7, <1>8 DEF Rank
  <2> QED
    BY <1>1, <1>8, <1>9, <2>1, <2>2, <1>7, NextJobIs DEF Steps
<1>11. match' = match /\ timer' = timer /\ announced' = announced
  BY <1>9 DEF UnlessMatch, NotRedis
<1>12. /\ lock[p] = Lock(c0, s) /\ lock'[p] = NoLock
       /\ \A x \in Player : x # p => lock'[x] = lock[x]
  BY <1>2, <1>5, <1>6, <1>9 DEF DistTypes, Holds
<1>13. ~Holds(c0, p)' /\ (\A x \in Player : Holds(c0, x)' => Holds(c0, x) /\ x # p)
  <2>1. Lock(c0, Owner(c0)) # NoLock /\ Owner(c0)' = Owner(c0)
    BY <1>2, <1>11, LocksAreEqual DEF Owner
  <2> QED
    BY <1>12, <2>1 DEF Holds
<1>14. LocksOK(j)'
  <2>1. ~Holds(c0, match[c0].challenger)'
    <3>1. ASSUME NEW x, x = match[c0].challenger
          PROVE  x \in Player /\ ~Holds(c0, x)'
      BY <1>2, <1>5, <1>13, <3>1 DEF PartiesOK
    <3>2. match'[c0].challenger = match[c0].challenger
      BY <1>11
    <3> QED
      BY <3>1, <3>2
  <2>2. next = "clear" => \A x \in Player : ~Holds(c0, x)'
    BY <1>4, <1>5, <1>7, <1>13
  <2>3. j.fn # "create"
    BY <1>8 DEF Closing
  <2> QED
    BY <1>7, <1>8, <1>11, <2>1, <2>2, <2>3 DEF LocksOK
<1>15. AnnouncedOK(c0)'
  BY <1>3, <1>11 DEF AnnouncedOK, IsOpen, Open
<1>16. LockOK(p)'
  BY <1>12 DEF LockOK
<1>17. ASSUME NEW a \in AnyJob, In(Tail(queue[s]), a), a.c = c0
       PROVE  LocksOK(a)'
  <2>1. ~Closing(a) /\ a.step \in {"push", "trim", "status"}
    BY <1>1, <1>17, BehindRelease
  <2> QED
    BY <1>3, <1>11, <1>17, <2>1 DEF LocksOK, IsOpen, Open
<1>18. 0 \in 0 .. LockTicks
  BY DistributedAssumption
<1> QED
  BY <1>6, <1>7, <1>9, <1>10, <1>12, <1>14, <1>15, <1>16, <1>17, <1>18, StepsLocking

(* The release of the players, command by command. *)
LEMMA ReleasePlayersInv ==
    ASSUME DistInv, NEW s \in Server, ReleasePlayers(s)
    PROVE  DistInv'
<1> DEFINE m == match[HeadOf(s).c]
           second == IF m.opponent = House THEN "clear" ELSE "getSecond"
<1>1. CASE GetLock(s, "getFirst", m.challenger, "delFirst", second)
  BY <1>1, GetLockInv
<1>2. CASE DelLock(s, "delFirst", m.challenger, second)
  BY <1>2, DelLockInv
<1>3. CASE GetLock(s, "getSecond", m.opponent, "delSecond", "clear")
  BY <1>3, GetLockInv
<1>4. CASE DelLock(s, "delSecond", m.opponent, "clear")
  BY <1>4, DelLockInv
<1> QED
  BY <1>1, <1>2, <1>3, <1>4 DEF ReleasePlayers

-----------------------------------------------------------------------------
(* A job leaves the queue: it has ended, or awaits the chain. *)

Awaits(s) ==
    /\ onChain' = [onChain EXCEPT ![s] = @ \cup {HeadOf(s)}]
    /\ HeadOf(s).step = "status" /\ HeadOf(s).fn \in {"accept", "close", "counter"}
    /\ match[HeadOf(s).c].staked

(* The job at the head, of challenge c0, leaves the queue. *)
Leaves(s, c0) ==
    /\ run[s] = "up" /\ queue[s] # <<>> /\ c0 = HeadOf(s).c
    /\ queue' = Ended(s)
    /\ match' = match /\ timer' = timer /\ told' = told
    /\ run' = run /\ beat' = beat /\ sweep' = sweep
    /\ onChain' = onChain \/ Awaits(s)
    /\ age'[c0] = 0 \/ age'[c0] = age[c0]
    /\ \A c \in ChallengeId :
          c # c0 => /\ meta'[c] = meta[c] /\ age'[c] = age[c] /\ SameLocks(c)
                    /\ c \in announced' <=> c \in announced

(* What holds of queues and challenges when a job leaves the queue. *)
LEMMA LeaveOK ==
    ASSUME DistInv, DistTypes', NEW s \in Server, NEW c0, Leaves(s, c0),
           \A a \in AnyJob : In(Tail(queue[s]), a) /\ a.c = c0 => Kept(a) /\ LocksOK(a)',
           AnnouncedOK(c0)', ClosedOK(c0)'
    PROVE  (\A t \in Server : InOrder(t)') /\ (\A c \in ChallengeId : ChallengeOK(c)')
<1> DEFINE h == Head(queue[s])
<1>1. DistTypes /\ queue[s] \in Seq(AnyJob) /\ queue[s] # <<>>
  BY DEF DistInv, DistTypes, Leaves
<1>2. /\ Tail(queue[s]) \in Seq(AnyJob)
      /\ h \in AnyJob /\ In(queue[s], h) /\ c0 = h.c
      /\ queue'[s] = Tail(queue[s])
      /\ \A t \in Server : t # s => queue'[t] = queue[t]
  <2>1. queue'[s] = Tail(queue[s]) /\ \A t \in Server : t # s => queue'[t] = queue[t]
    BY <1>1 DEF DistTypes, Leaves, Ended
  <2> QED
    BY <1>1, <2>1, HeadIsIn DEF Leaves, HeadOf
<1>3. /\ JobOK(s, h) /\ c0 \in ChallengeId /\ Used(c0) /\ Owner(c0) = s /\ PartiesOK(c0)
      /\ ChallengeOK(c0) /\ Touched(c0)
  BY <1>1, <1>2, JobKnown
<1>4. \A a \in AnyJob : In(queue[s], a) <=> a = h \/ In(Tail(queue[s]), a)
  BY <1>1, InTail
<1>5. \A c \in ChallengeId : Progress(c)
  <2>1. match' = match /\ timer' = timer /\ \A c \in ChallengeId : timer[c] <= timer[c]
    BY <1>1 DEF Leaves, DistTypes
  <2> QED
    BY <2>1 DEF Progress, Used
<1> HIDE DEF h
<1>6. \A a \in AnyJob : a.c \in ChallengeId /\ (a.c # c0 \/ a.fn # "create") => Kept(a)
  BY <1>5 DEF Leaves, Kept
<1>7. \A t \in Server : \A a \in AnyJob : In(queue[t], a) /\ a.c # c0 => LocksOK(a)'
  <2>1. SUFFICES ASSUME NEW t \in Server, NEW a \in AnyJob, In(queue[t], a), a.c # c0
                 PROVE  LocksOK(a)'
    OBVIOUS
  <2>2. JobOK(t, a) /\ LocksOK(a) /\ a.c \in ChallengeId /\ PartiesOK(a.c) /\ Used(a.c)
    BY <2>1, JobKnown
  <2>3. SameLocks(a.c) /\ Kept(a)
    BY <1>6, <2>1, <2>2 DEF Leaves
  <2> QED
    BY <1>1, <2>2, <2>3, LocksKept
<1>8. QueueOK(s)'
  <2>1. ASSUME NEW a \in AnyJob, In(Tail(queue[s]), a)
        PROVE  JobOK(s, a)' /\ LocksOK(a)'
    <3>1. In(queue[s], a)
      BY <1>4, <2>1
    <3>2. JobOK(s, a) /\ a.c \in ChallengeId
      BY <3>1, JobKnown
    <3>3. Kept(a) /\ LocksOK(a)'
      BY <1>6, <1>7, <2>1, <3>1, <3>2
    <3> QED
      BY <1>1, <3>2, <3>3, JobKept
  <2>2. Orderly(match', Tail(queue[s]))
    BY <1>1, <1>5, OldOrder, OrderlyTail
  <2> QED
    BY <1>2, <2>1, <2>2 DEF QueueOK
<1>9. \A t \in Server : t # s => QueueOK(t)'
  <2>1. SUFFICES ASSUME NEW t \in Server, t # s
                 PROVE  QueueOK(t)'
    OBVIOUS
  <2>2. ASSUME NEW a \in AnyJob, In(queue[t], a)
        PROVE  Kept(a) /\ LocksOK(a)'
    BY <1>3, <1>6, <1>7, <2>1, <2>2, JobKnown
  <2> QED
    BY <1>2, <1>5, <2>1, <2>2, QueueWaits
<1>10. \A t \in Server, a \in AnyJob : In(queue'[t], a) => In(queue[t], a)
  BY <1>2, <1>4
<1>11. \A t \in Server : t # s \/ onChain' = onChain => ChainOK(t)'
  <2>1. SUFFICES ASSUME NEW t \in Server, t # s \/ onChain' = onChain
                 PROVE  ChainOK(t)'
    OBVIOUS
  <2>2. onChain'[t] \subseteq onChain[t]
    BY <1>1, <2>1 DEF Leaves, Awaits, DistTypes
  <2> QED
    BY <1>5, <1>10, <2>2, ChainGoesOn
<1>12. ASSUME Awaits(s)
       PROVE  ChainOK(s)'
  <2>1. onChain'[s] = onChain[s] \cup {h} /\ h.step = "status"
        /\ h.fn \in {"accept", "close", "counter"} /\ match[c0].staked
    BY <1>1, <1>2, <1>12 DEF Awaits, DistTypes, HeadOf, h
  <2>2. match' = match /\ DistTypes
    BY <1>1 DEF Leaves
  <2>3. ASSUME NEW k \in onChain'[s]
        PROVE  /\ JobOK(s, k)' /\ k.step = "status" /\ k.fn \in {"accept", "close", "counter"}
               /\ match'[k.c].staked
    <3>1. /\ JobOK(s, k) /\ k \in AnyJob /\ k.c \in ChallengeId
          /\ k.step = "status" /\ k.fn \in {"accept", "close", "counter"} /\ match[k.c].staked
      BY <1>2, <1>3, <2>1, <2>3, ChainKnown DEF DistInv, ChainOK
    <3>2. Kept(k)
      BY <1>6, <3>1
    <3> QED
      BY <2>2, <3>1, <3>2, JobKept
  <2>4. ASSUME NEW k \in onChain[s], k.c = c0, Closing(k)
        PROVE  ~Closing(h)
    BY <1>2, <2>4 DEF DistInv, ChainOK
  <2>5. ASSUME NEW a \in AnyJob, In(Tail(queue[s]), a), a.c = c0, Closing(h)
        PROVE  ~Closing(a) /\ Ranked(match[c0].opponent, a)
    <3>1. Pair(match[c0].opponent, h, a)
      BY <1>1, <1>2, <2>5, AheadTail DEF DistInv, QueueOK, Orderly, h
    <3>2. ~Closing(a) /\ Rank(match[c0].opponent, a) >= Rank(match[c0].opponent, h) + 1
      BY <2>5, <3>1 DEF Pair
    <3>3. Rank(match[c0].opponent, h) = IF match[c0].opponent = House THEN 5 ELSE 3
      BY <2>1, <2>5 DEF Rank
    <3> QED
      BY <3>2, <3>3, RankType DEF Ranked
  <2>6. \A j, k \in onChain'[s] : Closing(j) /\ Closing(k) /\ j.c = k.c => j = k
    BY <1>2, <2>1, <2>4 DEF DistInv, ChainOK
  <2>7. \A j \in onChain'[s], a \in AnyJob :
           Closing(j) /\ In(queue'[s], a) /\ a.c = j.c
             => ~Closing(a) /\ Ranked(match'[j.c].opponent, a)
    <3>1. SUFFICES ASSUME NEW j \in onChain'[s], NEW a \in AnyJob, Closing(j),
                          In(Tail(queue[s]), a), a.c = j.c
                   PROVE  ~Closing(a) /\ Ranked(match[j.c].opponent, a)
      BY <1>2, <2>2
    <3>2. CASE j = h
      BY <1>2, <2>5, <3>1, <3>2
    <3>3. CASE j \in onChain[s]
      BY <1>4, <3>1, <3>3 DEF DistInv, ChainOK
    <3> QED
      BY <2>1, <3>2, <3>3
  <2> QED
    BY <2>3, <2>6, <2>7 DEF ChainOK
<1>13. \A t \in Server : ServerOK(t)'
  <2>1. \A t \in Server : t # s => onChain'[t] = onChain[t]
    BY <1>1 DEF Leaves, Awaits, DistTypes
  <2> QED
    BY <1>2, <2>1 DEF DistInv, ServerOK, Leaves
<1>14. \A t \in Server : beat'[t] \in 0 .. BeatTicks /\ beat'[t] >= beat[t]
  BY <1>1, DistributedAssumption DEF Leaves, DistTypes
<1>15. ChallengeOK(c0)'
  <2>1. Goes(c0)
    BY <1>3, <1>5 DEF Goes, Leaves
  <2> QED
    BY <1>1, <1>3, <1>14, <2>1, ChallengeGoesOn DEF Leaves
<1>16. \A c \in ChallengeId : c # c0 => ChallengeOK(c)'
  <2>1. SUFFICES ASSUME NEW c \in ChallengeId, c # c0
                 PROVE  ChallengeOK(c)'
    OBVIOUS
  <2>2. \A t \in Server, a \in AnyJob : a.c = c => (In(queue'[t], a) <=> In(queue[t], a))
    BY <1>2, <1>4, <2>1
  <2>3. \A t \in Server, a \in AnyJob : a.c = c => (a \in onChain'[t] <=> a \in onChain[t])
    BY <1>1, <1>2, <2>1 DEF Leaves, Awaits, DistTypes, h, HeadOf
  <2>4. SameJobs(c)
    BY <2>2, <2>3 DEF SameJobs
  <2>5. Same(c)
    BY <2>1, <2>4 DEF Same, Leaves
  <2> QED
    BY <1>1, <1>14, <2>1, <2>5, ChallengeSame DEF DistInv, Leaves
<1>17. ChainOK(s)'
  BY <1>11, <1>12 DEF Leaves
<1> QED
  BY <1>8, <1>9, <1>11, <1>13, <1>15, <1>16, <1>17 DEF InOrder

-----------------------------------------------------------------------------
(* A handler issues its first command, outside any job or in place of the   *)
(* job that was served.                                                     *)

(* q is the queue when a command is issued: all of it, or what is behind the*)
(* head that was served.                                                    *)
Served(s, q, C) ==
    \/ q = queue[s]
    \/ queue[s] # <<>> /\ q = Tail(queue[s]) /\ HeadOf(s).c \in C

(* s issues the command of job j and touches no challenge but those of C. *)
Issues(s, q, j, C) ==
    /\ run[s] = "up" /\ Served(s, q, C) /\ j \in AnyJob /\ j.c \in C
    /\ C \subseteq ChallengeId /\ \A c \in C : Used(c) => Owner(c) = s
    /\ queue' = [queue EXCEPT ![s] = Append(q, j)]
    /\ run' = run /\ beat' = beat /\ sweep' = sweep
    /\ \A t \in Server : onChain'[t] \subseteq onChain[t]
    /\ \A t \in Server : \A a \in onChain[t] : a.c \notin C => a \in onChain'[t]
    /\ \A c \in ChallengeId \ C :
          /\ match'[c] = match[c] /\ timer'[c] = timer[c]
          /\ meta'[c] = meta[c] /\ age'[c] = age[c] /\ SameLocks(c)
          /\ c \in announced' <=> c \in announced
          /\ c \in told' <=> c \in told

(* What holds of queues and challenges when a handler issues a command. *)
LEMMA IssueOK ==
    ASSUME DistInv, DistTypes', NEW s \in Server, NEW q, NEW j, NEW C, Issues(s, q, j, C),
           \A c \in ChallengeId : Progress(c),
           \A a \in AnyJob : In(queue[s], a) /\ In(q, a) /\ a.c \in C => Kept(a) /\ LocksOK(a)',
           JobOK(s, j)', LocksOK(j)',
           \A a \in AnyJob : In(queue[s], a) /\ In(q, a) /\ a.c = j.c
              => Pair(match'[j.c].opponent, a, j),
           \A k \in onChain'[s] : Closing(k) /\ k.c = j.c => ~Closing(j) /\ Ranked(match[j.c].opponent, j),
           \A c \in C : ChallengeOK(c)'
    PROVE  (\A t \in Server : InOrder(t)') /\ (\A c \in ChallengeId : ChallengeOK(c)')
<1>1. DistTypes /\ queue[s] \in Seq(AnyJob) /\ j \in AnyJob /\ j.c \in C
  BY DEF DistInv, DistTypes, Issues
<1>2. /\ q \in Seq(AnyJob) /\ Orderly(match', q)
      /\ \A a \in AnyJob : In(q, a) => In(queue[s], a)
      /\ \A a \in AnyJob : In(queue[s], a) /\ a.c \notin C => In(q, a)
  <2>1. Orderly(match', queue[s])
    BY OldOrder
  <2>2. CASE q = queue[s]
    BY <1>1, <2>1, <2>2
  <2>3. CASE queue[s] # <<>> /\ q = Tail(queue[s]) /\ HeadOf(s).c \in C
    <3>1. q \in Seq(AnyJob) /\ Orderly(match', q)
      BY <1>1, <2>1, <2>3, HeadIsIn, OrderlyTail
    <3>2. \A a \in AnyJob : In(queue[s], a) <=> a = Head(queue[s]) \/ In(q, a)
      BY <1>1, <2>3, InTail
    <3> QED
      BY <2>3, <3>1, <3>2 DEF HeadOf
  <2> QED
    BY <2>2, <2>3 DEF Issues, Served
<1>3. /\ queue'[s] = Append(q, j)
      /\ \A t \in Server : t # s => queue'[t] = queue[t]
  BY <1>1 DEF DistTypes, Issues
<1>4. \A a \in AnyJob : In(queue'[s], a) <=> In(q, a) \/ a = j
  <2>1. \A a : In(Append(q, j), a) <=> In(q, a) \/ a = j
    BY <1>1, <1>2, InAppended
  <2> QED
    BY <1>3, <2>1
<1>5. \A t \in Server : \A a \in AnyJob : In(queue[t], a) /\ a.c \notin C => Kept(a) /\ LocksOK(a)'
  <2>1. SUFFICES ASSUME NEW t \in Server, NEW a \in AnyJob, In(queue[t], a), a.c \notin C
                 PROVE  Kept(a) /\ LocksOK(a)'
    OBVIOUS
  <2>2. JobOK(t, a) /\ LocksOK(a) /\ a.c \in ChallengeId /\ PartiesOK(a.c) /\ Used(a.c)
    BY <2>1, JobKnown
  <2>3. SameLocks(a.c) /\ Kept(a)
    BY <2>1, <2>2 DEF Issues, Kept
  <2> QED
    BY <1>1, <2>2, <2>3, LocksKept
<1>6. QueueOK(s)'
  <2>1. ASSUME NEW a \in AnyJob, In(q, a)
        PROVE  JobOK(s, a)' /\ LocksOK(a)'
    <3>1. In(queue[s], a)
      BY <1>2, <2>1
    <3>2. JobOK(s, a)
      BY <3>1, JobKnown
    <3>3. Kept(a) /\ LocksOK(a)'
      BY <1>5, <2>1, <3>1
    <3> QED
      BY <1>1, <3>2, <3>3, JobKept
  <2>2. \A a \in AnyJob : In(q, a) /\ a.c = j.c => Pair(match'[a.c].opponent, a, j)
    BY <1>2
  <2>3. Orderly(match', Append(q, j))
    BY <1>1, <1>2, <2>2, OrderlyAppended
  <2> QED
    BY <1>3, <1>4, <2>1, <2>3 DEF QueueOK
<1>7. ASSUME NEW t \in Server, t # s
      PROVE  QueueOK(t)'
  <2>1. ASSUME NEW a \in AnyJob, In(queue[t], a)
        PROVE  Kept(a) /\ LocksOK(a)'
    <3>1. a.c \notin C
      BY <1>7, <2>1, JobKnown DEF Issues
    <3> QED
      BY <1>5, <2>1, <3>1
  <2> QED
    BY <1>3, <1>7, <2>1, QueueWaits
<1>8. \A t \in Server, a \in AnyJob : In(queue'[t], a) => In(queue[t], a) \/ (a = j /\ t = s)
  BY <1>2, <1>3, <1>4
<1>9. ASSUME NEW t \in Server
      PROVE  ChainOK(t)'
  <2>1. onChain'[t] \subseteq onChain[t]
    BY DEF Issues
  <2>2. ASSUME NEW k \in onChain'[t], NEW a \in AnyJob, Closing(k), In(queue'[t], a), a.c = k.c
        PROVE  In(queue[t], a) \/ (~Closing(a) /\ Ranked(match[k.c].opponent, a))
    BY <1>8, <2>2
  <2> QED
    BY <2>1, <2>2, ChainGoesOn
<1>10. \A t \in Server : ServerOK(t)'
  <2>1. \A t \in Server : t # s /\ run[t] # "up" => onChain'[t] = {}
    BY DEF DistInv, ServerOK, Issues
  <2> QED
    BY <1>3, <2>1 DEF DistInv, ServerOK, Issues
<1>11. \A t \in Server : beat'[t] \in 0 .. BeatTicks /\ beat'[t] >= beat[t]
  BY <1>1, DistributedAssumption DEF Issues, DistTypes
<1>12. \A c \in ChallengeId : c \notin C => ChallengeOK(c)'
  <2>1. SUFFICES ASSUME NEW c \in ChallengeId, c \notin C
                 PROVE  ChallengeOK(c)'
    OBVIOUS
  <2>2. \A t \in Server, a \in AnyJob : a.c = c => (In(queue'[t], a) <=> In(queue[t], a))
    BY <1>1, <1>2, <1>3, <1>4, <2>1
  <2>3. \A t \in Server, a \in AnyJob : a.c = c => (a \in onChain'[t] <=> a \in onChain[t])
    BY <2>1 DEF Issues
  <2>4. SameJobs(c)
    BY <2>2, <2>3 DEF SameJobs
  <2>5. Same(c)
    BY <2>1, <2>4 DEF Same, Issues
  <2> QED
    BY <1>1, <1>11, <2>1, <2>5, ChallengeSame DEF DistInv, Issues
<1> QED
  BY <1>6, <1>7, <1>9, <1>10, <1>12 DEF InOrder

(* A job stays in order when locks stay and its challenge goes on. *)
LEMMA OldJobKept ==
    ASSUME DistInv, NEW s \in Server, NEW a \in AnyJob, In(queue[s], a), Progress(a.c),
           lock' = lock, a.c \in announced' <=> a.c \in announced,
           age'[a.c] = 0 \/ age'[a.c] = age[a.c]
    PROVE  Kept(a) /\ LocksOK(a)'
<1>1. JobOK(s, a) /\ LocksOK(a) /\ PartiesOK(a.c) /\ DistTypes
  BY JobKnown DEF DistInv
<1>2. Kept(a) /\ SameLocks(a.c)
  BY DEF Kept, SameLocks
<1> QED
  BY <1>1, <1>2, LocksKept

(* A job that is issued is queued. *)
LEMMA IssuedIsIn ==
    ASSUME NEW s \in Server, NEW j \in AnyJob, NEW q \in Seq(AnyJob),
           queue \in [Server -> Seq(AnyJob)], queue' = [queue EXCEPT ![s] = Append(q, j)]
    PROVE  In(queue'[s], j)
<1>1. queue'[s] = Append(q, j)
  OBVIOUS
<1> QED
  BY <1>1, InAppended

(* The types of matches, timers and queues. *)
LEMMA MatchHasType ==
    ASSUME DistInv
    PROVE  /\ match \in [ChallengeId -> MatchType] /\ timer \in [ChallengeId -> Nat] /\ DistTypes
           /\ queue \in [Server -> Seq(AnyJob)]
BY DEF DistInv, DistTypes, MatchType

(* A challenge closes and its closing is dispatched. *)
ClosesAt(s, q, c, phase, fn, j) ==
    /\ IsOpen(c) /\ Owner(c) = s
    /\ fn \in {"close", "counter"} /\ (fn = "counter" => match[c].opponent # House)
    /\ phase \in {"void", "resolved"} /\ j = Job(c, fn, "push") /\ Served(s, q, {c})
    /\ match' = [match EXCEPT ![c].phase = phase] /\ timer' = [timer EXCEPT ![c] = 0]
    /\ queue' = [queue EXCEPT ![s] = Append(q, j)]
    /\ run' = run /\ beat' = beat /\ sweep' = sweep /\ onChain' = onChain /\ meta' = meta
    /\ age' = age /\ announced' = announced /\ told' = told

(* A challenge that closes is being closed, and by one job. *)
LEMMA CloseOK ==
    ASSUME DistInv, DistTypes', NEW s \in Server, NEW q, NEW c \in ChallengeId, NEW fn, NEW j,
           NEW phase, ClosesAt(s, q, c, phase, fn, j),
           \A d \in ChallengeId : d # c => SameLocks(d),
           \A a \in AnyJob : In(queue[s], a) /\ In(q, a) /\ a.c = c => LocksOK(a)'
    PROVE  /\ (\A t \in Server : InOrder(t)') /\ (\A d \in ChallengeId : ChallengeOK(d)')
           /\ \A d \in ChallengeId : Progress(d)
<1> USE DEF ClosesAt
<1>1. /\ match \in [ChallengeId -> MatchType] /\ timer \in [ChallengeId -> Nat] /\ DistTypes
      /\ queue \in [Server -> Seq(AnyJob)]
  BY MatchHasType
<1>2. /\ \A d \in ChallengeId : d # c => match'[d] = match[d] /\ timer'[d] = timer[d]
      /\ match'[c].phase = phase /\ match'[c].challenger = match[c].challenger
      /\ match'[c].opponent = match[c].opponent /\ match'[c].owner = match[c].owner
      /\ match'[c].staked = match[c].staked /\ timer'[c] = 0
  BY <1>1, PhaseType
<1>3. j \in AnyJob /\ j.c = c /\ j.fn = fn /\ j.step = "push" /\ Closing(j)
  BY JobType DEF Closing
<1>4. ChallengeOK(c) /\ Used(c) /\ PartiesOK(c) /\ run[s] = "up"
  BY DEF DistInv, ChallengeOK, IsOpen, Used, Open
<1>5. \A d \in ChallengeId : Progress(d)
  <2>1. \A d \in ChallengeId : timer[d] <= timer[d]
    BY <1>1
  <2> QED
    BY <1>2, <2>1 DEF Progress, Used, Open, IsOpen
<1>6. ~IsOpen(c)' /\ Used(c)'
  BY <1>2 DEF IsOpen, Used, Open
<1>7. ASSUME NEW a \in AnyJob, In(queue[s], a), a.c = c
      PROVE  Kept(a) /\ ~Closing(a) /\ JobOK(s, a)
  BY <1>5, <1>7, JobKnown DEF JobOK, Kept
<1>8. JobOK(s, j)'
  BY <1>2, <1>3, <1>4, <1>6 DEF JobOK, StepsOf, Owner
<1>9. LocksOK(j)'
  BY <1>3 DEF LocksOK
<1>10. ASSUME NEW a \in AnyJob, In(queue[s], a), a.c = c
       PROVE  Pair(match'[c].opponent, a, j)
  <2>1. /\ ~Closing(a) /\ j.fn # "create"
        /\ a.step \in StepsOf(match[c].opponent, a.fn)
    BY <1>3, <1>7, <1>10 DEF JobOK
  <2>2. Rank(match[c].opponent, a) >= Rank(match[c].opponent, j)
    <3>1. CASE match[c].opponent = House
      <4>1. a.step \in {"register", "push", "trim", "status"}
        BY <2>1, <3>1 DEF StepsOf, Closing, AnyJob
      <4>2. Rank(match[c].opponent, a) >= 3 /\ Rank(match[c].opponent, j) = 3
        BY <1>3, <2>1, <3>1, <4>1 DEF Rank
      <4> QED
        BY <4>2, RankType
    <3>2. CASE match[c].opponent # House
      <4>1. Rank(match[c].opponent, j) = 1
        BY <1>3, <3>2 DEF Rank
      <4> QED
        BY <4>1, RankType
    <3> QED
      BY <3>1, <3>2
  <2> QED
    BY <1>2, <1>3, <2>1, <2>2 DEF Pair
<1>11. \A k \in onChain'[s] : ~(Closing(k) /\ k.c = c)
  BY ChainKnown DEF JobOK
<1>12. Issues(s, q, j, {c})
  <2>1. {c} \subseteq ChallengeId /\ \A d \in {c} : Used(d) => Owner(d) = s
    OBVIOUS
  <2>2. \A t \in Server : onChain'[t] \subseteq onChain[t]
    OBVIOUS
  <2>3. \A d \in ChallengeId \ {c} :
           /\ match'[d] = match[d] /\ timer'[d] = timer[d]
           /\ meta'[d] = meta[d] /\ age'[d] = age[d] /\ SameLocks(d)
           /\ d \in announced' <=> d \in announced
           /\ d \in told' <=> d \in told
    BY <1>2
  <2>4. \A t \in Server : \A a \in onChain[t] : a.c \notin {c} => a \in onChain'[t]
    OBVIOUS
  <2> QED
    BY <1>3, <1>4, <2>1, <2>2, <2>3, <2>4 DEF Issues
<1>13. ChallengeOK(c)'
  <2>1. In(queue'[s], j)
    <3>1. q \in Seq(AnyJob)
      BY <1>1, HeadIsIn DEF Served
    <3> QED
      BY <1>1, <1>3, <3>1, IssuedIsIn
  <2>2. BeingClosed(c)'
    BY <1>3, <2>1 DEF BeingClosed
  <2>3. ClosedOK(c)' /\ AnnouncedOK(c)'
    BY <1>2, <2>2 DEF ClosedOK, AnnouncedOK
  <2>4. Goes(c)
    BY <1>4, <1>5, <2>3 DEF Goes
  <2>5. \A t \in Server : beat'[t] \in 0 .. BeatTicks /\ beat'[t] >= beat[t]
    BY <1>1, DistributedAssumption DEF DistTypes
  <2> QED
    BY <1>1, <1>4, <2>4, <2>5, ChallengeGoesOn
<1>14. (\A t \in Server : InOrder(t)') /\ (\A d \in ChallengeId : ChallengeOK(d)')
  <2>1. \A a \in AnyJob : In(queue[s], a) /\ In(q, a) /\ a.c \in {c} => Kept(a) /\ LocksOK(a)'
    BY <1>7
  <2>2. \A a \in AnyJob : In(queue[s], a) /\ In(q, a) /\ a.c = j.c
              => Pair(match'[j.c].opponent, a, j)
    BY <1>3, <1>10
  <2>3. \A k \in onChain'[s] : Closing(k) /\ k.c = j.c
              => ~Closing(j) /\ Ranked(match[j.c].opponent, j)
    BY <1>3, <1>11
  <2>4. \A d \in {c} : ChallengeOK(d)'
    BY <1>13
  <2> QED
    BY <1>5, <1>8, <1>9, <1>12, <2>1, <2>2, <2>3, <2>4, IssueOK
<1> QED
  BY <1>5, <1>14

(* The invariant from its parts when no lock is written. *)
LEMMA InvFrom ==
    ASSUME DistInv, DistTypes', \A t \in Server : InOrder(t)',
           \A c \in ChallengeId : ChallengeOK(c)', \A c \in ChallengeId : Progress(c),
           lock' = lock, lockTtl' = lockTtl
    PROVE  DistInv'
<1>1. \A p \in Player : LockOK(p)'
  BY LockGoesOn
<1> QED
  BY <1>1 DEF DistInv, InOrder

(* A challenge is accepted, or one of its parties moves. *)
AnsweredAt(s, c, fn, j) ==
    /\ fn \in {"accept", "move"} /\ IsOpen(c) /\ Owner(c) = s
    /\ \/ match' = match /\ timer' = timer
       \/ /\ match' = [match EXCEPT ![c].phase = "active"]
          /\ timer' = [timer EXCEPT ![c] = ActiveTicks]
    /\ j = Job(c, fn, "push") /\ queue' = [queue EXCEPT ![s] = Append(queue[s], j)]
    /\ run' = run /\ beat' = beat /\ sweep' = sweep /\ onChain' = onChain /\ meta' = meta
    /\ age' = age /\ announced' = announced /\ told' = told /\ lock' = lock

(* An answer that leaves the challenge open queues a job that may follow the*)
(* others.                                                                  *)
LEMMA AnswerOK ==
    ASSUME DistInv, DistTypes', NEW s \in Server, NEW c \in ChallengeId, NEW fn, NEW j,
           AnsweredAt(s, c, fn, j)
    PROVE  /\ (\A t \in Server : InOrder(t)') /\ (\A d \in ChallengeId : ChallengeOK(d)')
           /\ \A d \in ChallengeId : Progress(d)
<1> USE DEF AnsweredAt
<1>1. /\ match \in [ChallengeId -> MatchType] /\ timer \in [ChallengeId -> Nat] /\ DistTypes
      /\ queue \in [Server -> Seq(AnyJob)]
  BY MatchHasType
<1>2. /\ \A d \in ChallengeId : d # c => match'[d] = match[d] /\ timer'[d] = timer[d]
      /\ match'[c].challenger = match[c].challenger
      /\ match'[c].opponent = match[c].opponent /\ match'[c].owner = match[c].owner
      /\ match'[c].staked = match[c].staked /\ match'[c].phase \in {match[c].phase, "active"}
      /\ match'[c].phase = "pending" => match[c].phase = "pending" /\ timer'[c] = timer[c]
  <2>1. CASE match' = match /\ timer' = timer
    BY <2>1
  <2>2. CASE /\ match' = [match EXCEPT ![c].phase = "active"]
             /\ timer' = [timer EXCEPT ![c] = ActiveTicks]
    <3>1. "active" \in {"unused", "void", "resolved", "lost"} \cup Open
      BY DEF Open
    <3> QED
      BY <1>1, <2>2, <3>1, PhaseType
  <2> QED
    BY <2>1, <2>2
<1>3. j \in AnyJob /\ j.c = c /\ j.fn = fn /\ j.step = "push" /\ ~Closing(j)
  BY JobType DEF Closing
<1>4. ChallengeOK(c) /\ Used(c) /\ PartiesOK(c) /\ run[s] = "up"
  BY DEF DistInv, ChallengeOK, IsOpen, Used, Open
<1>5. \A d \in ChallengeId : Progress(d)
  <2>1. \A d \in ChallengeId : timer[d] <= timer[d]
    BY <1>1
  <2> QED
    BY <1>2, <2>1 DEF Progress, Used, Open, IsOpen
<1>6. IsOpen(c)' /\ Used(c)' /\ Owner(c)' = s
  BY <1>2 DEF IsOpen, Used, Open, Owner
<1>7. ASSUME NEW a \in AnyJob, In(queue[s], a), a.c = c
      PROVE  ~Closing(a) /\ JobOK(s, a)
  BY <1>7, JobKnown DEF JobOK
<1>8. JobOK(s, j)'
  BY <1>3, <1>6 DEF JobOK, StepsOf, Owner, Closing
<1>9. LocksOK(j)'
  BY <1>3 DEF LocksOK
<1>10. \A k \in onChain'[s] : ~(Closing(k) /\ k.c = c)
  BY ChainKnown DEF JobOK
<1>11. Issues(s, queue[s], j, {c})
  <2>1. {c} \subseteq ChallengeId /\ \A d \in {c} : Used(d) => Owner(d) = s
    OBVIOUS
  <2>2. \A t \in Server : onChain'[t] \subseteq onChain[t]
    OBVIOUS
  <2>3. \A d \in ChallengeId \ {c} :
           /\ match'[d] = match[d] /\ timer'[d] = timer[d]
           /\ meta'[d] = meta[d] /\ age'[d] = age[d] /\ SameLocks(d)
           /\ d \in announced' <=> d \in announced
           /\ d \in told' <=> d \in told
    BY <1>2 DEF SameLocks
  <2>4. \A t \in Server : \A a \in onChain[t] : a.c \notin {c} => a \in onChain'[t]
    OBVIOUS
  <2> QED
    BY <1>3, <1>4, <2>1, <2>2, <2>3, <2>4 DEF Issues, Served
<1>12. ChallengeOK(c)'
  <2>1. ClosedOK(c)'
    BY <1>6 DEF ClosedOK, IsOpen, Open
  <2>2. AnnouncedOK(c)'
    <3>1. SUFFICES ASSUME match'[c].phase = "pending", c \in announced, timer'[c] > 0,
                          match[c].opponent # House
                   PROVE  LocksHeld(c)'
      BY <1>2 DEF AnnouncedOK, NotHouse
    <3>2. LocksHeld(c)
      BY <1>2, <1>4, <3>1 DEF ChallengeOK, AnnouncedOK, NotHouse
    <3> QED
      BY <1>2, <3>2 DEF LocksHeld, Holds, Owner
  <2>3. \/ IsOpen(c)
    OBVIOUS
  <2>4. Goes(c)
    BY <1>4, <1>5, <2>1, <2>2, <2>3 DEF Goes
  <2>5. \A t \in Server : beat'[t] \in 0 .. BeatTicks /\ beat'[t] >= beat[t]
    BY <1>1, DistributedAssumption DEF DistTypes
  <2> QED
    BY <1>1, <1>4, <2>4, <2>5, ChallengeGoesOn
<1>13. \A a \in AnyJob : In(queue[s], a) /\ In(queue[s], a) /\ a.c \in {c} => Kept(a) /\ LocksOK(a)'
  BY <1>5, OldJobKept
<1>14. \A a \in AnyJob : In(queue[s], a) /\ In(queue[s], a) /\ a.c = j.c
              => Pair(match'[j.c].opponent, a, j)
  <2>1. \A a \in AnyJob : In(queue[s], a) /\ a.c = j.c => ~Closing(a)
    BY <1>3, <1>7
  <2>2. ~Closing(j) /\ j.fn # "create"
    BY <1>3
  <2> QED
    BY <2>1, <2>2 DEF Pair
<1>15. \A k \in onChain'[s] : Closing(k) /\ k.c = j.c
              => ~Closing(j) /\ Ranked(match[j.c].opponent, j)
  BY <1>3, <1>10
<1>16. \A d \in {c} : ChallengeOK(d)'
  BY <1>12
<1>17. (\A t \in Server : InOrder(t)') /\ (\A d \in ChallengeId : ChallengeOK(d)')
  BY <1>5, <1>8, <1>9, <1>11, <1>13, <1>14, <1>15, <1>16, IssueOK
<1> QED
  BY <1>5, <1>17

(* A challenge is created. *)
LEMMA CreateOK ==
    ASSUME DistInv, DistTypes', NEW s \in Server, NEW q, NEW C, NEW d, d = NextId,
           NEW p \in Player, NEW o \in Player \cup {House}, p # o, NEW staked \in BOOLEAN,
           Fresh # {}, run[s] = "up", d \in C, C \subseteq ChallengeId, Served(s, q, C),
           match' = Created(s, p, o, staked), timer' = [timer EXCEPT ![d] = PendingTicks],
           queue' = [queue EXCEPT ![s] = Append(q, CreateJob(d, o))],
           run' = run, beat' = beat, sweep' = sweep, onChain' = onChain, 
           announced' = announced, told' = told, lock' = lock,
           \A c \in ChallengeId : age'[c] = 0 \/ age'[c] = age[c],
           \A c \in ChallengeId \ C : meta'[c] = meta[c] /\ age'[c] = age[c],
           \A c \in C \ {d} : Used(c) /\ Owner(c) = s /\ ClosedOK(c)'
    PROVE  /\ (\A t \in Server : InOrder(t)') /\ (\A c \in ChallengeId : ChallengeOK(c)')
           /\ \A c \in ChallengeId : Progress(c)
<1>1. /\ match \in [ChallengeId -> MatchType] /\ timer \in [ChallengeId -> Nat] /\ DistTypes
      /\ queue \in [Server -> Seq(AnyJob)]
  BY MatchHasType
<1>2. d \in ChallengeId /\ ~Used(d)
  BY NextIdIsFresh
<1>3. /\ \A c \in ChallengeId : c # d => match'[c] = match[c] /\ timer'[c] = timer[c]
      /\ match'[d].phase = "pending" /\ match'[d].challenger = p
      /\ match'[d].opponent = o /\ match'[d].owner = s
      /\ match'[d].staked = staked /\ timer'[d] = PendingTicks
  <2>1. timer'[d] = PendingTicks /\ \A c \in ChallengeId : c # d => timer'[c] = timer[c]
    BY <1>1, <1>2
  <2>2. /\ \A c \in ChallengeId : c # NextId => Created(s, p, o, staked)[c] = match[c]
        /\ Created(s, p, o, staked)[NextId] =
              [phase |-> "pending", challenger |-> p, opponent |-> o, owner |-> s,
               staked |-> staked]
    BY <1>1, CreatedType
  <2> QED
    BY <2>1, <2>2
<1> SUFFICES ASSUME NEW j, j = CreateJob(d, o)
             PROVE  /\ (\A t \in Server : InOrder(t)') /\ (\A c \in ChallengeId : ChallengeOK(c)')
                    /\ \A c \in ChallengeId : Progress(c)
  OBVIOUS
<1>4. /\ j \in AnyJob /\ j.c = d /\ j.fn = "create" /\ ~Closing(j)
      /\ j.step = IF o = House THEN "register" ELSE "lockFirst"
  BY <1>2, CreateJobType DEF Closing
<1>5. /\ ChallengeOK(d) /\ age[d] = 0 /\ d \notin announced /\ age'[d] = 0
      /\ d \notin told /\ \A t \in Server : d \notin sweep[t]
  BY <1>2 DEF DistInv, ChallengeOK, ToldOK, SweepOK
<1>6. \A c \in ChallengeId : Progress(c)
  <2>1. \A c \in ChallengeId : timer[c] <= timer[c]
    BY <1>1
  <2> QED
    BY <1>2, <1>3, <2>1 DEF Progress, Used
<1>7. \A t \in Server, a \in AnyJob : In(queue[t], a) => a.c # d
  BY <1>2, JobKnown
<1>8. \A t \in Server : \A a \in onChain[t] : a.c # d
  BY <1>2, ChainKnown
<1>9. JobOK(s, j)'
  BY <1>3, <1>4, <1>5 DEF JobOK, StepsOf, Used, Owner
<1>10. LocksOK(j)'
  BY <1>3, <1>4 DEF LocksOK
<1>11. Issues(s, q, j, C)
  <2>1. \A c \in C : Used(c) => Owner(c) = s
    BY <1>2
  <2>2. \A c \in ChallengeId \ C :
           /\ match'[c] = match[c] /\ timer'[c] = timer[c]
           /\ meta'[c] = meta[c] /\ age'[c] = age[c] /\ SameLocks(c)
           /\ c \in announced' <=> c \in announced
           /\ c \in told' <=> c \in told
    BY <1>3 DEF SameLocks
  <2> QED
    BY <1>4, <2>1, <2>2 DEF Issues
<1>12. ChallengeOK(d)'
  <2>1. Used(d)' /\ Owner(d)' = s /\ PartiesOK(d)' /\ IsOpen(d)'
    BY <1>3 DEF Used, Owner, PartiesOK, IsOpen, Open
  <2>2. BeatOK(d)'
    BY <1>5 DEF BeatOK
  <2>3. SweepOK(d)' /\ ToldOK(d)' /\ AnnouncedOK(d)'
    BY <1>5 DEF SweepOK, ToldOK, AnnouncedOK
  <2>4. ClosedOK(d)'
    BY <1>3 DEF ClosedOK
  <2>5. PendingTicks <= PendingTicks
    BY DistributedAssumption
  <2> QED
    BY <1>3, <2>1, <2>2, <2>3, <2>4, <2>5 DEF ChallengeOK
<1>13. ASSUME NEW c \in C, c # d
       PROVE  ChallengeOK(c)'
  <2>1. c \in ChallengeId /\ ChallengeOK(c) /\ Used(c) /\ match'[c] = match[c] /\ timer'[c] = timer[c]
    BY <1>3, <1>13 DEF DistInv
  <2>2. Touched(c)' => Touched(c)
    <3>1. ASSUME NEW t \in Server, NEW a \in AnyJob, In(queue'[t], a), a.c = c
          PROVE  In(queue[t], a)
      <4>1. CASE t # s
        BY <1>1, <3>1, <4>1
      <4>2. CASE t = s
        <5>1. queue'[s] = Append(q, j)
          BY <1>1
        <5>2. q \in Seq(AnyJob) /\ (In(q, a) => In(queue[s], a))
          BY <1>1, HeadIsIn, InTail DEF Issues, Served
        <5>3. In(q, a) \/ a = j
          <6>1. \A b : In(Append(q, j), b) <=> In(q, b) \/ b = j
            BY <1>4, <5>2, InAppended
          <6> QED
            BY <3>1, <4>2, <5>1, <6>1
        <5> QED
          BY <1>4, <1>13, <3>1, <4>2, <5>2, <5>3
      <4> QED
        BY <4>1, <4>2
    <3> QED
      BY <3>1 DEF Touched
  <2>3. AnnouncedOK(c)'
    BY <2>1 DEF ChallengeOK, AnnouncedOK, NotHouse, LocksHeld, Holds, Owner
  <2>4. Goes(c)
    BY <1>6, <1>13, <2>1, <2>2, <2>3 DEF Goes
  <2>5. \A t \in Server : beat'[t] \in 0 .. BeatTicks /\ beat'[t] >= beat[t]
    BY <1>1, DistributedAssumption DEF DistTypes
  <2> QED
    BY <1>1, <2>1, <2>4, <2>5, ChallengeGoesOn
<1>14. \A a \in AnyJob : In(queue[s], a) /\ In(q, a) /\ a.c \in C => Kept(a) /\ LocksOK(a)'
  BY <1>6, OldJobKept
<1>15. \A a \in AnyJob : In(queue[s], a) /\ In(q, a) /\ a.c = j.c => Pair(match'[j.c].opponent, a, j)
  BY <1>4, <1>7
<1>16. \A k \in onChain'[s] : Closing(k) /\ k.c = j.c
              => ~Closing(j) /\ Ranked(match[j.c].opponent, j)
  BY <1>4, <1>8
<1>17. \A c \in C : ChallengeOK(c)'
  BY <1>12, <1>13
<1>18. (\A t \in Server : InOrder(t)') /\ (\A c \in ChallengeId : ChallengeOK(c)')
  BY <1>6, <1>9, <1>10, <1>11, <1>14, <1>15, <1>16, <1>17, IssueOK
<1> QED
  BY <1>6, <1>18

-----------------------------------------------------------------------------
(* A dispatch ends. *)

(* A challenge is still being closed when a job that does not close it ends. *)
LEMMA StillClosing ==
    ASSUME DistInv, NEW s \in Server, queue[s] # <<>>, NEW c0, c0 = HeadOf(s).c,
           ~Closing(HeadOf(s)), match' = match, queue' = Ended(s)
    PROVE  ClosedOK(c0)'
<1>1. /\ c0 \in ChallengeId /\ Used(c0) /\ Owner(c0) = s /\ ChallengeOK(c0) /\ Touched(c0)
  BY HeadKnown
<1>2. SUFFICES ASSUME match[c0].phase \in {"void", "resolved"}, ~match[c0].staked
               PROVE  BeingClosed(c0)'
  BY DEF ClosedOK
<1>3. BeingClosed(c0)
  BY <1>1, <1>2 DEF ChallengeOK, ClosedOK, Settled
<1>4. PICK t \in Server, b \in AnyJob : In(queue[t], b) /\ b.c = c0 /\ Closing(b)
  BY <1>3 DEF BeingClosed
<1>5. t = s
  BY <1>1, <1>4, JobKnown
<1>6. queue \in [Server -> Seq(AnyJob)]
  BY MatchHasType
<1>7. queue'[s] = Tail(queue[s]) /\ (In(queue[s], b) <=> b = HeadOf(s) \/ In(Tail(queue[s]), b))
  BY <1>6, InTail DEF Ended, HeadOf
<1>8. In(queue'[s], b)
  BY <1>4, <1>5, <1>7
<1> QED
  BY <1>4, <1>8 DEF BeingClosed

(* What is known of the jobs behind the head. *)
LEMMA TailKnown ==
    ASSUME DistInv, NEW s \in Server, queue[s] # <<>>, NEW a \in AnyJob, In(Tail(queue[s]), a)
    PROVE  /\ In(queue[s], a) /\ JobOK(s, a) /\ LocksOK(a)
           /\ a.c = HeadOf(s).c => Pair(match[a.c].opponent, HeadOf(s), a)
<1>1. queue[s] \in Seq(AnyJob)
  BY MatchHasType
<1>2. In(queue[s], a) /\ Ahead(queue[s], HeadOf(s), a)
  BY <1>1, InTail, AheadTail DEF HeadOf
<1>3. HeadOf(s) \in AnyJob /\ JobOK(s, a) /\ LocksOK(a)
  BY <1>2, HeadKnown, JobKnown
<1> QED
  BY <1>2, <1>3 DEF DistInv, QueueOK, Orderly

(* A job that leaves the queue and writes no lock keeps the invariant. *)
LEMMA LeavesQuietly ==
    ASSUME DistInv, DistTypes', NEW s \in Server, NEW c0, Leaves(s, c0),
           lock' = lock, lockTtl' = lockTtl,
           \/ announced' = announced
           \/ /\ HeadOf(s).fn = "create" /\ HeadOf(s).step = "status"
              /\ announced' = announced \cup {c0},
           Closing(HeadOf(s)) => ClosedOK(c0)'
    PROVE  DistInv'
<1>1. /\ queue[s] # <<>> /\ c0 = HeadOf(s).c /\ match' = match /\ timer' = timer
      /\ queue' = Ended(s) /\ (age'[c0] = 0 \/ age'[c0] = age[c0])
  BY DEF Leaves
<1>2. /\ HeadOf(s) \in AnyJob /\ c0 \in ChallengeId /\ JobOK(s, HeadOf(s)) /\ LocksOK(HeadOf(s))
      /\ ChallengeOK(c0) /\ DistTypes
  BY <1>1, HeadKnown DEF DistInv
<1>3. \A c \in ChallengeId : Progress(c)
  <2>1. \A c \in ChallengeId : timer[c] <= timer[c]
    BY MatchHasType
  <2> QED
    BY <1>1, <2>1 DEF Progress, Used
<1>4. ASSUME NEW a \in AnyJob, In(Tail(queue[s]), a), a.c = c0
      PROVE  Kept(a) /\ LocksOK(a)'
  <2>1. JobOK(s, a) /\ LocksOK(a) /\ Pair(match[a.c].opponent, HeadOf(s), a)
    BY <1>1, <1>4, TailKnown
  <2>2. LocksOK(a)'
    BY <1>1, <2>1 DEF LocksOK, LocksHeld, Holds, Owner
  <2>3. Kept(a)
    <3>1. CASE announced' = announced
      BY <1>1, <1>2, <1>3, <1>4, <3>1 DEF Kept
    <3>2. CASE HeadOf(s).fn = "create"
      <4>1. a.fn # "create"
        BY <2>1, <3>2 DEF Pair
      <4> QED
        BY <1>2, <1>3, <1>4, <4>1 DEF Kept
    <3> QED
      BY <3>1, <3>2
  <2> QED
    BY <2>2, <2>3
<1>5. AnnouncedOK(c0)'
  <2>1. CASE c0 \in announced
    BY <1>1, <1>2, <2>1 DEF ChallengeOK, AnnouncedOK, NotHouse, LocksHeld, Holds, Owner
  <2>2. CASE c0 \notin announced /\ HeadOf(s).fn = "create" /\ HeadOf(s).step = "status"
    <3>1. match[c0].phase = "pending" /\ match[c0].opponent # House => LocksHeld(c0)
      BY <1>1, <1>2, <2>2 DEF LocksOK
    <3> QED
      BY <1>1, <3>1 DEF AnnouncedOK, NotHouse, LocksHeld, Holds, Owner
  <2>3. CASE c0 \notin announced /\ announced' = announced
    BY <2>3 DEF AnnouncedOK
  <2> QED
    BY <2>1, <2>2, <2>3
<1>6. ClosedOK(c0)'
  BY <1>1, StillClosing
<1>7. (\A t \in Server : InOrder(t)') /\ (\A c \in ChallengeId : ChallengeOK(c)')
  BY <1>4, <1>5, <1>6, LeaveOK
<1> QED
  BY <1>3, <1>7, InvFrom

(* Types of metadata when a status is written. *)
LEMMA MetaAge ==
    ASSUME DistInv, NEW c0 \in ChallengeId, NEW v \in {"none", "partial", "open", "closed"},
           meta' = [meta EXCEPT ![c0] = v],
           age' = age \/ age' = [age EXCEPT ![c0] = 0]
    PROVE  /\ meta' \in [ChallengeId -> {"none", "partial", "open", "closed"}]
           /\ age' \in [ChallengeId -> 0 .. GraceTicks]
           /\ \A c \in ChallengeId : age'[c] = 0 \/ age'[c] = age[c]
           /\ \A c \in ChallengeId : c # c0 => meta'[c] = meta[c] /\ age'[c] = age[c]
           /\ meta'[c0] = v
<1>1. /\ meta \in [ChallengeId -> {"none", "partial", "open", "closed"}]
      /\ age \in [ChallengeId -> 0 .. GraceTicks] /\ 0 \in 0 .. GraceTicks
  BY DistributedAssumption DEF DistInv, DistTypes
<1>2. CASE age' = age
  BY <1>1, <1>2
<1>3. CASE age' = [age EXCEPT ![c0] = 0]
  BY <1>1, <1>3
<1> QED
  BY <1>2, <1>3

(* Types when a job ends or is replaced, and the data of its challenge are  *)
(* written.                                                                 *)
LEMMA EndedTypes ==
    ASSUME DistInv, NEW s \in Server, queue[s] # <<>>,
           queue' = Ended(s),
           match' = match, timer' = timer, lock' = lock, lockTtl' = lockTtl, beat' = beat,
           moved' = moved, escrowed' = escrowed, run' = run, crashes' = crashes,
           home' = home, sweep' = sweep, commands' = commands, told' = told,
           onChain' = onChain \/ onChain' = [onChain EXCEPT ![s] = @ \cup {HeadOf(s)}],
           announced' = announced \/ announced' = announced \cup {HeadOf(s).c},
           meta' \in [ChallengeId -> {"none", "partial", "open", "closed"}],
           age' \in [ChallengeId -> 0 .. GraceTicks]
    PROVE  DistTypes'
<1>1. DistTypes /\ queue \in [Server -> Seq(AnyJob)] /\ HeadOf(s) \in AnyJob
      /\ HeadOf(s).c \in ChallengeId
  BY HeadKnown, MatchHasType
<1>2. queue' \in [Server -> Seq(AnyJob)]
  BY <1>1, QueueType DEF Ended
<1>3. onChain' \in [Server -> SUBSET AnyJob]
  <2>1. onChain \in [Server -> SUBSET AnyJob]
    BY <1>1 DEF DistTypes
  <2>2. CASE onChain' = onChain
    BY <2>1, <2>2
  <2>3. CASE onChain' = [onChain EXCEPT ![s] = @ \cup {HeadOf(s)}]
    BY <1>1, <2>1, <2>3
  <2> QED
    BY <2>2, <2>3
<1>4. announced' \subseteq ChallengeId
  BY <1>1 DEF DistTypes
<1> QED
  BY <1>1, <1>2, <1>3, <1>4 DEF DistTypes, Open

(* Nothing of a challenge is left once the last command of its closing is   *)
(* executed.                                                                *)
LEMMA NothingBehindClear ==
    ASSUME DistInv, NEW s \in Server, queue[s] # <<>>, HeadOf(s).step = "clear",
           NEW a \in AnyJob, In(Tail(queue[s]), a)
    PROVE  a.c # HeadOf(s).c
<1>1. SUFFICES ASSUME a.c = HeadOf(s).c
               PROVE  FALSE
  OBVIOUS
<1>2. HeadOf(s) \in AnyJob /\ JobOK(s, HeadOf(s))
  BY HeadKnown
<1>3. Closing(HeadOf(s))
  BY <1>2, WhichJob
<1>4. Rank(match[a.c].opponent, a) >= Rank(match[a.c].opponent, HeadOf(s)) + 1
  BY <1>1, <1>3, TailKnown DEF Pair
<1>5. Rank(match[a.c].opponent, HeadOf(s)) = 6
  <2>1. CASE match[a.c].opponent = House
    BY <1>3, <2>1 DEF Rank
  <2>2. CASE match[a.c].opponent # House
    BY <1>3, <2>2 DEF Rank
  <2> QED
    BY <2>1, <2>2
<1> QED
  BY <1>4, <1>5, RankType

(* What a queue lists when a job is appended to what is left of it. *)
LEMMA AppendedTo ==
    ASSUME queue \in [Server -> Seq(AnyJob)], NEW s \in Server, NEW j \in AnyJob,
           NEW q \in Seq(AnyJob), queue' = [queue EXCEPT ![s] = Append(q, j)]
    PROVE  /\ queue' \in [Server -> Seq(AnyJob)]
           /\ \A t \in Server : t # s => queue'[t] = queue[t]
           /\ \A a \in AnyJob : In(queue'[s], a) <=> In(q, a) \/ a = j
<1>1. queue'[s] = Append(q, j) /\ Append(q, j) \in Seq(AnyJob)
  OBVIOUS
<1>2. \A a : In(Append(q, j), a) <=> In(q, a) \/ a = j
  BY InAppended
<1>3. /\ queue' \in [Server -> Seq(AnyJob)]
      /\ \A t \in Server : t # s => queue'[t] = queue[t]
  BY <1>1
<1> QED
  BY <1>1, <1>2, <1>3

(* Types of matches when one is created. *)
LEMMA CreatedTypes ==
    ASSUME DistInv, Fresh # {}, NEW s \in Server, NEW p \in Player,
           NEW q \in Player \cup {House}, NEW staked \in BOOLEAN, NEW d, d = NextId,
           match' = Created(s, p, q, staked), timer' = [timer EXCEPT ![d] = PendingTicks]
    PROVE  /\ match' \in [ChallengeId -> MatchType] /\ timer' \in [ChallengeId -> Nat]
           /\ \A c \in ChallengeId : c # d => match'[c] = match[c]
<1>1. match \in [ChallengeId -> MatchType] /\ timer \in [ChallengeId -> Nat]
  BY MatchHasType
<1>2. /\ Created(s, p, q, staked) \in [ChallengeId -> MatchType]
      /\ \A c \in ChallengeId : c # NextId => Created(s, p, q, staked)[c] = match[c]
  BY <1>1, CreatedType
<1>3. timer' \in [ChallengeId -> Nat]
  BY <1>1, DistributedAssumption
<1> QED
  BY <1>2, <1>3

(* The end of a dispatch, with the counter-offer that creates the next      *)
(* challenge.                                                               *)
LEMMA FinishInv ==
    ASSUME DistInv, NEW s \in Server, queue[s] # <<>>, run[s] = "up", Closing(HeadOf(s)),
           Finish(s), NEW c0, c0 = HeadOf(s).c,
           UNCHANGED <<lock, lockTtl, beat, moved, escrowed, nodes, home, sweep>>,
           UNCHANGED <<commands, told, onChain, announced>>,
           NEW v \in {"none", "partial", "open", "closed"},
           meta' = [meta EXCEPT ![c0] = v],
           age' = age \/ age' = [age EXCEPT ![c0] = 0],
           match[c0].staked \/ (v = "none" /\ HeadOf(s).step = "clear")
    PROVE  DistInv'
<1>1. /\ HeadOf(s) \in AnyJob /\ c0 \in ChallengeId /\ JobOK(s, HeadOf(s))
      /\ LocksOK(HeadOf(s)) /\ Used(c0) /\ Owner(c0) = s /\ PartiesOK(c0)
      /\ queue \in [Server -> Seq(AnyJob)] /\ DistTypes
  BY HeadKnown, MatchHasType
<1>2. /\ meta' \in [ChallengeId -> {"none", "partial", "open", "closed"}]
      /\ age' \in [ChallengeId -> 0 .. GraceTicks]
      /\ \A c \in ChallengeId : age'[c] = 0 \/ age'[c] = age[c]
      /\ \A c \in ChallengeId : c # c0 => meta'[c] = meta[c] /\ age'[c] = age[c]
      /\ meta'[c0] = v
  BY <1>1, MetaAge
<1>3. ASSUME match'[c0] = match[c0],
             \A t \in Server : t # s => queue'[t] = queue[t],
             \A a \in AnyJob : In(queue'[s], a) => In(Tail(queue[s]), a) \/ a.c # c0
      PROVE  ClosedOK(c0)'
  <2>1. SUFFICES ASSUME ~match[c0].staked
                 PROVE  Settled(c0)'
    BY <1>3 DEF ClosedOK
  <2>2. v = "none" /\ HeadOf(s).step = "clear"
    BY <2>1
  <2>3. \A t \in Server, a \in AnyJob : In(queue'[t], a) => a.c # c0
    <3>1. SUFFICES ASSUME NEW t \in Server, NEW a \in AnyJob, In(queue'[t], a), a.c = c0
                   PROVE  FALSE
      OBVIOUS
    <3>2. CASE t = s
      BY <1>3, <2>2, <3>1, <3>2, NothingBehindClear
    <3>3. CASE t # s
      BY <1>1, <1>3, <3>1, <3>3, JobKnown
    <3> QED
      BY <3>2, <3>3
  <2>4. \A t \in Server : \A a \in onChain'[t] : a.c # c0
    BY <2>1 DEF DistInv, ChainOK
  <2>5. \A x \in Player : ~Holds(c0, x)'
    BY <1>1, <1>3, <2>2 DEF LocksOK, Holds, Owner
  <2> QED
    BY <1>2, <2>2, <2>3, <2>4, <2>5 DEF Settled, Touched
<1>4. CASE queue' = Ended(s) /\ UNCHANGED UnlessMatch
  <2>1. match' = match /\ timer' = timer /\ run' = run /\ crashes' = crashes
    BY <1>4 DEF UnlessMatch, nodes
  <2>2. DistTypes'
    BY <1>2, <1>4, <2>1, EndedTypes
  <2>3. Leaves(s, c0)
    BY <1>1, <1>2, <1>4, <2>1 DEF Leaves, SameLocks
  <2>4. ClosedOK(c0)'
    <3>1. queue'[s] = Tail(queue[s]) /\ \A t \in Server : t # s => queue'[t] = queue[t]
      BY <1>1, <1>4 DEF Ended
    <3> QED
      BY <1>3, <2>1, <3>1
  <2> QED
    BY <2>2, <2>3, <2>4, LeavesQuietly
<1>5. CASE HeadOf(s).fn = "counter" /\ Fresh # {}
           /\ match' = Created(s, match[c0].opponent, match[c0].challenger, TRUE)
           /\ timer' = [timer EXCEPT ![NextId] = PendingTicks]
           /\ queue' = [queue EXCEPT ![s] =
                           Append(Tail(@), CreateJob(NextId, match[c0].challenger))]
  <2> SUFFICES ASSUME NEW p, p = match[c0].opponent, NEW q, q = match[c0].challenger,
                      NEW staked \in BOOLEAN, match' = Created(s, p, q, staked)
               PROVE  DistInv'
    BY <1>5
  <2>1. p \in Player /\ q \in Player /\ p # q
    BY <1>1, <1>5 DEF JobOK, PartiesOK
  <2> SUFFICES ASSUME NEW d, d = NextId, NEW j, j = CreateJob(d, q)
               PROVE  DistInv'
    OBVIOUS
  <2>2. /\ Fresh # {}
        /\ timer' = [timer EXCEPT ![d] = PendingTicks]
        /\ queue' = [queue EXCEPT ![s] = Append(Tail(queue[s]), j)]
    BY <1>1, <1>5
  <2>3. d \in ChallengeId /\ ~Used(d) /\ d # c0
    BY <1>1, <2>2, NextIdIsFresh
  <2>4. Tail(queue[s]) \in Seq(AnyJob) /\ j \in AnyJob /\ j.c = d
    BY <1>1, <2>3, HeadIsIn, CreateJobType
  <2>5. /\ queue' \in [Server -> Seq(AnyJob)]
        /\ \A t \in Server : t # s => queue'[t] = queue[t]
        /\ \A a \in AnyJob : In(queue'[s], a) <=> In(Tail(queue[s]), a) \/ a = j
    BY <1>1, <2>2, <2>4, AppendedTo
  <2>6. /\ match' \in [ChallengeId -> MatchType] /\ timer' \in [ChallengeId -> Nat]
        /\ match'[c0] = match[c0]
    <3>1. match' = Created(s, p, q, staked) /\ q \in Player \cup {House} /\ p \in Player
      BY <2>1
    <3>2. Fresh # {} /\ timer' = [timer EXCEPT ![d] = PendingTicks]
      BY <2>2
    <3>3. match' \in [ChallengeId -> MatchType]
      BY <3>1, <3>2, CreatedTypes
    <3>4. timer' \in [ChallengeId -> Nat]
      BY <3>1, <3>2, CreatedTypes
    <3>5. match'[c0] = match[c0]
      BY <1>1, <2>3, <3>1, MatchHasType DEF Created
    <3> QED
      BY <3>3, <3>4, <3>5
  <2>7. /\ UNCHANGED <<lock, lockTtl, beat, moved, escrowed, run, crashes, home, sweep>>
        /\ UNCHANGED <<commands, told, onChain, announced>>
    BY DEF nodes
  <2>8. DistTypes'
    BY <1>1, <1>2, <2>5, <2>6, <2>7 DEF DistTypes, MatchType
  <2>9. ClosedOK(c0)'
    BY <1>3, <2>3, <2>4, <2>5, <2>6
  <2> DEFINE C == {c0, d}
  <2>10. /\ d \in C /\ C \subseteq ChallengeId /\ Served(s, Tail(queue[s]), C)
         /\ \A c \in ChallengeId \ C : meta'[c] = meta[c] /\ age'[c] = age[c]
         /\ \A c \in C \ {d} : Used(c) /\ Owner(c) = s /\ ClosedOK(c)'
    BY <1>1, <1>2, <2>3, <2>9 DEF Served
  <2> HIDE DEF C
  <2>11. /\ (\A t \in Server : InOrder(t)') /\ (\A c \in ChallengeId : ChallengeOK(c)')
         /\ \A c \in ChallengeId : Progress(c)
    BY <1>2, <2>1, <2>2, <2>7, <2>8, <2>10, CreateOK
  <2> QED
    BY <2>7, <2>8, <2>11, InvFrom
<1>6. CASE HeadOf(s).fn = "counter"
  BY <1>4, <1>5, <1>6 DEF Finish, Counter
<1>7. CASE HeadOf(s).fn # "counter"
  BY <1>4, <1>7 DEF Finish
<1> QED
  BY <1>6, <1>7

(* Writing the status, and what the event asks for after it. *)
LEMMA UpdateStatusInv ==
    ASSUME DistInv, NEW s \in Server, UpdateStatus(s)
    PROVE  DistInv'
<1> SUFFICES ASSUME NEW c0, c0 = HeadOf(s).c
             PROVE  DistInv'
  OBVIOUS
<1>1. run[s] = "up" /\ queue[s] # <<>> /\ HeadOf(s).step = "status"
  BY AtKnown DEF UpdateStatus, Closing
<1>2. /\ HeadOf(s) \in AnyJob /\ c0 \in ChallengeId /\ JobOK(s, HeadOf(s)) /\ LocksOK(HeadOf(s))
      /\ HeadOf(s).fn \in {"create", "accept", "move", "close", "counter"}
  BY <1>1, HeadKnown DEF AnyJob
<1>3. /\ age' = [age EXCEPT ![c0] = 0]
      /\ UNCHANGED <<lock, lockTtl, beat, moved, escrowed, nodes, home, sweep>>
      /\ commands' = commands /\ told' = told
  BY DEF UpdateStatus, Closing
<1>4. PICK v \in {"none", "partial", "open", "closed"} : meta' = [meta EXCEPT ![c0] = v]
  BY DEF UpdateStatus, Closing
<1>5. /\ meta' \in [ChallengeId -> {"none", "partial", "open", "closed"}]
      /\ age' \in [ChallengeId -> 0 .. GraceTicks]
      /\ \A c \in ChallengeId : age'[c] = 0 \/ age'[c] = age[c]
      /\ \A c \in ChallengeId : c # c0 => meta'[c] = meta[c] /\ age'[c] = age[c]
  BY <1>2, <1>3, <1>4, MetaAge
<1>6. CASE /\ queue' = Ended(s) /\ UNCHANGED UnlessMatch
           /\ onChain' = onChain \/ Awaits(s)
           /\ \/ announced' = announced
              \/ HeadOf(s).fn = "create" /\ announced' = announced \cup {c0}
           /\ Closing(HeadOf(s)) => match[c0].staked
  <2>1. /\ match' = match /\ timer' = timer /\ lock' = lock /\ lockTtl' = lockTtl /\ beat' = beat
        /\ moved' = moved /\ escrowed' = escrowed /\ run' = run /\ crashes' = crashes
        /\ home' = home /\ sweep' = sweep
    BY <1>3, <1>6 DEF UnlessMatch, nodes
  <2>2. onChain' = onChain \/ onChain' = [onChain EXCEPT ![s] = @ \cup {HeadOf(s)}]
    BY <1>6 DEF Awaits
  <2>3. announced' = announced \/ announced' = announced \cup {HeadOf(s).c}
    BY <1>6
  <2>4. DistTypes'
    BY <1>1, <1>3, <1>5, <1>6, <2>1, <2>2, <2>3, EndedTypes
  <2>5. \A c \in ChallengeId : c # c0 => (c \in announced' <=> c \in announced)
    BY <2>3
  <2>6. Leaves(s, c0)
    BY <1>1, <1>2, <1>3, <1>5, <1>6, <2>1, <2>5 DEF Leaves, SameLocks
  <2>7. Closing(HeadOf(s)) => ClosedOK(c0)'
    BY <1>6, <2>1 DEF ClosedOK
  <2>8. \/ announced' = announced
        \/ /\ HeadOf(s).fn = "create" /\ HeadOf(s).step = "status"
           /\ announced' = announced \cup {c0}
    BY <1>1, <1>6
  <2> QED
    BY <2>1, <2>4, <2>6, <2>7, <2>8, LeavesQuietly
<1>7. CASE HeadOf(s).fn = "create"
  <2>1. ~Closing(HeadOf(s))
    BY <1>7 DEF Closing
  <2>2. /\ queue' = Ended(s) /\ UNCHANGED UnlessMatch /\ onChain' = onChain
        /\ announced' = announced \cup {c0}
    BY <1>7 DEF UpdateStatus, UnlessMatch, Closing
  <2> QED
    BY <1>6, <1>7, <2>1, <2>2
<1>8. CASE /\ HeadOf(s).fn \in {"move", "accept"}
           /\ ~(HeadOf(s).fn = "accept" /\ match[c0].staked)
  <2>1. ~Closing(HeadOf(s))
    BY <1>8 DEF Closing
  <2>2. /\ queue' = Ended(s) /\ UNCHANGED UnlessMatch /\ onChain' = onChain
        /\ announced' = announced
    <3>1. ~(HeadOf(s).fn \in {"close", "counter", "create"})
      BY <1>8
    <3> QED
      BY <1>8, <3>1 DEF UpdateStatus, UnlessMatch, Closing
  <2> QED
    BY <1>6, <2>1, <2>2
<1>9. CASE HeadOf(s).fn = "accept" /\ match[c0].staked
  <2>1. ~Closing(HeadOf(s))
    BY <1>9 DEF Closing
  <2>2. Await(s) /\ announced' = announced
    BY <1>9 DEF UpdateStatus, Closing
  <2>3. Awaits(s)
    BY <1>1, <1>9, <2>2 DEF Await, Awaits
  <2> QED
    BY <1>6, <2>1, <2>2, <2>3 DEF Await
<1>10. CASE Closing(HeadOf(s)) /\ ~match[c0].staked
  <2> SUFFICES ASSUME NEW j, j = NextJob(s, "getFirst")
               PROVE  DistInv'
    OBVIOUS
  <2>1. GoOn(s, "getFirst") /\ UNCHANGED UnlessMatch /\ onChain' = onChain
        /\ announced' = announced
    BY <1>10 DEF UpdateStatus, Closing, UnlessMatch
  <2>2. /\ j.c = c0 /\ j.fn = HeadOf(s).fn /\ j.step = "getFirst" /\ Closing(j)
        /\ Job(HeadOf(s).c, HeadOf(s).fn, "getFirst") = j
    BY <1>1, <1>10, NextJobIs
  <2>3. Steps(s, "getFirst")
    <3>1. "getFirst" \in StepsOf(match[c0].opponent, HeadOf(s).fn)
      BY <1>10 DEF StepsOf, Closing
    <3>2. Rank(match[c0].opponent, j) <= Rank(match[c0].opponent, HeadOf(s)) + 1
      <4>1. CASE match[c0].opponent = House
        BY <1>1, <1>10, <2>2, <4>1 DEF Rank
      <4>2. CASE match[c0].opponent # House
        BY <1>1, <1>10, <2>2, <4>2 DEF Rank
      <4> QED
        BY <4>1, <4>2
    <3>3. UNCHANGED <<beat, UnlessMatch, NotRedis>>
      BY <1>3, <2>1 DEF NotRedis
    <3> QED
      BY <1>1, <1>3, <1>4, <2>1, <2>2, <3>1, <3>2, <3>3 DEF Steps
  <2>4. LocksOK(j)
    BY <1>10, <2>2 DEF LocksOK, Closing
  <2> QED
    BY <1>3, <2>3, <2>4, StepsQuietly
<1>11. CASE Closing(HeadOf(s)) /\ match[c0].staked /\ c0 \in escrowed
  <2>1. Await(s) /\ announced' = announced
    BY <1>11 DEF UpdateStatus, Closing
  <2>2. Awaits(s)
    BY <1>1, <1>11, <2>1 DEF Await, Awaits, Closing
  <2> QED
    BY <1>6, <1>11, <2>1, <2>2 DEF Await
<1>12. CASE Closing(HeadOf(s)) /\ match[c0].staked /\ c0 \notin escrowed
  <2>1. Finish(s) /\ onChain' = onChain /\ announced' = announced
    BY <1>12 DEF UpdateStatus, Closing
  <2>2. UNCHANGED <<commands, told, onChain, announced>>
    BY <1>3, <2>1
  <2> QED
    BY <1>1, <1>3, <1>4, <1>12, <2>1, <2>2, FinishInv
<1> QED
  BY <1>2, <1>7, <1>8, <1>9, <1>10, <1>11, <1>12 DEF Closing

(* Clearing the metadata leaves nothing of the challenge behind. *)
LEMMA ClearInv ==
    ASSUME DistInv, NEW s \in Server, Clear(s)
    PROVE  DistInv'
<1>1. run[s] = "up" /\ queue[s] # <<>> /\ HeadOf(s).step = "clear"
  BY AtKnown DEF Clear
<1>2. Closing(HeadOf(s))
  BY <1>1, HeadKnown, WhichJob
<1>3. /\ Finish(s) /\ meta' = [meta EXCEPT ![HeadOf(s).c] = "none"] /\ age' = age
      /\ UNCHANGED <<lock, lockTtl, beat, moved, escrowed, nodes, home, sweep>>
      /\ UNCHANGED <<commands, told, onChain, announced>>
  BY DEF Clear, NotRedis
<1> QED
  BY <1>1, <1>2, <1>3, FinishInv

(* Types when only matches, queues, locks, players and commands change. *)
LEMMA LocalTypes ==
    ASSUME DistInv, match' \in [ChallengeId -> MatchType], timer' \in [ChallengeId -> Nat],
           queue' \in [Server -> Seq(AnyJob)],
           lock' \in [Player -> {NoLock} \cup {Lock(c, t) : c \in ChallengeId, t \in Server}],
           lockTtl' \in [Player -> 0 .. LockTicks], home' \in [Player -> Server \cup {NoServer}],
           moved' \in [ChallengeId -> SUBSET (Player \cup {House})],
           commands' \subseteq [c : ChallengeId, actor : Player, answer : Answer],
           run' = run, beat' = beat, sweep' = sweep, onChain' = onChain, meta' = meta,
           age' = age, announced' = announced, told' = told, escrowed' = escrowed,
           crashes' = crashes
    PROVE  DistTypes'
<1>1. DistTypes
  BY DEF DistInv
<1> QED
  BY <1>1 DEF DistTypes, MatchType

(* Types of players, commands and locks. *)
LEMMA OtherTypes ==
    ASSUME DistInv
    PROVE  /\ home \in [Player -> Server \cup {NoServer}]
           /\ moved \in [ChallengeId -> SUBSET (Player \cup {House})]
           /\ commands \subseteq [c : ChallengeId, actor : Player, answer : Answer]
           /\ lock \in [Player -> {NoLock} \cup {Lock(c, t) : c \in ChallengeId, t \in Server}]
           /\ lockTtl \in [Player -> 0 .. LockTicks]
BY DEF DistInv, DistTypes

(* A challenge that got no locks is aborted. *)
LEMMA RefuseInv ==
    ASSUME DistInv, NEW s \in Server, queue[s] # <<>>, run[s] = "up",
           HeadOf(s).step \in {"probeFirst", "rollback"}, Refuse(s),
           UNCHANGED <<meta, age, beat, NotRedis>>, NEW c0, c0 = HeadOf(s).c,
           \/ lock' = lock /\ lockTtl' = lockTtl
           \/ /\ HeadOf(s).step = "rollback"
              /\ lock' = [lock EXCEPT ![match[c0].challenger] = NoLock]
              /\ lockTtl' = [lockTtl EXCEPT ![match[c0].challenger] = 0]
    PROVE  DistInv'
<1> SUFFICES ASSUME NEW p, p = match[c0].challenger
             PROVE  DistInv'
  OBVIOUS
<1>1. /\ HeadOf(s) \in AnyJob /\ c0 \in ChallengeId /\ JobOK(s, HeadOf(s))
      /\ LocksOK(HeadOf(s)) /\ Used(c0) /\ Owner(c0) = s /\ PartiesOK(c0)
      /\ queue \in [Server -> Seq(AnyJob)] /\ DistTypes
      /\ match \in [ChallengeId -> MatchType] /\ timer \in [ChallengeId -> Nat]
  BY HeadKnown, MatchHasType
<1>2. HeadOf(s).fn = "create" /\ ~Closing(HeadOf(s)) /\ match[c0].opponent # House
      /\ c0 \notin announced
  BY <1>1, WhichJob DEF JobOK
<1>3. /\ run' = run /\ beat' = beat /\ sweep' = sweep /\ onChain' = onChain /\ meta' = meta
      /\ age' = age /\ announced' = announced /\ told' = told
      /\ UNCHANGED <<moved, escrowed, crashes, home, commands>>
  BY DEF NotRedis, nodes
<1>4. /\ lock' \in [Player -> {NoLock} \cup {Lock(c, t) : c \in ChallengeId, t \in Server}]
      /\ lockTtl' \in [Player -> 0 .. LockTicks]
      /\ \A x \in Player : x # p => lock'[x] = lock[x] /\ lockTtl'[x] = lockTtl[x]
      /\ lock' = lock \/ (lock'[p] = NoLock /\ lock[p] = Lock(c0, s))
      /\ lock'[p] # NoLock => lock'[p] = lock[p] /\ lockTtl'[p] = lockTtl[p]
  <2>1. /\ lock \in [Player -> {NoLock} \cup {Lock(c, t) : c \in ChallengeId, t \in Server}]
        /\ lockTtl \in [Player -> 0 .. LockTicks] /\ p \in Player /\ 0 \in 0 .. LockTicks
    BY <1>1, DistributedAssumption DEF DistTypes, PartiesOK
  <2>2. HeadOf(s).step = "rollback" => lock[p] = Lock(c0, s)
    BY <1>1 DEF LocksOK, Holds
  <2>3. CASE lock' = lock /\ lockTtl' = lockTtl
    BY <2>1, <2>3
  <2>4. CASE /\ HeadOf(s).step = "rollback"
             /\ lock' = [lock EXCEPT ![p] = NoLock] /\ lockTtl' = [lockTtl EXCEPT ![p] = 0]
    BY <2>1, <2>2, <2>4
  <2> QED
    BY <2>3, <2>4
<1>10. /\ lock' \in [Player -> {NoLock} \cup {Lock(c, t) : c \in ChallengeId, t \in Server}]
       /\ lockTtl' \in [Player -> 0 .. LockTicks]
  BY <1>4
<1>11. /\ home' \in [Player -> Server \cup {NoServer}]
       /\ moved' \in [ChallengeId -> SUBSET (Player \cup {House})]
       /\ commands' \subseteq [c : ChallengeId, actor : Player, answer : Answer]
  BY <1>3, OtherTypes
<1>5. \A d \in ChallengeId : d # c0 => SameLocks(d)
  BY <1>4, LocksAreEqual DEF SameLocks
<1>6. ASSUME NEW a \in AnyJob, In(Tail(queue[s]), a), a.c = c0,
             \A c \in ChallengeId : Progress(c)
      PROVE  Kept(a) /\ LocksOK(a)'
  <2>1. In(queue[s], a) /\ Progress(a.c)
    BY <1>1, <1>6, TailKnown
  <2>2. Kept(a)
    BY <1>3, <2>1 DEF Kept
  <2>3. CASE HeadOf(s).step = "rollback"
    <3>1. a.fn # "create" /\ a.step \in {"push", "trim", "status", "getFirst"}
      BY <1>6, <2>3, BehindRegistration
    <3> QED
      BY <2>2, <3>1 DEF LocksOK
  <2>4. CASE HeadOf(s).step # "rollback"
    <3>1. lock' = lock
      BY <2>4
    <3> QED
      BY <1>3, <2>1, <3>1, OldJobKept
  <2> QED
    BY <2>3, <2>4
<1>7. CASE ~IsOpen(c0)
  <2>1. queue' = Ended(s) /\ match' = match /\ timer' = timer
    BY <1>7 DEF Refuse, UnlessMatch
  <2>2. DistTypes'
    <3>1. queue' \in [Server -> Seq(AnyJob)]
      BY <1>1, <2>1, QueueType DEF Ended
    <3>2. match' \in [ChallengeId -> MatchType] /\ timer' \in [ChallengeId -> Nat]
      BY <1>1, <2>1
    <3> QED
      BY <1>3, <1>10, <1>11, <3>1, <3>2, LocalTypes
  <2>3. Leaves(s, c0)
    BY <1>3, <1>5, <2>1 DEF Leaves
  <2>4. \A c \in ChallengeId : Progress(c)
    <3>1. \A c \in ChallengeId : timer[c] <= timer[c]
      BY <1>1
    <3> QED
      BY <2>1, <3>1 DEF Progress, Used
  <2>5. AnnouncedOK(c0)' /\ ClosedOK(c0)'
    BY <1>2, <1>3, <2>1, StillClosing DEF AnnouncedOK
  <2>6. (\A t \in Server : InOrder(t)') /\ (\A c \in ChallengeId : ChallengeOK(c)')
    BY <1>6, <2>2, <2>3, <2>4, <2>5, LeaveOK
  <2>7. \A x \in Player : LockOK(x)'
    <3>1. SUFFICES ASSUME NEW x \in Player, lock'[x] # NoLock
                   PROVE  LockOK(x)'
      BY DEF LockOK
    <3>2. lock'[x] = lock[x] /\ lockTtl'[x] = lockTtl[x]
      BY <1>4, <3>1
    <3> QED
      BY <2>2, <2>4, <3>2, LockGoesOn
  <2> QED
    BY <2>2, <2>6, <2>7 DEF DistInv, InOrder
<1>8. CASE IsOpen(c0)
  <2> SUFFICES ASSUME NEW fn, fn = "close", NEW j, j = Job(c0, fn, "push"),
                      NEW phase \in {"void", "resolved"}, phase = "void",
                      NEW q, q = Tail(queue[s])
               PROVE  DistInv'
    OBVIOUS
  <2>1. /\ match' = [match EXCEPT ![c0].phase = phase] /\ timer' = [timer EXCEPT ![c0] = 0]
        /\ queue' = [queue EXCEPT ![s] = Append(q, j)]
    BY <1>1, <1>8 DEF Refuse, Continued
  <2>2. q \in Seq(AnyJob) /\ j \in AnyJob
    BY <1>1, HeadIsIn, JobType
  <2>3. DistTypes'
    <3>1. queue' \in [Server -> Seq(AnyJob)]
      BY <1>1, <2>1, <2>2, AppendedTo
    <3>2. timer' \in [ChallengeId -> Nat]
      BY <1>1, <2>1
    <3>3. match' \in [ChallengeId -> MatchType]
      BY <1>1, <2>1, PhaseType
    <3> QED
      BY <1>3, <1>10, <1>11, <3>1, <3>2, <3>3, LocalTypes
  <2>4. \A c \in ChallengeId : Progress(c)
    <3>1. /\ \A d \in ChallengeId : d # c0 => match'[d] = match[d] /\ timer'[d] = timer[d]
          /\ match'[c0].phase = phase /\ match'[c0].challenger = match[c0].challenger
          /\ match'[c0].opponent = match[c0].opponent /\ match'[c0].owner = match[c0].owner
          /\ match'[c0].staked = match[c0].staked
      BY <1>1, <2>1, PhaseType
    <3>2. \A c \in ChallengeId : timer[c] <= timer[c]
      BY <1>1
    <3> QED
      BY <3>1, <3>2 DEF Progress, Used, Open
  <2>5. \A a \in AnyJob : In(queue[s], a) /\ In(q, a) /\ a.c = c0 => LocksOK(a)'
    BY <1>6, <2>4
  <2>6. /\ Served(s, q, {c0}) /\ fn \in {"close", "counter"}
        /\ fn = "counter" => match[c0].opponent # House
    BY DEF Served
  <2>7. (\A t \in Server : InOrder(t)') /\ (\A c \in ChallengeId : ChallengeOK(c)')
    <3>1. /\ c0 \in ChallengeId /\ Owner(c0) = s /\ IsOpen(c0)
          /\ run' = run /\ beat' = beat /\ sweep' = sweep /\ onChain' = onChain
          /\ meta' = meta /\ age' = age /\ announced' = announced /\ told' = told
      BY <1>1, <1>3, <1>8
    <3> QED
      <4>1. ClosesAt(s, q, c0, phase, fn, j)
        BY <2>1, <2>6, <3>1 DEF ClosesAt
      <4> QED
        BY <1>5, <2>3, <2>5, <3>1, <4>1, CloseOK
  <2>8. \A x \in Player : LockOK(x)'
    <3>1. SUFFICES ASSUME NEW x \in Player, lock'[x] # NoLock
                   PROVE  LockOK(x)'
      BY DEF LockOK
    <3>2. lock'[x] = lock[x] /\ lockTtl'[x] = lockTtl[x]
      BY <1>4, <3>1
    <3> QED
      BY <2>3, <2>4, <3>2, LockGoesOn
  <2> QED
    BY <2>3, <2>7, <2>8 DEF DistInv, InOrder
<1> QED
  BY <1>7, <1>8

(* Looking at who holds the challenger's lock. *)
LEMMA ProbeFirstInv ==
    ASSUME DistInv, NEW s \in Server, ProbeFirst(s)
    PROVE  DistInv'
<1>1. run[s] = "up" /\ queue[s] # <<>> /\ HeadOf(s).step = "probeFirst"
  BY AtKnown DEF ProbeFirst
<1>2. /\ Refuse(s) /\ UNCHANGED <<meta, age, beat, NotRedis>> /\ lock' = lock
      /\ lockTtl' = lockTtl
  BY DEF ProbeFirst, redisVars
<1> QED
  BY <1>1, <1>2, RefuseInv

(* The lock that is rolled back is the challenge's own, although DEL does   *)
(* not look.                                                                *)
LEMMA RollbackInv ==
    ASSUME DistInv, NEW s \in Server, Rollback(s)
    PROVE  DistInv'
<1>1. run[s] = "up" /\ queue[s] # <<>> /\ HeadOf(s).step = "rollback"
  BY AtKnown DEF Rollback
<1>2. /\ Refuse(s) /\ UNCHANGED <<meta, age, beat, NotRedis>>
      /\ lock' = [lock EXCEPT ![match[HeadOf(s).c].challenger] = NoLock]
      /\ lockTtl' = [lockTtl EXCEPT ![match[HeadOf(s).c].challenger] = 0]
  BY DEF Rollback
<1> QED
  BY <1>1, <1>2, RefuseInv

(* Every command keeps the invariant. *)
LEMMA RedisInv ==
    ASSUME DistInv, NEW s \in Server, Redis(s)
    PROVE  DistInv'
BY LockFirstInv, LockSecondInv, ProbeFirstInv, ProbeSecondInv, RollbackInv, RegisterInv,
   AppendHistoryInv, UpdateStatusInv, ReleasePlayersInv, ClearInv DEF Redis

-----------------------------------------------------------------------------
(* Servers start and send heartbeats, players come and go, commands are     *)
(* sent, sweeps read.                                                       *)

(* Queues, matches and locks stay. *)
StaysQuiet ==
    /\ UNCHANGED <<match, timer, announced, queue, onChain, lock, lockTtl, meta, age, told>>
    /\ \A s \in Server : run[s] = "up" => run'[s] = "up"
    /\ \A s \in Server : run'[s] # "up" => sweep'[s] = {}
    /\ \A s \in Server : beat'[s] >= beat[s]

(* So does a step that changes neither queues nor matches nor locks. *)
LEMMA QuietInv ==
    ASSUME DistInv, DistTypes', StaysQuiet, \A c \in ChallengeId : SweepOK(c)'
    PROVE  DistInv'
<1>1. /\ match' = match /\ timer' = timer /\ announced' = announced /\ queue' = queue
      /\ onChain' = onChain /\ lock' = lock /\ lockTtl' = lockTtl /\ meta' = meta
      /\ age' = age /\ told' = told
  BY DEF StaysQuiet
<1>2. \A s \in Server : QueueOK(s)' /\ ChainOK(s)'
  <2>1. \A s \in Server : QueueOK(s) /\ ChainOK(s)
    BY DEF DistInv
  <2>2. \A s \in Server, j \in AnyJob : JobOK(s, j) => JobOK(s, j)'
    BY <1>1 DEF JobOK, Used, Owner, IsOpen
  <2>3. \A j \in AnyJob : LocksOK(j) => LocksOK(j)'
    BY <1>1 DEF LocksOK, LocksHeld, Holds, Owner
  <2>4. \A s \in Server : QueueOK(s)'
    BY <1>1, <2>1, <2>2, <2>3 DEF QueueOK
  <2>5. \A s \in Server : onChain[s] \subseteq AnyJob
    BY DEF DistInv, DistTypes
  <2>6. \A s \in Server : ChainOK(s)'
    BY <1>1, <2>1, <2>2, <2>5 DEF ChainOK
  <2> QED
    BY <2>4, <2>6
<1>3. \A s \in Server : ServerOK(s)'
  BY <1>1 DEF StaysQuiet, ServerOK, DistInv
<1>4. ASSUME NEW c \in ChallengeId
      PROVE  ChallengeOK(c)'
  <2>1. ChallengeOK(c) /\ SweepOK(c)'
    BY DEF DistInv
  <2>2. /\ Used(c)' <=> Used(c)
        /\ IsOpen(c)' <=> IsOpen(c)
        /\ Touched(c)' <=> Touched(c)
        /\ BeingClosed(c)' <=> BeingClosed(c)
        /\ Owner(c)' = Owner(c)
    BY <1>1 DEF Used, IsOpen, Touched, BeingClosed, Owner
  <2>3. PartiesOK(c) => PartiesOK(c)'
    BY <1>1 DEF PartiesOK, Owner
  <2>4. Used(c) => Owner(c) \in Server
    BY <2>1 DEF ChallengeOK, PartiesOK
  <2>5. IsOpen(c)' => run'[Owner(c)'] = "up"
    BY <2>1, <2>2, <2>4 DEF ChallengeOK, StaysQuiet, IsOpen, Used, Open
  <2>6. BeatOK(c)'
    <3>1. SUFFICES ASSUME IsOpen(c) \/ Touched(c), age[c] > 0
                   PROVE  beat'[Owner(c)] >= BeatTicks - 1
      BY <1>1, <2>2 DEF BeatOK
    <3>2. beat[Owner(c)] >= BeatTicks - 1 /\ Used(c)
      BY <2>1, <3>1 DEF ChallengeOK, BeatOK
    <3>3. /\ beat'[Owner(c)] >= beat[Owner(c)] /\ beat[Owner(c)] \in Int
          /\ beat'[Owner(c)] \in Int /\ BeatTicks \in Int
      BY <2>4, <3>2, DistributedAssumption DEF StaysQuiet, DistInv, DistTypes
    <3> QED
      BY <3>2, <3>3
  <2>7. ToldOK(c)' /\ AnnouncedOK(c)' /\ ClosedOK(c)'
    <3>1. ToldOK(c) /\ AnnouncedOK(c) /\ ClosedOK(c)
      BY <2>1 DEF ChallengeOK
    <3>2. ToldOK(c)'
      BY <1>1, <2>2, <3>1 DEF ToldOK
    <3>3. AnnouncedOK(c)'
      BY <1>1, <3>1 DEF AnnouncedOK, NotHouse, LocksHeld, Holds, Owner
    <3>4. ClosedOK(c)'
      BY <1>1, <2>2, <3>1 DEF ClosedOK, Settled, Holds, Owner
    <3> QED
      BY <3>2, <3>3, <3>4
  <2> QED
    BY <1>1, <2>1, <2>2, <2>3, <2>5, <2>6, <2>7 DEF ChallengeOK
<1>5. \A p \in Player : LockOK(p)'
  BY <1>1 DEF DistInv, LockOK, Used, Owner, Parties, NotHouse
<1> QED
  BY <1>2, <1>3, <1>4, <1>5 DEF DistInv

(* What a sweep has read stays closed. *)
LEMMA SweepsKept ==
    ASSUME DistInv, UNCHANGED <<match, queue, onChain>>,
           \A s \in Server : sweep'[s] \subseteq sweep[s]
    PROVE  \A c \in ChallengeId : SweepOK(c)'
BY DEF DistInv, ChallengeOK, SweepOK, Used, IsOpen, Touched

(* A step that moves players or commands only. *)
LEMMA Idle ==
    ASSUME DistInv, UNCHANGED <<match, timer, announced, escrowed, run, crashes, queue>>,
           UNCHANGED <<onChain, sweep, lock, lockTtl, meta, age, beat, told>>,
           home' \in [Player -> Server \cup {NoServer}],
           moved' \in [ChallengeId -> SUBSET (Player \cup {House})],
           commands' \subseteq [c : ChallengeId, actor : Player, answer : Answer]
    PROVE  DistInv'
<1>1. DistTypes'
  BY MatchHasType, OtherTypes, LocalTypes
<1>2. \A s \in Server : beat'[s] >= beat[s]
  BY DistributedAssumption DEF DistInv, DistTypes
<1>3. StaysQuiet
  BY <1>2 DEF StaysQuiet, DistInv, ServerOK
<1>4. \A c \in ChallengeId : SweepOK(c)'
  BY SweepsKept
<1> QED
  BY <1>1, <1>3, <1>4, QuietInv

(* An answer is forwarded. *)
LEMMA ForwardInv ==
    ASSUME DistInv, NEW s \in Server, NEW c \in ChallengeId, NEW p \in Player,
           NEW answer \in Answer, Forward(s, c, p, answer)
    PROVE  DistInv'
<1>1. /\ UNCHANGED <<match, timer, announced, escrowed, run, crashes, queue, home, moved>>
      /\ UNCHANGED <<onChain, sweep, lock, lockTtl, meta, age, beat, told>>
  BY DEF Forward, serverVars, redisVars, nodes
<1>2. commands' \subseteq [c : ChallengeId, actor : Player, answer : Answer]
  <2>1. [c |-> c, actor |-> p, answer |-> answer]
           \in [c : ChallengeId, actor : Player, answer : Answer]
    OBVIOUS
  <2>2. commands' = commands \cup {[c |-> c, actor |-> p, answer |-> answer]}
    BY DEF Forward
  <2> QED
    BY <2>1, <2>2, OtherTypes
<1>3. /\ home' \in [Player -> Server \cup {NoServer}]
      /\ moved' \in [ChallengeId -> SUBSET (Player \cup {House})]
  BY <1>1, OtherTypes
<1> QED
  BY <1>1, <1>2, <1>3, Idle

(* A player connects. *)
LEMMA ConnectInv ==
    ASSUME DistInv, NEW s \in Server, NEW p \in Player, Connect(p, s)
    PROVE  DistInv'
<1>1. /\ UNCHANGED <<match, timer, announced, escrowed, run, crashes, queue, commands, moved>>
      /\ UNCHANGED <<onChain, sweep, lock, lockTtl, meta, age, beat, told>>
      /\ home' = [home EXCEPT ![p] = s]
  BY DEF Connect, redisVars, nodes
<1>2. /\ home' \in [Player -> Server \cup {NoServer}]
      /\ moved' \in [ChallengeId -> SUBSET (Player \cup {House})]
      /\ commands' \subseteq [c : ChallengeId, actor : Player, answer : Answer]
  BY <1>1, OtherTypes
<1> QED
  BY <1>1, <1>2, Idle

(* A server starts. *)
LEMMA StartInv ==
    ASSUME DistInv, NEW s \in Server, Start(s)
    PROVE  DistInv'
<1>1. /\ run' = [run EXCEPT ![s] = "up"] /\ sweep' = sweep /\ beat' = beat
      /\ UNCHANGED <<crashes, match, timer, moved, announced, escrowed, home, queue, onChain>>
      /\ UNCHANGED <<lock, lockTtl, meta, age, commands, told>>
  BY DEF Start, redisVars
<1>2. DistTypes
  BY DEF DistInv
<1>3. DistTypes'
  BY <1>1, <1>2 DEF DistTypes, Open
<1>4. StaysQuiet
  <2>1. /\ \A t \in Server : run[t] = "up" => run'[t] = "up"
        /\ \A t \in Server : run'[t] # "up" => run[t] # "up"
        /\ \A t \in Server : beat'[t] >= beat[t]
    BY <1>1, <1>2, DistributedAssumption DEF DistTypes
  <2>2. \A t \in Server : run'[t] # "up" => sweep'[t] = {}
    BY <1>1, <2>1 DEF DistInv, ServerOK
  <2> QED
    BY <1>1, <2>1, <2>2 DEF StaysQuiet
<1>5. \A c \in ChallengeId : SweepOK(c)'
  BY <1>1, SweepsKept
<1> QED
  BY <1>3, <1>4, <1>5, QuietInv

(* A server sends its heartbeat. *)
LEMMA HeartbeatServerInv ==
    ASSUME DistInv, NEW s \in Server, HeartbeatServer(s)
    PROVE  DistInv'
<1>1. /\ beat' = [beat EXCEPT ![s] = BeatTicks] /\ sweep' = sweep /\ run' = run
      /\ UNCHANGED <<crashes, match, timer, moved, announced, escrowed, home, queue, onChain>>
      /\ UNCHANGED <<lock, lockTtl, meta, age, commands, told>>
  BY DEF HeartbeatServer, serverVars, nodes
<1>2. DistTypes
  BY DEF DistInv
<1>3. BeatTicks \in 0 .. BeatTicks /\ beat \in [Server -> 0 .. BeatTicks]
  BY <1>2, DistributedAssumption DEF DistTypes
<1>4. beat' \in [Server -> 0 .. BeatTicks]
  BY <1>1, <1>3
<1>5. DistTypes'
  BY <1>1, <1>2, <1>4 DEF DistTypes, Open
<1>6. StaysQuiet
  <2>1. \A t \in Server : beat'[t] >= beat[t]
    BY <1>1, <1>3, DistributedAssumption
  <2> QED
    BY <1>1, <2>1 DEF StaysQuiet, DistInv, ServerOK
<1>7. \A c \in ChallengeId : SweepOK(c)'
  BY <1>1, SweepsKept
<1> QED
  BY <1>5, <1>6, <1>7, QuietInv

(* A sweep reads the orphans: the owner of an open one would have a         *)
(* heartbeat.                                                               *)
LEMMA SweepReadInv ==
    ASSUME DistInv, NEW s \in Server, SweepRead(s)
    PROVE  DistInv'
<1>1. /\ sweep' = [sweep EXCEPT ![s] = Orphans] /\ run' = run /\ beat' = beat /\ run[s] = "up"
      /\ UNCHANGED <<crashes, match, timer, moved, announced, escrowed, home, queue, onChain>>
      /\ UNCHANGED <<lock, lockTtl, meta, age, commands, told>>
  BY DEF SweepRead, serverVars, redisVars, nodes
<1>2. DistTypes
  BY DEF DistInv
<1>3. sweep' \in [Server -> SUBSET ChallengeId]
  BY <1>1, <1>2 DEF DistTypes, Orphans
<1>4. DistTypes'
  BY <1>1, <1>2, <1>3 DEF DistTypes, Open
<1>5. \A t \in Server : sweep'[t] = IF t = s THEN Orphans ELSE sweep[t]
  BY <1>1, <1>2 DEF DistTypes
<1>6. StaysQuiet
  <2>1. \A t \in Server : beat'[t] >= beat[t]
    BY <1>1, <1>2, DistributedAssumption DEF DistTypes
  <2> QED
    BY <1>1, <1>5, <2>1 DEF StaysQuiet, DistInv, ServerOK
<1>7. ASSUME NEW c \in Orphans
      PROVE  Used(c) /\ ~IsOpen(c) /\ ~Touched(c)
  <2>1. /\ c \in ChallengeId /\ meta[c] = "open" /\ beat[Owner(c)] = 0 /\ age[c] = GraceTicks
        /\ ChallengeOK(c)
    BY <1>7 DEF Orphans, DistInv
  <2>2. Used(c)
    BY <2>1 DEF ChallengeOK
  <2>3. ~(IsOpen(c) \/ Touched(c))
    BY <2>1, DistributedAssumption DEF ChallengeOK, BeatOK
  <2> QED
    BY <2>2, <2>3
<1>8. ASSUME NEW c \in ChallengeId
      PROVE  SweepOK(c)'
  <2>1. SweepOK(c)
    BY DEF DistInv, ChallengeOK
  <2>2. /\ Used(c)' <=> Used(c)
        /\ IsOpen(c)' <=> IsOpen(c)
        /\ Touched(c)' <=> Touched(c)
    BY <1>1 DEF Used, IsOpen, Touched
  <2> QED
    BY <1>5, <1>7, <2>1, <2>2 DEF SweepOK
<1> QED
  BY <1>4, <1>6, <1>8, QuietInv

(* A sweep expires an orphan, which stays closed. *)
LEMMA ExpireOrphanInv ==
    ASSUME DistInv, NEW s \in Server, NEW c \in ChallengeId, ExpireOrphan(s, c)
    PROVE  DistInv'
<1>1. /\ run' = run /\ beat' = beat /\ c \in sweep[s]
      /\ UNCHANGED <<crashes, match, timer, moved, announced, escrowed, home, queue, onChain>>
      /\ UNCHANGED <<age, commands>>
      /\ told' = told \cup {c} /\ sweep' = [sweep EXCEPT ![s] = @ \ {c}]
      /\ meta' = [meta EXCEPT ![c] = "none"]
  BY DEF ExpireOrphan, serverVars, nodes
<1>2. \A p \in Player : \/ lock'[p] = lock[p] /\ lockTtl'[p] = lockTtl[p]
                        \/ lock[p] = Lock(c, s) /\ lock'[p] = NoLock
  BY DEF ExpireOrphan
<1>3. DistTypes
  BY DEF DistInv
<1>4. DistTypes'
  <2>1. lock' \in [Player -> {NoLock} \cup {Lock(d, t) : d \in ChallengeId, t \in Server}]
    BY <1>3 DEF ExpireOrphan, DistTypes
  <2>2. lockTtl' \in [Player -> 0 .. LockTicks]
    BY <1>3, DistributedAssumption DEF ExpireOrphan, DistTypes
  <2>3. /\ told' \subseteq ChallengeId /\ sweep' \in [Server -> SUBSET ChallengeId]
        /\ meta' \in [ChallengeId -> {"none", "partial", "open", "closed"}]
    BY <1>1, <1>3 DEF DistTypes
  <2> QED
    BY <1>1, <1>3, <2>1, <2>2, <2>3 DEF DistTypes, Open
<1>5. /\ \A t \in Server : sweep'[t] \subseteq sweep[t]
      /\ \A d \in ChallengeId : d # c => meta'[d] = meta[d]
      /\ meta'[c] = "none"
  BY <1>1, <1>3 DEF DistTypes
<1>6. Used(c) /\ ~IsOpen(c) /\ ~Touched(c) /\ ChallengeOK(c)
  BY <1>1 DEF DistInv, ChallengeOK, SweepOK
<1>7. \A d \in ChallengeId : Progress(d)
  <2>1. \A d \in ChallengeId : timer[d] <= timer[d]
    BY MatchHasType
  <2> QED
    BY <1>1, <2>1 DEF Progress, Used
<1>8. \A d \in ChallengeId : d # c => SameLocks(d)
  <2>1. SUFFICES ASSUME NEW d \in ChallengeId, d # c, NEW x \in Player
                 PROVE  lock'[x] = Lock(d, Owner(d)) <=> lock[x] = Lock(d, Owner(d))
    BY DEF SameLocks
  <2>2. Lock(c, s) # Lock(d, Owner(d)) /\ NoLock # Lock(d, Owner(d))
    BY <2>1, LocksAreEqual
  <2> QED
    BY <1>2, <2>2
<1>9. \A t \in Server : InOrder(t)'
  <2>1. SUFFICES ASSUME NEW t \in Server
                 PROVE  InOrder(t)'
    OBVIOUS
  <2>2. ASSUME NEW a \in AnyJob, In(queue[t], a)
        PROVE  Kept(a) /\ LocksOK(a)'
    <3>1. JobOK(t, a) /\ LocksOK(a) /\ a.c \in ChallengeId /\ PartiesOK(a.c) /\ Touched(a.c)
      BY <2>2, JobKnown
    <3>2. Kept(a) /\ SameLocks(a.c)
      BY <1>1, <1>6, <1>7, <1>8, <3>1 DEF Kept
    <3> QED
      BY <1>3, <3>1, <3>2, LocksKept
  <2>3. QueueOK(t)'
    BY <1>1, <1>4, <1>7, <2>2, QueueWaits
  <2>4. ChainOK(t)'
    BY <1>1, <1>4, <1>7, ChainGoesOn
  <2>5. ServerOK(t)'
    BY <1>1, <1>5 DEF ServerOK, DistInv
  <2> QED
    BY <2>3, <2>4, <2>5 DEF InOrder
<1>10. \A d \in ChallengeId : d # c => ChallengeOK(d)'
  <2>1. SUFFICES ASSUME NEW d \in ChallengeId, d # c
                 PROVE  ChallengeOK(d)'
    OBVIOUS
  <2>2. Same(d)
    BY <1>1, <1>5, <1>8, <2>1 DEF Same, SameJobs
  <2>3. \A t \in Server : beat'[t] \in 0 .. BeatTicks /\ beat'[t] >= beat[t]
    BY <1>1, <1>3, DistributedAssumption DEF DistTypes
  <2> QED
    BY <1>1, <1>3, <1>4, <2>2, <2>3, ChallengeSame DEF DistInv
<1>11. ChallengeOK(c)'
  <2>1. Used(c)' /\ ~IsOpen(c)' /\ ~Touched(c)' /\ Owner(c)' = Owner(c)
    BY <1>1, <1>6 DEF Used, IsOpen, Touched, Owner
  <2>2. PartiesOK(c)'
    BY <1>1, <1>6 DEF ChallengeOK, PartiesOK, Owner
  <2>3. match'[c].phase # "pending"
    BY <2>1 DEF IsOpen, Open
  <2>4. BeatOK(c)' /\ SweepOK(c)' /\ ToldOK(c)' /\ AnnouncedOK(c)'
    BY <2>1, <2>3 DEF BeatOK, SweepOK, ToldOK, AnnouncedOK
  <2>5. ClosedOK(c)'
    <3>1. SUFFICES ASSUME ClosedOK(c), match[c].phase \in {"void", "resolved"},
                          ~match[c].staked, ~BeingClosed(c)
                   PROVE  Settled(c)'
      BY <1>1, <1>6 DEF ClosedOK, ChallengeOK, BeingClosed
    <3>2. \A x \in Player : ~Holds(c, x)
      BY <3>1 DEF ClosedOK, Settled
    <3>3. Lock(c, Owner(c)) # NoLock
      BY LocksAreEqual
    <3>4. \A x \in Player : ~Holds(c, x)'
      BY <1>2, <2>1, <3>2, <3>3 DEF Holds
    <3> QED
      BY <1>5, <2>1, <3>4 DEF Settled
  <2> QED
    BY <2>1, <2>2, <2>3, <2>4, <2>5 DEF ChallengeOK
<1>12. \A p \in Player : LockOK(p)'
  <2>1. SUFFICES ASSUME NEW p \in Player, lock'[p] # NoLock
                 PROVE  LockOK(p)'
    BY DEF LockOK
  <2>2. lock'[p] = lock[p] /\ lockTtl'[p] = lockTtl[p]
    BY <1>2, <2>1
  <2> QED
    BY <1>4, <1>7, <2>2, LockGoesOn
<1> QED
  BY <1>4, <1>9, <1>10, <1>11, <1>12 DEF DistInv, InOrder

-----------------------------------------------------------------------------
(* The engine of the owner. *)

(* A challenge closes outside any job. *)
LEMMA ClosesInv ==
    ASSUME DistInv, NEW s \in Server, NEW c \in ChallengeId, IsOpen(c), Owner(c) = s,
           NEW phase \in {"void", "resolved"}, NEW fn \in {"close", "counter"},
           fn = "counter" => match[c].opponent # House, Closes(s, c, phase, fn),
           UNCHANGED <<announced, escrowed, run, crashes, onChain, sweep, told>>,
           UNCHANGED <<lock, lockTtl, meta, age, beat>>,
           home' \in [Player -> Server \cup {NoServer}],
           moved' \in [ChallengeId -> SUBSET (Player \cup {House})],
           commands' \subseteq [c : ChallengeId, actor : Player, answer : Answer]
    PROVE  DistInv'
<1> SUFFICES ASSUME NEW j, j = Job(c, fn, "push")
             PROVE  DistInv'
  OBVIOUS
<1>1. /\ match \in [ChallengeId -> MatchType] /\ timer \in [ChallengeId -> Nat]
      /\ queue \in [Server -> Seq(AnyJob)] /\ queue[s] \in Seq(AnyJob)
  BY MatchHasType
<1>2. /\ match' = [match EXCEPT ![c].phase = phase] /\ timer' = [timer EXCEPT ![c] = 0]
      /\ queue' = [queue EXCEPT ![s] = Append(queue[s], j)]
  BY <1>1 DEF Closes, Issued
<1>3. DistTypes'
  <2>1. j \in AnyJob
    BY JobType
  <2>2. queue' \in [Server -> Seq(AnyJob)]
    BY <1>1, <1>2, <2>1, AppendedTo
  <2>3. match' \in [ChallengeId -> MatchType] /\ timer' \in [ChallengeId -> Nat]
    BY <1>1, <1>2, PhaseType
  <2>4. /\ lock' \in [Player -> {NoLock} \cup {Lock(d, t) : d \in ChallengeId, t \in Server}]
        /\ lockTtl' \in [Player -> 0 .. LockTicks]
    BY OtherTypes
  <2> QED
    BY <2>2, <2>3, <2>4, LocalTypes
<1>4. ClosesAt(s, queue[s], c, phase, fn, j)
  BY <1>2 DEF ClosesAt, Served
<1>5. \A d \in ChallengeId : d # c => SameLocks(d)
  BY DEF SameLocks
<1>6. ASSUME NEW a \in AnyJob, In(queue[s], a), a.c = c
      PROVE  LocksOK(a)'
  <2>1. /\ match'[c].challenger = match[c].challenger
        /\ match'[c].opponent = match[c].opponent /\ match'[c].owner = match[c].owner
        /\ match'[c].phase \notin {"pending", "unused"} \cup Open
        /\ match'[c].staked = match[c].staked
    BY <1>1, <1>2, PhaseType DEF Open
  <2>2. Progress(c)
    BY <2>1 DEF Progress, Open
  <2> QED
    BY <1>6, <2>2, OldJobKept
<1>7. /\ (\A t \in Server : InOrder(t)') /\ (\A d \in ChallengeId : ChallengeOK(d)')
      /\ \A d \in ChallengeId : Progress(d)
  BY <1>3, <1>4, <1>5, <1>6, CloseOK
<1> QED
  BY <1>3, <1>7, InvFrom

(* The owner handles an answer. *)
LEMMA HandleInv ==
    ASSUME DistInv, NEW s \in Server, NEW c \in ChallengeId, NEW p \in Player \cup {House},
           NEW answer \in Answer, answer = "counter" => p # House, Owner(c) = s,
           Handle(s, c, p, answer), commands' \subseteq commands
    PROVE  DistInv'
<1>1. /\ UNCHANGED <<announced, escrowed, run, crashes, home, onChain, sweep, told>>
      /\ UNCHANGED <<lock, lockTtl, meta, age, beat>> /\ Valid(c, p, answer)
  BY DEF Handle, redisVars, nodes
<1>2. IsOpen(c) /\ (answer # "move" => p = match[c].opponent)
  BY <1>1 DEF Valid, IsOpen, Open
<1>3. /\ match \in [ChallengeId -> MatchType] /\ timer \in [ChallengeId -> Nat] /\ DistTypes
      /\ queue \in [Server -> Seq(AnyJob)] /\ queue[s] \in Seq(AnyJob)
  BY MatchHasType
<1>4. /\ home' \in [Player -> Server \cup {NoServer}]
      /\ commands' \subseteq [c : ChallengeId, actor : Player, answer : Answer]
      /\ lock' \in [Player -> {NoLock} \cup {Lock(d, t) : d \in ChallengeId, t \in Server}]
      /\ lockTtl' \in [Player -> 0 .. LockTicks]
      /\ moved \in [ChallengeId -> SUBSET (Player \cup {House})]
  BY <1>1, OtherTypes
<1>5. ASSUME NEW phase \in {"void", "resolved"}, NEW fn \in {"close", "counter"},
             fn = "counter" => p # House /\ p = match[c].opponent,
             Closes(s, c, phase, fn), moved' \in [ChallengeId -> SUBSET (Player \cup {House})]
      PROVE  DistInv'
  BY <1>1, <1>2, <1>4, <1>5, ClosesInv
<1>6. ASSUME NEW fn \in {"accept", "move"}, NEW j, j = Job(c, fn, "push"),
             queue' = Issued(s, j),
             \/ match' = match /\ timer' = timer
             \/ /\ match' = [match EXCEPT ![c].phase = "active"]
                /\ timer' = [timer EXCEPT ![c] = ActiveTicks],
             moved' \in [ChallengeId -> SUBSET (Player \cup {House})]
      PROVE  DistInv'
  <2>1. queue' = [queue EXCEPT ![s] = Append(queue[s], j)]
    BY <1>3, <1>6 DEF Issued
  <2>2. j \in AnyJob
    BY <1>6, JobType
  <2>3. DistTypes'
    <3>1. queue' \in [Server -> Seq(AnyJob)]
      BY <1>3, <2>1, <2>2, AppendedTo
    <3>2. match' \in [ChallengeId -> MatchType] /\ timer' \in [ChallengeId -> Nat]
      <4>1. CASE match' = match /\ timer' = timer
        BY <1>3, <4>1
      <4>2. CASE /\ match' = [match EXCEPT ![c].phase = "active"]
                 /\ timer' = [timer EXCEPT ![c] = ActiveTicks]
        <5>1. "active" \in {"unused", "void", "resolved", "lost"} \cup Open
          BY DEF Open
        <5> QED
          BY <1>3, <4>2, <5>1, PhaseType, DistributedAssumption
      <4> QED
        BY <1>6, <4>1, <4>2
    <3> QED
      BY <1>1, <1>4, <1>6, <3>1, <3>2, LocalTypes
  <2>4. AnsweredAt(s, c, fn, j)
    BY <1>1, <1>2, <1>6, <2>1 DEF AnsweredAt
  <2>5. /\ (\A t \in Server : InOrder(t)') /\ (\A d \in ChallengeId : ChallengeOK(d)')
        /\ \A d \in ChallengeId : Progress(d)
    BY <2>3, <2>4, AnswerOK
  <2> QED
    BY <1>1, <2>3, <2>5, InvFrom
<1>7. moved' = moved \/ moved' = [moved EXCEPT ![c] = @ \cup {p}]
  BY DEF Handle
<1>8. moved' \in [ChallengeId -> SUBSET (Player \cup {House})]
  BY <1>4, <1>7
<1>9. CASE /\ answer = "accept"
           /\ match' = [match EXCEPT ![c].phase = "active"]
           /\ timer' = [timer EXCEPT ![c] = ActiveTicks]
           /\ queue' = Issued(s, Job(c, "accept", "push"))
  BY <1>6, <1>8, <1>9
<1>10. CASE answer = "decline" /\ Closes(s, c, "void", "close")
  BY <1>5, <1>8, <1>10
<1>11. CASE answer = "counter" /\ Closes(s, c, "void", "counter")
  BY <1>2, <1>5, <1>8, <1>11
<1>12. CASE answer = "move" /\ Closes(s, c, "resolved", "close")
  BY <1>5, <1>8, <1>12
<1>13. CASE /\ answer = "move" /\ queue' = Issued(s, Job(c, "move", "push"))
            /\ UNCHANGED <<match, timer>>
  BY <1>6, <1>8, <1>13
<1> QED
  BY <1>9, <1>10, <1>11, <1>12, <1>13 DEF Handle

(* An answer of a player connected to the owner. *)
LEMMA AnswerHereInv ==
    ASSUME DistInv, NEW s \in Server, NEW c \in ChallengeId, NEW p \in Player \cup {House},
           NEW answer \in Answer, AnswerHere(s, c, p, answer)
    PROVE  DistInv'
<1>1. /\ Owner(c) = s /\ Handle(s, c, p, answer) /\ commands' = commands
      /\ p = House => answer \in {"accept", "move"}
  BY DEF AnswerHere
<1> QED
  BY <1>1, HandleInv

(* A forwarded answer arrives, perhaps too late. *)
LEMMA ReceiveInv ==
    ASSUME DistInv, NEW m \in commands, Receive(m)
    PROVE  DistInv'
<1>1. /\ m.c \in ChallengeId /\ m.actor \in Player /\ m.answer \in Answer
      /\ commands' = commands \ {m} /\ commands' \subseteq commands
  BY OtherTypes DEF Receive
<1>2. CASE Handle(Owner(m.c), m.c, m.actor, m.answer)
  <2>1. IsOpen(m.c)
    BY <1>2 DEF Handle, Valid, IsOpen, Open
  <2>2. Owner(m.c) \in Server
    BY <1>1, <2>1 DEF DistInv, ChallengeOK, PartiesOK, Used, IsOpen, Open
  <2>3. m.actor # House
    BY <1>1, DistributedAssumption
  <2> QED
    BY <1>1, <1>2, <2>2, <2>3, HandleInv
<1>3. CASE UNCHANGED <<serverVars, redisVars, sweep, told>>
  <2>1. /\ UNCHANGED <<match, timer, announced, escrowed, run, crashes, queue, home, moved>>
        /\ UNCHANGED <<onChain, sweep, lock, lockTtl, meta, age, beat, told>>
    BY <1>3 DEF serverVars, redisVars, nodes
  <2>2. /\ home' \in [Player -> Server \cup {NoServer}]
        /\ moved' \in [ChallengeId -> SUBSET (Player \cup {House})]
        /\ commands' \subseteq [c : ChallengeId, actor : Player, answer : Answer]
    BY <1>1, <2>1, OtherTypes
  <2> QED
    BY <2>1, <2>2, Idle
<1> QED
  BY <1>2, <1>3 DEF Receive

(* A player disconnects. *)
LEMMA DisconnectInv ==
    ASSUME DistInv, NEW p \in Player, Disconnect(p)
    PROVE  DistInv'
<1> SUFFICES ASSUME NEW s, s = home[p]
             PROVE  DistInv'
  OBVIOUS
<1>1. /\ s \in Server /\ home' = [home EXCEPT ![p] = NoServer]
      /\ UNCHANGED <<moved, announced, escrowed, run, crashes, onChain, sweep, commands, told>>
      /\ UNCHANGED <<lock, lockTtl, meta, age, beat>>
  BY OtherTypes DEF Disconnect, nodes, redisVars
<1>2. /\ home' \in [Player -> Server \cup {NoServer}]
      /\ moved' \in [ChallengeId -> SUBSET (Player \cup {House})]
      /\ commands' \subseteq [c : ChallengeId, actor : Player, answer : Answer]
  BY <1>1, OtherTypes
<1>3. CASE UNCHANGED <<match, timer, queue>>
  BY <1>1, <1>2, <1>3, Idle
<1>4. ASSUME NEW c \in OpenAt(s), Closes(s, c, "void", "close")
      PROVE  DistInv'
  <2>1. c \in ChallengeId /\ IsOpen(c) /\ Owner(c) = s
    BY <1>4 DEF OpenAt
  <2> QED
    BY <1>1, <1>2, <1>4, <2>1, ClosesInv
<1> QED
  BY <1>3, <1>4 DEF Disconnect

(* A challenge is sent. *)
LEMMA SendInv ==
    ASSUME DistInv, NEW s \in Server, NEW p \in Player, NEW q \in Player \cup {House},
           NEW staked \in BOOLEAN, Send(s, p, q, staked)
    PROVE  DistInv'
<1> SUFFICES ASSUME NEW d, d = NextId, NEW j, j = CreateJob(d, q)
             PROVE  DistInv'
  OBVIOUS
<1>1. /\ run[s] = "up" /\ p # q /\ Fresh # {}
      /\ match' = Created(s, p, q, staked) /\ timer' = [timer EXCEPT ![d] = PendingTicks]
      /\ queue' = Issued(s, j)
      /\ UNCHANGED <<moved, announced, escrowed, run, crashes, home, onChain, sweep>>
      /\ UNCHANGED <<lock, lockTtl, meta, age, beat, commands, told>>
  BY DEF Send, redisVars, nodes
<1>2. /\ queue \in [Server -> Seq(AnyJob)] /\ queue[s] \in Seq(AnyJob) /\ d \in ChallengeId
      /\ queue' = [queue EXCEPT ![s] = Append(queue[s], j)] /\ j \in AnyJob
  BY <1>1, MatchHasType, NextIdIsFresh, CreateJobType DEF Issued
<1>3. DistTypes'
  <2>1. queue' \in [Server -> Seq(AnyJob)]
    BY <1>2, AppendedTo
  <2>2. match' \in [ChallengeId -> MatchType]
    BY <1>1, CreatedTypes
  <2>3. timer' \in [ChallengeId -> Nat]
    BY <1>1, CreatedTypes
  <2>4. /\ home' \in [Player -> Server \cup {NoServer}]
        /\ moved' \in [ChallengeId -> SUBSET (Player \cup {House})]
        /\ commands' \subseteq [c : ChallengeId, actor : Player, answer : Answer]
        /\ lock' \in [Player -> {NoLock} \cup {Lock(c, t) : c \in ChallengeId, t \in Server}]
        /\ lockTtl' \in [Player -> 0 .. LockTicks]
    BY <1>1, OtherTypes
  <2> QED
    BY <1>1, <2>1, <2>2, <2>3, <2>4, LocalTypes
<1>4. /\ d \in {d} /\ {d} \subseteq ChallengeId /\ Served(s, queue[s], {d})
      /\ \A c \in ChallengeId : age'[c] = 0 \/ age'[c] = age[c]
      /\ \A c \in ChallengeId \ {d} : meta'[c] = meta[c] /\ age'[c] = age[c]
      /\ \A c \in {d} \ {d} : Used(c) /\ Owner(c) = s /\ ClosedOK(c)'
  BY <1>1, <1>2 DEF Served
<1>5. /\ (\A t \in Server : InOrder(t)') /\ (\A c \in ChallengeId : ChallengeOK(c)')
      /\ \A c \in ChallengeId : Progress(c)
  BY <1>1, <1>2, <1>3, <1>4, CreateOK
<1> QED
  BY <1>1, <1>3, <1>5, InvFrom

-----------------------------------------------------------------------------
(* The chain answers. *)

(* lockStake returns: the stakes are locked, or not, or the challenge is    *)
(* aborted.                                                                 *)
LEMMA StakeReturnsInv ==
    ASSUME DistInv, NEW s \in Server, NEW j \in onChain[s], StakeReturns(s, j)
    PROVE  DistInv'
<1> SUFFICES ASSUME NEW c0, c0 = j.c
             PROVE  DistInv'
  OBVIOUS
<1>1. /\ UNCHANGED <<moved, announced, run, crashes, home, queue, sweep, commands, told>>
      /\ UNCHANGED <<lock, lockTtl, meta, age, beat>>
      /\ onChain' = [onChain EXCEPT ![s] = @ \ {j}]
      /\ escrowed' = escrowed \/ escrowed' = escrowed \cup {c0}
      /\ \/ match' = match /\ timer' = timer
         \/ /\ IsOpen(c0) /\ match' = [match EXCEPT ![c0].phase = "void"]
            /\ timer' = [timer EXCEPT ![c0] = 0]
  BY DEF StakeReturns, redisVars, nodes, UnlessMatch
<1>2. /\ match \in [ChallengeId -> MatchType] /\ timer \in [ChallengeId -> Nat] /\ DistTypes
  BY MatchHasType
<1>3. /\ j \in AnyJob /\ c0 \in ChallengeId /\ Used(c0) /\ ChallengeOK(c0) /\ Touched(c0)
      /\ match[c0].staked
  BY ChainKnown DEF DistInv, ChainOK
<1>4. /\ match' \in [ChallengeId -> MatchType] /\ timer' \in [ChallengeId -> Nat]
      /\ \A d \in ChallengeId : d # c0 => match'[d] = match[d] /\ timer'[d] = timer[d]
      /\ match'[c0].challenger = match[c0].challenger
      /\ match'[c0].opponent = match[c0].opponent /\ match'[c0].owner = match[c0].owner
      /\ match'[c0].staked = match[c0].staked
      /\ \/ match'[c0].phase = match[c0].phase /\ timer'[c0] = timer[c0]
         \/ match'[c0].phase = "void" /\ IsOpen(c0)
  <2>1. CASE match' = match /\ timer' = timer
    BY <1>2, <1>3, <2>1
  <2>2. CASE /\ IsOpen(c0) /\ match' = [match EXCEPT ![c0].phase = "void"]
             /\ timer' = [timer EXCEPT ![c0] = 0]
    <3>1. match[c0] \in MatchType
      BY <1>2, <1>3
    <3>2. [match[c0] EXCEPT !.phase = "void"] \in MatchType
      BY <3>1 DEF MatchType
    <3>3. match'[c0] = [match[c0] EXCEPT !.phase = "void"]
      BY <1>2, <1>3, <2>2
    <3>4. match' \in [ChallengeId -> MatchType]
      BY <1>2, <1>3, <2>2, <3>2
    <3>5. timer' \in [ChallengeId -> Nat]
      BY <1>2, <1>3, <2>2
    <3>6. \A d \in ChallengeId : d # c0 => match'[d] = match[d] /\ timer'[d] = timer[d]
      BY <1>2, <2>2
    <3>7. /\ match'[c0].challenger = match[c0].challenger
          /\ match'[c0].opponent = match[c0].opponent /\ match'[c0].owner = match[c0].owner
          /\ match'[c0].staked = match[c0].staked /\ match'[c0].phase = "void"
      BY <3>1, <3>3 DEF MatchType
    <3> QED
      BY <2>2, <3>4, <3>5, <3>6, <3>7
  <2> QED
    BY <1>1, <2>1, <2>2
<1>5. /\ onChain' \in [Server -> SUBSET AnyJob]
      /\ \A t \in Server : onChain'[t] \subseteq onChain[t]
      /\ \A t \in Server : \A a \in onChain[t] : a.c # c0 => a \in onChain'[t]
  <2>1. onChain \in [Server -> SUBSET AnyJob]
    BY <1>2 DEF DistTypes
  <2> QED
    BY <1>1, <2>1
<1>6. DistTypes'
  <2>1. escrowed' \subseteq ChallengeId
    BY <1>1, <1>2, <1>3 DEF DistTypes
  <2>2. match' \in [ChallengeId -> MatchType] /\ timer' \in [ChallengeId -> Nat]
    BY <1>4
  <2>3. onChain' \in [Server -> SUBSET AnyJob]
    BY <1>5
  <2>4. /\ UNCHANGED <<moved, announced, run, crashes, home, queue, sweep, commands, told>>
        /\ UNCHANGED <<lock, lockTtl, meta, age, beat>>
    BY <1>1
  <2> QED
    BY <1>2, <2>1, <2>2, <2>3, <2>4 DEF DistTypes, MatchType
<1>7. \A d \in ChallengeId : Progress(d)
  <2>1. \A d \in ChallengeId : timer[d] <= timer[d]
    BY <1>2
  <2>2. Progress(c0)
    <3>2. CASE match'[c0].phase = "void" /\ IsOpen(c0)
      BY <1>4, <3>2 DEF Progress, Open, Used, IsOpen
    <3>3. CASE match'[c0].phase = match[c0].phase /\ timer'[c0] = timer[c0]
      BY <1>3, <1>4, <2>1, <3>3 DEF Progress, Used
    <3> QED
      BY <1>4, <3>2, <3>3
  <2> QED
    BY <1>4, <2>1, <2>2 DEF Progress, Used
<1>8. \A t \in Server : InOrder(t)'
  <2>1. SUFFICES ASSUME NEW t \in Server
                 PROVE  InOrder(t)'
    OBVIOUS
  <2>2. ASSUME NEW a \in AnyJob, In(queue[t], a)
        PROVE  Kept(a) /\ LocksOK(a)'
    <3>1. a.c \in ChallengeId
      BY DEF AnyJob
    <3> QED
      BY <1>1, <1>7, <2>2, <3>1, OldJobKept
  <2>3. QueueOK(t)'
    BY <1>1, <1>6, <1>7, <2>2, QueueWaits
  <2>4. \A k \in onChain'[t] : \A a \in AnyJob :
           Closing(k) /\ In(queue'[t], a) /\ a.c = k.c
             => In(queue[t], a) \/ (~Closing(a) /\ Ranked(match[k.c].opponent, a))
    BY <1>1
  <2>5. ChainOK(t)'
    BY <1>5, <1>6, <1>7, <2>4, ChainGoesOn
  <2>6. ServerOK(t)'
    BY <1>1, <1>5 DEF ServerOK, DistInv
  <2> QED
    BY <2>3, <2>5, <2>6 DEF InOrder
<1>9. \A t \in Server : beat'[t] \in 0 .. BeatTicks /\ beat'[t] >= beat[t]
  BY <1>1, <1>2, DistributedAssumption DEF DistTypes
<1>10. \A d \in ChallengeId : d # c0 => ChallengeOK(d)'
  <2>1. SUFFICES ASSUME NEW d \in ChallengeId, d # c0
                 PROVE  ChallengeOK(d)'
    OBVIOUS
  <2>2. SameJobs(d) /\ SameLocks(d)
    BY <1>1, <1>5, <2>1 DEF SameJobs, SameLocks
  <2>3. Same(d)
    BY <1>1, <1>4, <2>1, <2>2 DEF Same
  <2> QED
    BY <1>1, <1>2, <1>6, <1>9, <2>3, ChallengeSame DEF DistInv
<1>11. ChallengeOK(c0)'
  <2>1. ClosedOK(c0)'
    BY <1>3, <1>4 DEF ClosedOK
  <2>2. AnnouncedOK(c0)'
    <3>1. SUFFICES ASSUME c0 \in announced, match[c0].phase = "pending", timer[c0] > 0,
                          match[c0].opponent # House
                   PROVE  LocksHeld(c0)'
      BY <1>1, <1>4 DEF AnnouncedOK, NotHouse
    <3>2. LocksHeld(c0)
      BY <1>3, <3>1 DEF ChallengeOK, AnnouncedOK, NotHouse
    <3> QED
      BY <1>1, <1>4, <3>2 DEF LocksHeld, Holds, Owner
  <2>3. Goes(c0)
    BY <1>1, <1>3, <1>7, <2>1, <2>2 DEF Goes
  <2> QED
    BY <1>1, <1>2, <1>3, <1>6, <1>9, <2>3, ChallengeGoesOn
<1> QED
  <2>1. \A p \in Player : LockOK(p)'
    BY <1>1, <1>6, <1>7, LockGoesOn
  <2> QED
    BY <1>6, <1>8, <1>10, <1>11, <2>1 DEF DistInv, InOrder

(* resolve or refund returns and the release begins, behind every job of the*)
(* challenge.                                                               *)
LEMMA SettlementReturnsInv ==
    ASSUME DistInv, NEW s \in Server, NEW j \in onChain[s], SettlementReturns(s, j)
    PROVE  DistInv'
<1> SUFFICES ASSUME NEW c0, c0 = j.c, NEW g, g = Job(c0, j.fn, "getFirst")
             PROVE  DistInv'
  OBVIOUS
<1>1. /\ UNCHANGED <<moved, announced, run, crashes, home, sweep, commands, told>>
      /\ UNCHANGED <<match, timer, lock, lockTtl, meta, age, beat>>
      /\ onChain' = [onChain EXCEPT ![s] = @ \ {j}] /\ escrowed' = escrowed \ {c0}
      /\ j.fn # "accept"
  BY DEF SettlementReturns, redisVars, nodes, UnlessMatch
<1>2. /\ queue \in [Server -> Seq(AnyJob)] /\ queue[s] \in Seq(AnyJob) /\ DistTypes
      /\ match \in [ChallengeId -> MatchType] /\ timer \in [ChallengeId -> Nat]
  BY MatchHasType
<1>3. /\ j \in AnyJob /\ c0 \in ChallengeId /\ Used(c0) /\ Owner(c0) = s /\ ChallengeOK(c0)
      /\ PartiesOK(c0) /\ Touched(c0) /\ JobOK(s, j)
      /\ match[c0].staked /\ j.fn \in {"close", "counter"} /\ Closing(j)
  BY <1>1, ChainKnown DEF DistInv, ChainOK, Closing
<1>4. /\ g \in AnyJob /\ g.c = c0 /\ g.fn = j.fn /\ g.step = "getFirst" /\ Closing(g)
  BY <1>3, JobType DEF Closing
<1>5. queue' = [queue EXCEPT ![s] = Append(queue[s], g)]
  BY <1>2 DEF SettlementReturns, Issued
<1>6. /\ queue' \in [Server -> Seq(AnyJob)]
      /\ \A t \in Server : t # s => queue'[t] = queue[t]
      /\ \A a \in AnyJob : In(queue'[s], a) <=> In(queue[s], a) \/ a = g
  BY <1>2, <1>4, <1>5, AppendedTo
<1>7. /\ onChain' \in [Server -> SUBSET AnyJob]
      /\ \A t \in Server : onChain'[t] \subseteq onChain[t]
      /\ \A t \in Server : \A a \in onChain[t] : a.c # c0 => a \in onChain'[t]
      /\ j \notin onChain'[s]
  <2>1. onChain \in [Server -> SUBSET AnyJob]
    BY <1>2 DEF DistTypes
  <2> QED
    BY <1>1, <2>1
<1>8. DistTypes'
  <2>1. escrowed' \subseteq ChallengeId
    BY <1>1, <1>2 DEF DistTypes
  <2>2. onChain' \in [Server -> SUBSET AnyJob] /\ queue' \in [Server -> Seq(AnyJob)]
    BY <1>6, <1>7
  <2>3. /\ UNCHANGED <<moved, announced, run, crashes, home, sweep, commands, told>>
        /\ UNCHANGED <<match, timer, lock, lockTtl, meta, age, beat>>
    BY <1>1
  <2> QED
    BY <1>2, <2>1, <2>2, <2>3 DEF DistTypes, Open
<1>9. \A d \in ChallengeId : Progress(d)
  <2>1. \A d \in ChallengeId : timer[d] <= timer[d]
    BY <1>2
  <2> QED
    BY <1>1, <2>1 DEF Progress, Used
<1>10. Issues(s, queue[s], g, {c0})
  <2>1. run[s] = "up"
    BY DEF DistInv, ServerOK
  <2>2. /\ {c0} \subseteq ChallengeId /\ \A d \in {c0} : Used(d) => Owner(d) = s
        /\ Served(s, queue[s], {c0})
    BY <1>3 DEF Served
  <2>3. \A d \in ChallengeId \ {c0} :
           /\ match'[d] = match[d] /\ timer'[d] = timer[d]
           /\ meta'[d] = meta[d] /\ age'[d] = age[d] /\ SameLocks(d)
           /\ d \in announced' <=> d \in announced
           /\ d \in told' <=> d \in told
    BY <1>1 DEF SameLocks
  <2> QED
    BY <1>1, <1>4, <1>5, <1>7, <2>1, <2>2, <2>3 DEF Issues
<1>11. \A a \in AnyJob : In(queue[s], a) /\ In(queue[s], a) /\ a.c \in {c0}
          => Kept(a) /\ LocksOK(a)'
  BY <1>1, <1>3, <1>9, OldJobKept
<1>12. JobOK(s, g)'
  <2>1. JobOK(s, g)
    BY <1>3, <1>4 DEF JobOK, StepsOf, Closing
  <2> QED
    BY <1>1, <2>1 DEF JobOK, Used, Owner, IsOpen
<1>13. LocksOK(g)'
  BY <1>4 DEF LocksOK, Closing
<1>14. \A a \in AnyJob : In(queue[s], a) /\ In(queue[s], a) /\ a.c = g.c
          => Pair(match'[g.c].opponent, a, g)
  <2>1. SUFFICES ASSUME NEW a \in AnyJob, In(queue[s], a), a.c = c0
                 PROVE  Pair(match[c0].opponent, a, g)
    BY <1>1, <1>4
  <2>2. ~Closing(a) /\ Ranked(match[c0].opponent, a)
    BY <1>3, <2>1 DEF DistInv, ChainOK
  <2>3. g.fn # "create"
    BY <1>3, <1>4
  <2>4. Rank(match[c0].opponent, g) = IF match[c0].opponent = House THEN 6 ELSE 4
    BY <1>4 DEF Rank
  <2> QED
    BY <2>2, <2>3, <2>4 DEF Pair, Ranked
<1>15. \A k \in onChain'[s] : Closing(k) /\ k.c = g.c
          => ~Closing(g) /\ Ranked(match[g.c].opponent, g)
  BY <1>3, <1>4, <1>7 DEF DistInv, ChainOK
<1>16. ChallengeOK(c0)'
  <2>1. ClosedOK(c0)'
    BY <1>1, <1>3 DEF ClosedOK
  <2>2. AnnouncedOK(c0)'
    BY <1>1, <1>3 DEF ChallengeOK, AnnouncedOK, NotHouse, LocksHeld, Holds, Owner
  <2>3. Goes(c0)
    BY <1>1, <1>3, <1>9, <2>1, <2>2 DEF Goes
  <2>4. \A t \in Server : beat'[t] \in 0 .. BeatTicks /\ beat'[t] >= beat[t]
    BY <1>1, <1>2, DistributedAssumption DEF DistTypes
  <2> QED
    BY <1>1, <1>2, <1>3, <1>8, <2>3, <2>4, ChallengeGoesOn
<1>17. \A d \in {c0} : ChallengeOK(d)'
  BY <1>16
<1>18. (\A t \in Server : InOrder(t)') /\ (\A d \in ChallengeId : ChallengeOK(d)')
  BY <1>8, <1>9, <1>10, <1>11, <1>12, <1>13, <1>14, <1>15, <1>17, IssueOK
<1> QED
  BY <1>1, <1>8, <1>9, <1>18, InvFrom

-----------------------------------------------------------------------------
(* The deadlines pass. *)

(* A closing may follow every job of a challenge that is open. *)
LEMMA BeforeClosing ==
    ASSUME DistInv, NEW s \in Server, NEW a \in AnyJob, In(queue[s], a), IsOpen(a.c),
           NEW j, j.fn = "close", j.step = "push"
    PROVE  Pair(match[a.c].opponent, a, j) /\ ~Closing(a)
<1>1. ~Closing(a) /\ j.fn # "create" /\ a.step \in StepsOf(match[a.c].opponent, a.fn)
      /\ Closing(j)
  BY JobKnown DEF JobOK, Closing
<1>2. Rank(match[a.c].opponent, a) >= Rank(match[a.c].opponent, j)
  <2>1. CASE match[a.c].opponent = House
    <3>1. a.step \in {"register", "push", "trim", "status"}
      BY <1>1, <2>1 DEF StepsOf, Closing, AnyJob
    <3>2. Rank(match[a.c].opponent, a) >= 3 /\ Rank(match[a.c].opponent, j) = 3
      BY <1>1, <2>1, <3>1 DEF Rank
    <3> QED
      BY <3>2, RankType
  <2>2. CASE match[a.c].opponent # House
    <3>1. Rank(match[a.c].opponent, j) = 1
      BY <1>1, <2>2 DEF Rank
    <3> QED
      BY <3>1, RankType
  <2> QED
    BY <2>1, <2>2
<1> QED
  BY <1>1, <1>2 DEF Pair

(* The tick of a server closes what is due. *)
LEMMA TickInv ==
    ASSUME DistInv, NEW s \in Server, Tick(s)
    PROVE  DistInv'
<1> SUFFICES ASSUME NEW D, D = {c \in OpenAt(s) : timer[c] = 0},
                    NEW J, J = {Job(c, "close", "push") : c \in D},
                    NEW r, r = SetToSeq(J)
             PROVE  DistInv'
  OBVIOUS
<1>1. /\ UNCHANGED <<moved, announced, escrowed, run, crashes, home, onChain>>
      /\ UNCHANGED <<timer, lock, lockTtl, meta, age, beat, sweep, commands, told>>
      /\ run[s] = "up" /\ queue' = [queue EXCEPT ![s] = queue[s] \o r]
      /\ match' = [c \in ChallengeId |->
              IF c \in D
              THEN [match[c] EXCEPT !.phase = IF @ = "active" THEN "resolved" ELSE "void"]
              ELSE match[c]]
  BY DEF Tick, Due, redisVars, nodes
<1>2. /\ match \in [ChallengeId -> MatchType] /\ timer \in [ChallengeId -> Nat] /\ DistTypes
      /\ queue \in [Server -> Seq(AnyJob)]
  BY MatchHasType
<1>3. /\ D \subseteq ChallengeId
      /\ \A c \in D : IsOpen(c) /\ Owner(c) = s /\ Used(c) /\ timer[c] = 0
  BY DEF OpenAt, IsOpen, Used, Open
<1>4. IsFiniteSet(J) /\ J \subseteq AnyJob
  BY <1>3, TickJobs
<1>5. /\ r \in Seq(AnyJob) /\ \A a : In(r, a) => a \in J
      /\ \A a : a \in J => In(r, a)
      /\ \A a, b : Ahead(r, a, b) => a # b
  BY <1>4, ListedOnce
<1>6. \A a \in J : a.c \in D /\ a.fn = "close" /\ a.step = "push" /\ Closing(a)
                   /\ a = Job(a.c, "close", "push")
  BY DEF Job, Closing
<1>7. /\ \A c \in ChallengeId : c \notin D => match'[c] = match[c]
      /\ \A c \in D : /\ match'[c].phase \in {"void", "resolved"}
                      /\ match'[c].challenger = match[c].challenger
                      /\ match'[c].opponent = match[c].opponent
                      /\ match'[c].owner = match[c].owner
                      /\ match'[c].staked = match[c].staked
                      /\ match'[c] \in MatchType
  <2>1. ASSUME NEW c \in D, NEW v, v = IF match[c].phase = "active" THEN "resolved" ELSE "void"
        PROVE  /\ match'[c].phase \in {"void", "resolved"}
               /\ match'[c].challenger = match[c].challenger
               /\ match'[c].opponent = match[c].opponent
               /\ match'[c].owner = match[c].owner
               /\ match'[c].staked = match[c].staked
               /\ match'[c] \in MatchType
    <3>1. match[c] \in MatchType
      BY <1>2, <1>3
    <3>2. match'[c] = [match[c] EXCEPT !.phase = v]
      BY <1>1, <1>3, <2>1
    <3>3. v \in {"void", "resolved"}
      BY <2>1
    <3> QED
      BY <3>1, <3>2, <3>3 DEF MatchType
  <2> QED
    BY <1>1, <2>1
<1>8. match' \in [ChallengeId -> MatchType]
  BY <1>1, <1>2, <1>7
<1>9. \A c \in ChallengeId : Progress(c)
  <2>1. \A c \in ChallengeId : timer[c] <= timer[c]
    BY <1>2
  <2> QED
    BY <1>1, <1>7, <2>1 DEF Progress, Used, Open
<1>10. /\ queue' \in [Server -> Seq(AnyJob)]
       /\ \A t \in Server : t # s => queue'[t] = queue[t]
       /\ queue'[s] = queue[s] \o r /\ queue[s] \in Seq(AnyJob)
  <2>1. queue[s] \o r \in Seq(AnyJob)
    BY <1>2, <1>5, ConcatProperties
  <2> QED
    BY <1>1, <1>2, <2>1
<1>11. \A a : In(queue'[s], a) <=> In(queue[s], a) \/ a \in J
  BY <1>5, <1>10, InConcat
<1>12. DistTypes'
  <2>1. /\ home' \in [Player -> Server \cup {NoServer}]
        /\ moved' \in [ChallengeId -> SUBSET (Player \cup {House})]
        /\ commands' \subseteq [c : ChallengeId, actor : Player, answer : Answer]
        /\ lock' \in [Player -> {NoLock} \cup {Lock(c, t) : c \in ChallengeId, t \in Server}]
        /\ lockTtl' \in [Player -> 0 .. LockTicks]
    BY <1>1, OtherTypes
  <2>2. timer' \in [ChallengeId -> Nat] /\ queue' \in [Server -> Seq(AnyJob)]
    BY <1>1, <1>2, <1>10
  <2>3. /\ UNCHANGED <<announced, escrowed, run, crashes, onChain, meta, age, beat>>
        /\ UNCHANGED <<sweep, told>>
    BY <1>1
  <2> QED
    BY <1>8, <2>1, <2>2, <2>3, LocalTypes
<1>13. \A t \in Server : \A a \in AnyJob : In(queue[t], a) => Kept(a) /\ LocksOK(a)'
  <2>1. \A a \in AnyJob : a.c \in ChallengeId
    BY DEF AnyJob
  <2> QED
    BY <1>1, <1>9, <2>1, OldJobKept
<1>14. \A t \in Server : QueueOK(t)'
  <2>1. ASSUME NEW t \in Server, t # s
        PROVE  QueueOK(t)'
    BY <1>9, <1>10, <1>12, <1>13, <2>1, QueueWaits
  <2>2. ASSUME NEW a \in AnyJob, In(queue'[s], a)
        PROVE  JobOK(s, a)' /\ LocksOK(a)'
    <3>1. CASE In(queue[s], a)
      BY <1>2, <1>13, <3>1, JobKnown, JobKept
    <3>2. CASE a \in J
      <4>1. a.c \in D /\ a.fn = "close" /\ a.step = "push"
        BY <1>6, <3>2
      <4>2. Used(a.c)' /\ Owner(a.c)' = s /\ ~IsOpen(a.c)'
        BY <1>3, <1>7, <4>1 DEF Used, Owner, IsOpen, Open
      <4> QED
        BY <4>1, <4>2 DEF JobOK, LocksOK, StepsOf
    <3> QED
      BY <1>11, <2>2, <3>1, <3>2
  <2>3. Orderly(match', queue[s])
    BY <1>9, OldOrder
  <2>4. ASSUME NEW a \in AnyJob, NEW b \in AnyJob, a.c = b.c, Ahead(queue'[s], a, b)
        PROVE  Pair(match'[a.c].opponent, a, b)
    <3>1. CASE Ahead(queue[s], a, b)
      BY <2>3, <2>4, <3>1 DEF Orderly
    <3>2. CASE Ahead(r, a, b)
      BY <1>5, <1>6, <2>4, <3>2, AheadAreIn
    <3>3. CASE In(queue[s], a) /\ In(r, b)
      <4>1. b \in J /\ a.c \in D /\ b.fn = "close" /\ b.step = "push"
        BY <1>5, <1>6, <2>4, <3>3
      <4>2. IsOpen(a.c)
        BY <1>3, <4>1
      <4>3. Pair(match[a.c].opponent, a, b)
        BY <3>3, <4>1, <4>2, BeforeClosing
      <4> QED
        BY <1>7, <4>1, <4>3
    <3> QED
      BY <1>5, <1>10, <2>4, <3>1, <3>2, <3>3, AheadConcat
  <2>5. QueueOK(s)'
    BY <2>2, <2>4 DEF QueueOK, Orderly
  <2> QED
    BY <2>1, <2>5
<1>15. \A t \in Server : ChainOK(t)'
  <2>1. SUFFICES ASSUME NEW t \in Server
                 PROVE  ChainOK(t)'
    OBVIOUS
  <2>2. ASSUME NEW k \in onChain'[t], NEW a \in AnyJob, Closing(k), In(queue'[t], a), a.c = k.c
        PROVE  In(queue[t], a)
    <3>1. CASE t # s
      BY <1>10, <2>2, <3>1
    <3>2. CASE t = s /\ a \in J
      <4>1. IsOpen(k.c)
        BY <1>3, <1>6, <2>2, <3>2
      <4>2. JobOK(t, k)
        BY <1>1, <2>2, ChainKnown
      <4> QED
        BY <2>2, <4>1, <4>2 DEF JobOK
    <3> QED
      BY <1>11, <2>2, <3>1, <3>2
  <2>3. onChain'[t] \subseteq onChain[t]
    BY <1>1
  <2>4. \A k \in onChain'[t] : \A a \in AnyJob :
              Closing(k) /\ In(queue'[t], a) /\ a.c = k.c
                => In(queue[t], a) \/ (~Closing(a) /\ Ranked(match[k.c].opponent, a))
    BY <2>2
  <2> QED
    BY <1>9, <1>12, <2>3, <2>4, ChainGoesOn
<1>16. \A t \in Server : ServerOK(t)'
  <2>1. SUFFICES ASSUME NEW t \in Server
                 PROVE  ServerOK(t)'
    OBVIOUS
  <2>2. ServerOK(t)
    BY DEF DistInv
  <2>3. CASE t = s
    BY <1>1, <2>3 DEF ServerOK
  <2>4. CASE t # s
    BY <1>1, <1>10, <2>2, <2>4 DEF ServerOK
  <2> QED
    BY <2>3, <2>4
<1>17. \A t \in Server : beat'[t] \in 0 .. BeatTicks /\ beat'[t] >= beat[t]
  BY <1>1, <1>2, DistributedAssumption DEF DistTypes
<1>18. ASSUME NEW c \in ChallengeId, c \notin D
       PROVE  ChallengeOK(c)'
  <2>1. SameJobs(c)
    <3>1. ASSUME NEW t \in Server, NEW a \in AnyJob, a.c = c
          PROVE  In(queue'[t], a) <=> In(queue[t], a)
      BY <1>6, <1>10, <1>11, <1>18, <3>1
    <3> QED
      BY <1>1, <3>1 DEF SameJobs
  <2>2. Same(c)
    BY <1>1, <1>7, <1>18, <2>1 DEF Same, SameLocks
  <2>3. ChallengeOK(c)
    BY DEF DistInv
  <2> QED
    BY <1>1, <1>2, <1>12, <1>17, <2>2, <2>3, ChallengeSame
<1>19. ASSUME NEW c \in ChallengeId, c \in D
       PROVE  ChallengeOK(c)'
  <2>1. Job(c, "close", "push") \in J /\ Job(c, "close", "push").c = c
        /\ Closing(Job(c, "close", "push")) /\ Job(c, "close", "push") \in AnyJob
    BY <1>4, <1>19 DEF Job, Closing
  <2>2. BeingClosed(c)'
    BY <1>11, <2>1 DEF BeingClosed
  <2>3. ClosedOK(c)' /\ AnnouncedOK(c)'
    BY <1>7, <1>19, <2>2 DEF ClosedOK, AnnouncedOK
  <2>4. Goes(c)
    BY <1>1, <1>3, <1>9, <1>19, <2>3 DEF Goes
  <2>5. ChallengeOK(c)
    BY DEF DistInv
  <2> QED
    BY <1>1, <1>2, <1>12, <1>17, <2>4, <2>5, ChallengeGoesOn
<1>20. \A t \in Server : InOrder(t)'
  BY <1>14, <1>15, <1>16 DEF InOrder
<1>21. \A c \in ChallengeId : ChallengeOK(c)'
  BY <1>18, <1>19
<1> QED
  BY <1>1, <1>9, <1>12, <1>20, <1>21, InvFrom

-----------------------------------------------------------------------------
(* A server crashes. *)

(* What a server handles, and what is known of it. *)
LEMMA HandledIs ==
    ASSUME DistInv, NEW s \in Server
    PROVE  /\ \A j \in onChain[s] : j.c \in Handled(s)
           /\ \A j \in AnyJob : In(queue[s], j) => j.c \in Handled(s)
           /\ \A c \in Handled(s) : c \in ChallengeId /\ Used(c) /\ Owner(c) = s /\ Touched(c)
<1>1. queue[s] \in Seq(AnyJob)
  BY DEF DistInv, DistTypes
<1>2. DOMAIN queue[s] = 1 .. Len(queue[s]) /\ \A i \in 1 .. Len(queue[s]) : queue[s][i] \in AnyJob
  BY <1>1, LenProperties, ElementOfSeq
<1>3. \A j : In(queue[s], j) => j.c \in Handled(s)
  BY <1>2 DEF In, Handled
<1>4. ASSUME NEW c \in Handled(s)
      PROVE  c \in ChallengeId /\ Used(c) /\ Owner(c) = s /\ Touched(c)
  <2>1. CASE \E j \in onChain[s] : c = j.c
    BY <2>1, ChainKnown
  <2>2. CASE \E i \in DOMAIN queue[s] : c = queue[s][i].c
    <3>1. \E j \in AnyJob : In(queue[s], j) /\ c = j.c
      BY <1>2, <2>2 DEF In
    <3> QED
      BY <3>1, JobKnown
  <2> QED
    BY <1>4, <2>1, <2>2 DEF Handled
<1> QED
  BY <1>3, <1>4 DEF Handled

(* A crash drops the jobs and matches of one server and no lock. *)
LEMMA CrashInv ==
    ASSUME DistInv, NEW s \in Server, Crash(s)
    PROVE  DistInv'
<1> SUFFICES ASSUME NEW O, O = OpenAt(s), NEW H, H = Handled(s)
             PROVE  DistInv'
  OBVIOUS
<1>1. /\ UNCHANGED <<moved, announced, told, lock, lockTtl, meta, age, beat>>
      /\ run[s] = "up" /\ crashes < MaxCrashes /\ crashes' = crashes + 1
      /\ run' = [run EXCEPT ![s] = "down"]
      /\ match' = [c \in ChallengeId |-> IF c \in O \cup H
                                         THEN [match[c] EXCEPT !.phase = "lost"]
                                         ELSE match[c]]
      /\ timer' = [c \in ChallengeId |-> IF c \in O THEN 0 ELSE timer[c]]
      /\ escrowed' \subseteq escrowed /\ commands' \subseteq commands
      /\ home' = [p \in Player |-> IF home[p] = s THEN NoServer ELSE home[p]]
      /\ queue' = [queue EXCEPT ![s] = <<>>] /\ onChain' = [onChain EXCEPT ![s] = {}]
      /\ sweep' = [sweep EXCEPT ![s] = {}]
  BY DEF Crash, redisVars
<1>2. /\ match \in [ChallengeId -> MatchType] /\ timer \in [ChallengeId -> Nat] /\ DistTypes
      /\ queue \in [Server -> Seq(AnyJob)]
  BY MatchHasType
<1>3. /\ \A c \in O : c \in ChallengeId /\ IsOpen(c) /\ Owner(c) = s /\ Used(c)
      /\ \A c \in H : c \in ChallengeId /\ Owner(c) = s /\ Used(c)
      /\ \A c \in ChallengeId : IsOpen(c) /\ Owner(c) = s => c \in O
  BY HandledIs DEF OpenAt, IsOpen, Used, Open
<1>4. ASSUME NEW c \in ChallengeId
      PROVE  /\ match'[c] \in MatchType
             /\ match'[c].challenger = match[c].challenger
             /\ match'[c].opponent = match[c].opponent
             /\ match'[c].owner = match[c].owner
             /\ match'[c].staked = match[c].staked
             /\ c \in O \cup H => match'[c].phase = "lost"
             /\ c \notin O \cup H => match'[c] = match[c] /\ timer'[c] = timer[c]
             /\ timer'[c] \in Nat /\ timer'[c] <= timer[c]
  <2>1. match[c] \in MatchType /\ timer[c] \in Nat
    BY <1>2
  <2>2. CASE c \in O \cup H
    <3>1. match'[c] = [match[c] EXCEPT !.phase = "lost"]
      BY <1>1, <2>2
    <3>2. timer'[c] \in Nat /\ timer'[c] <= timer[c]
      BY <1>1, <2>1
    <3> QED
      BY <2>1, <2>2, <3>1, <3>2 DEF MatchType
  <2>3. CASE c \notin O \cup H
    BY <1>1, <2>1, <2>3
  <2> QED
    BY <2>2, <2>3
<1>5. match' \in [ChallengeId -> MatchType] /\ timer' \in [ChallengeId -> Nat]
  <2>1. match' = [c \in ChallengeId |-> match'[c]] /\ timer' = [c \in ChallengeId |-> timer'[c]]
    BY <1>1
  <2> QED
    BY <1>4, <2>1
<1>6. \A c \in ChallengeId : Progress(c)
  BY <1>4 DEF Progress, Used, Open
<1>7. /\ queue' \in [Server -> Seq(AnyJob)] /\ queue'[s] = <<>>
      /\ \A t \in Server : t # s => queue'[t] = queue[t]
  <2>1. <<>> \in Seq(AnyJob)
    BY EmptySeq
  <2> QED
    BY <1>1, <1>2, <2>1
<1>8. /\ onChain' \in [Server -> SUBSET AnyJob] /\ onChain'[s] = {}
      /\ \A t \in Server : t # s => onChain'[t] = onChain[t]
      /\ sweep' \in [Server -> SUBSET ChallengeId] /\ sweep'[s] = {}
      /\ \A t \in Server : t # s => sweep'[t] = sweep[t]
      /\ run' \in [Server -> {"new", "up", "down"}]
      /\ \A t \in Server : t # s => run'[t] = run[t]
  <2>1. /\ onChain \in [Server -> SUBSET AnyJob] /\ sweep \in [Server -> SUBSET ChallengeId]
        /\ run \in [Server -> {"new", "up", "down"}]
    BY <1>2 DEF DistTypes
  <2> QED
    BY <1>1, <2>1
<1>9. DistTypes'
  <2>1. home' \in [Player -> Server \cup {NoServer}]
    BY <1>1, OtherTypes
  <2>2. escrowed' \subseteq ChallengeId
        /\ commands' \subseteq [c : ChallengeId, actor : Player, answer : Answer]
    BY <1>1, <1>2 DEF DistTypes
  <2>3. crashes' \in 0 .. MaxCrashes
    BY <1>1, <1>2, DistributedAssumption DEF DistTypes
  <2>4. UNCHANGED <<moved, announced, told, lock, lockTtl, meta, age, beat>>
    BY <1>1
  <2> QED
    BY <1>2, <1>5, <1>7, <1>8, <2>1, <2>2, <2>3, <2>4 DEF DistTypes, MatchType
<1>10. \A t \in Server : QueueOK(t)'
  <2>1. \A t \in Server : \A a \in AnyJob : In(queue[t], a) => Kept(a) /\ LocksOK(a)'
    <3>1. \A a \in AnyJob : a.c \in ChallengeId
      BY DEF AnyJob
    <3> QED
      BY <1>1, <1>6, <3>1, OldJobKept
  <2>2. ASSUME NEW t \in Server, t # s
        PROVE  QueueOK(t)'
    BY <1>6, <1>7, <1>9, <2>1, <2>2, QueueWaits
  <2>3. QueueOK(s)'
    BY <1>7, NothingQueued DEF QueueOK, Orderly
  <2> QED
    BY <2>2, <2>3
<1>11. \A t \in Server : \A a : In(queue'[t], a) => In(queue[t], a)
  BY <1>7, NothingQueued
<1>12. \A t \in Server : ChainOK(t)'
  <2>1. SUFFICES ASSUME NEW t \in Server
                 PROVE  ChainOK(t)'
    OBVIOUS
  <2>2. onChain'[t] \subseteq onChain[t]
    BY <1>8
  <2>3. \A k \in onChain'[t] : \A a \in AnyJob :
              Closing(k) /\ In(queue'[t], a) /\ a.c = k.c
                => In(queue[t], a) \/ (~Closing(a) /\ Ranked(match[k.c].opponent, a))
    BY <1>11
  <2> QED
    BY <1>6, <1>9, <2>2, <2>3, ChainGoesOn
<1>13. \A t \in Server : ServerOK(t)'
  <2>1. \A t \in Server : ServerOK(t)
    BY DEF DistInv
  <2> QED
    BY <1>7, <1>8, <2>1 DEF ServerOK
<1>14. ASSUME NEW c \in ChallengeId
       PROVE  ChallengeOK(c)'
  <2>1. ChallengeOK(c) /\ Owner(c)' = Owner(c) /\ Progress(c)
    BY <1>4, <1>6 DEF DistInv, Owner
  <2>2. Touched(c)' => Touched(c)
    BY <1>8, <1>11 DEF Touched
  <2>3. (Used(c)' <=> Used(c)) /\ (IsOpen(c)' => IsOpen(c) /\ c \notin O \cup H)
    BY <1>3, <1>4 DEF Used, IsOpen, Open
  <2>4. Used(c)' => PartiesOK(c)'
    BY <1>4, <2>1, <2>3 DEF ChallengeOK, PartiesOK
  <2>5. IsOpen(c)' => run'[Owner(c)'] = "up"
    <3>1. SUFFICES ASSUME IsOpen(c)'
                   PROVE  run'[Owner(c)] = "up"
      BY <2>1
    <3>2. IsOpen(c) /\ Owner(c) # s
      BY <1>3, <2>3, <3>1
    <3>3. Owner(c) \in Server /\ run[Owner(c)] = "up"
      BY <2>1, <3>2 DEF ChallengeOK, PartiesOK, IsOpen, Used, Open
    <3> QED
      BY <1>8, <3>2, <3>3
  <2>6. match'[c].phase = "pending" => timer'[c] <= PendingTicks
    BY <1>4, <2>1 DEF ChallengeOK
  <2>7. BeatOK(c)'
    BY <1>1, <2>1, <2>2, <2>3 DEF ChallengeOK, BeatOK
  <2>8. \A t \in Server : c \in sweep'[t] => c \in sweep[t]
    BY <1>8
  <2>9. SweepOK(c)' /\ ToldOK(c)'
    BY <1>1, <2>1, <2>2, <2>3, <2>8 DEF ChallengeOK, SweepOK, ToldOK
  <2>10. AnnouncedOK(c)'
    BY <1>1, <1>4, <2>1 DEF ChallengeOK, AnnouncedOK, NotHouse, LocksHeld, Holds, Owner
  <2>11. ClosedOK(c)'
    <3>1. SUFFICES ASSUME match'[c].phase \in {"void", "resolved"}, ~match'[c].staked,
                          ~BeingClosed(c)'
                   PROVE  Settled(c)'
      BY DEF ClosedOK
    <3>2. match'[c] = match[c] /\ c \notin H
      BY <1>4, <3>1
    <3>3. ~BeingClosed(c)
      <4>1. SUFFICES ASSUME NEW t \in Server, NEW j \in AnyJob, In(queue[t], j), j.c = c,
                            Closing(j)
                     PROVE  FALSE
        BY DEF BeingClosed
      <4>2. t # s
        BY <3>2, <4>1, HandledIs
      <4>3. In(queue'[t], j)
        BY <1>7, <4>1, <4>2
      <4> QED
        BY <3>1, <4>1, <4>3 DEF BeingClosed
    <3>4. Settled(c)
      BY <2>1, <3>1, <3>2, <3>3 DEF ChallengeOK, ClosedOK
    <3> QED
      BY <1>1, <2>1, <2>2, <3>4 DEF Settled, Holds
  <2>12. ~Used(c)' => age'[c] = 0 /\ meta'[c] = "none" /\ c \notin announced'
    BY <1>1, <2>1, <2>3 DEF ChallengeOK
  <2> QED
    BY <2>4, <2>5, <2>6, <2>7, <2>9, <2>10, <2>11, <2>12 DEF ChallengeOK
<1> QED
  <2>1. \A p \in Player : LockOK(p)'
    BY <1>1, <1>6, <1>9, LockGoesOn
  <2> QED
    BY <1>9, <1>10, <1>12, <1>13, <1>14, <2>1 DEF DistInv

-----------------------------------------------------------------------------
(* Time passes. *)

(* No lock expires before the answer it covers, and running servers keep    *)
(* heartbeats.                                                              *)
LEMMA ClockInv ==
    ASSUME DistInv, Clock
    PROVE  DistInv'
<1>1. /\ UNCHANGED <<match, moved, announced, escrowed, run, crashes, home, queue>>
      /\ UNCHANGED <<onChain, meta, sweep, commands, told>>
      /\ \A s \in Server : /\ queue[s] = <<>> /\ sweep[s] = {}
                           /\ run[s] = "up" => beat[s] = BeatTicks
      /\ timer' = [c \in ChallengeId |-> Down(timer[c])]
      /\ lockTtl' = [p \in Player |-> Down(lockTtl[p])]
      /\ lock' = [p \in Player |-> IF lockTtl[p] <= 1 THEN NoLock ELSE lock[p]]
      /\ beat' = [s \in Server |-> Down(beat[s])]
      /\ age' = [c \in ChallengeId |-> IF meta[c] # "none" /\ age[c] < GraceTicks
                                       THEN age[c] + 1 ELSE age[c]]
  BY DEF Clock, nodes
<1>2. /\ match \in [ChallengeId -> MatchType] /\ timer \in [ChallengeId -> Nat] /\ DistTypes
      /\ lockTtl \in [Player -> 0 .. LockTicks] /\ beat \in [Server -> 0 .. BeatTicks]
      /\ lock \in [Player -> {NoLock} \cup {Lock(c, t) : c \in ChallengeId, t \in Server}]
      /\ age \in [ChallengeId -> 0 .. GraceTicks]
  BY MatchHasType DEF DistTypes
<1>3. /\ LockTicks \in Nat /\ BeatTicks \in Nat /\ BeatTicks > 1 /\ GraceTicks \in Nat
      /\ 0 \notin ChallengeId /\ MaxChallenges \in Nat
  BY DistributedAssumption DEF ChallengeId
<1>4. timer' \in [ChallengeId -> Nat] /\ \A c \in ChallengeId : timer'[c] <= timer[c]
  BY <1>1, <1>2 DEF Down
<1>5. lockTtl' \in [Player -> 0 .. LockTicks] /\ beat' \in [Server -> 0 .. BeatTicks]
  BY <1>1, <1>2, <1>3 DEF Down
<1>6. age' \in [ChallengeId -> 0 .. GraceTicks]
  BY <1>1, <1>2, <1>3
<1>7. lock' \in [Player -> {NoLock} \cup {Lock(c, t) : c \in ChallengeId, t \in Server}]
  BY <1>1, <1>2
<1>8. DistTypes'
  <2>1. /\ UNCHANGED <<match, moved, announced, escrowed, run, crashes, home, queue>>
        /\ UNCHANGED <<onChain, meta, sweep, commands, told>>
    BY <1>1
  <2> QED
    BY <1>2, <1>4, <1>5, <1>6, <1>7, <2>1 DEF DistTypes, Open
<1>9. \A c \in ChallengeId : Progress(c)
  BY <1>1, <1>4 DEF Progress, Used
<1>10. \A t \in Server : queue'[t] = <<>> /\ queue[t] = <<>>
  BY <1>1
<1>11. \A t \in Server : QueueOK(t)' /\ ChainOK(t)' /\ ServerOK(t)'
  <2>1. SUFFICES ASSUME NEW t \in Server
                 PROVE  QueueOK(t)' /\ ChainOK(t)' /\ ServerOK(t)'
    OBVIOUS
  <2>2. QueueOK(t)'
    BY <1>10, NothingQueued DEF QueueOK, Orderly
  <2>3. onChain'[t] \subseteq onChain[t]
    BY <1>1
  <2>4. \A k \in onChain'[t] : \A a \in AnyJob :
              Closing(k) /\ In(queue'[t], a) /\ a.c = k.c
                => In(queue[t], a) \/ (~Closing(a) /\ Ranked(match[k.c].opponent, a))
    BY <1>10, NothingQueued
  <2>5. ChainOK(t)'
    BY <1>8, <1>9, <2>3, <2>4, ChainGoesOn
  <2>6. ServerOK(t)'
    BY <1>1 DEF ServerOK, DistInv
  <2> QED
    BY <2>2, <2>5, <2>6
<1>12. \A c \in ChallengeId, t \in Server : Lock(c, t) # NoLock
  BY <1>3 DEF Lock, NoLock
<1>13. ASSUME NEW c \in ChallengeId
       PROVE  ChallengeOK(c)'
  <2>1. /\ ChallengeOK(c) /\ Owner(c)' = Owner(c) /\ (Used(c)' <=> Used(c))
        /\ (IsOpen(c)' <=> IsOpen(c)) /\ (PartiesOK(c)' <=> PartiesOK(c))
        /\ (Touched(c)' <=> Touched(c)) /\ (BeingClosed(c)' <=> BeingClosed(c))
    BY <1>1 DEF DistInv, Owner, Used, IsOpen, PartiesOK, Touched, BeingClosed
  <2>2. ~Used(c)' => age'[c] = 0 /\ meta'[c] = "none" /\ c \notin announced'
    BY <1>1, <2>1 DEF ChallengeOK
  <2>3. IsOpen(c)' => run'[Owner(c)'] = "up"
    BY <1>1, <2>1 DEF ChallengeOK
  <2>4. match'[c].phase = "pending" => timer'[c] <= PendingTicks
    BY <1>1, <1>2, <1>4, <2>1, DistributedAssumption DEF ChallengeOK
  <2>5. IsOpen(c) \/ Touched(c) => Owner(c) \in Server /\ run[Owner(c)] = "up"
    <3>1. CASE IsOpen(c)
      BY <2>1, <3>1 DEF ChallengeOK, PartiesOK, IsOpen, Used, Open
    <3>2. CASE Touched(c)
      <4>1. PICK t \in Server : \E j \in onChain[t] : j.c = c
        BY <1>10, <3>2, NothingQueued DEF Touched
      <4>2. Owner(c) = t /\ onChain[t] # {}
        BY <4>1, ChainKnown
      <4> QED
        BY <4>2 DEF DistInv, ServerOK
    <3> QED
      BY <3>1, <3>2
  <2>6. BeatOK(c)'
    <3>1. SUFFICES ASSUME IsOpen(c) \/ Touched(c)
                   PROVE  beat'[Owner(c)] >= BeatTicks - 1
      BY <2>1 DEF BeatOK
    <3>2. beat[Owner(c)] = BeatTicks /\ beat'[Owner(c)] = Down(beat[Owner(c)])
      BY <1>1, <2>5, <3>1
    <3> QED
      BY <1>3, <3>2 DEF Down
  <2>7. SweepOK(c)' /\ ToldOK(c)'
    BY <1>1, <2>1 DEF ChallengeOK, SweepOK, ToldOK
  <2>8. AnnouncedOK(c)'
    <3>1. SUFFICES ASSUME c \in announced, match[c].phase = "pending", timer'[c] > 0,
                          NotHouse(c)
                   PROVE  LocksHeld(c)'
      BY <1>1 DEF AnnouncedOK, NotHouse
    <3>2. timer[c] > 1 /\ timer[c] \in Nat
      BY <1>1, <1>2, <3>1 DEF Down
    <3>3. LocksHeld(c) /\ PartiesOK(c)
      BY <2>1, <3>1, <3>2 DEF ChallengeOK, AnnouncedOK, Used
    <3>4. ASSUME NEW x \in Player, Holds(c, x)
          PROVE  Holds(c, x)'
      <4>1. lock[x] = Lock(c, Owner(c)) /\ lock[x] # NoLock /\ lock[x].challenge = c
        BY <1>12, <3>3, <3>4 DEF Holds, PartiesOK, Lock
      <4>2. timer[c] <= lockTtl[x]
        BY <3>1, <4>1 DEF DistInv, LockOK
      <4>3. ~(lockTtl[x] <= 1)
        BY <1>2, <1>3, <3>2, <4>2
      <4> QED
        BY <1>1, <2>1, <4>1, <4>3 DEF Holds
    <3> QED
      BY <1>1, <3>1, <3>3, <3>4 DEF LocksHeld, PartiesOK, NotHouse
  <2>9. ClosedOK(c)'
    <3>1. SUFFICES ASSUME match[c].phase \in {"void", "resolved"}, ~match[c].staked,
                          ~BeingClosed(c)
                   PROVE  Settled(c)'
      BY <1>1, <2>1 DEF ClosedOK
    <3>2. Settled(c) /\ PartiesOK(c)
      BY <2>1, <3>1 DEF ChallengeOK, ClosedOK, Used
    <3>3. \A x \in Player : ~Holds(c, x)'
      BY <1>1, <1>12, <2>1, <3>2 DEF Settled, Holds, PartiesOK
    <3> QED
      BY <1>1, <2>1, <3>2, <3>3 DEF Settled
  <2> QED
    BY <2>1, <2>2, <2>3, <2>4, <2>6, <2>7, <2>8, <2>9 DEF ChallengeOK
<1>14. ASSUME NEW p \in Player
       PROVE  LockOK(p)'
  <2>1. SUFFICES ASSUME lock'[p] # NoLock, NEW c, c = lock[p].challenge
                 PROVE  /\ lock'[p] = lock[p] /\ Used(c)' /\ lock[p].server = Owner(c)'
                        /\ p \in Parties(c)' /\ NotHouse(c)'
                        /\ match'[c].phase = "pending" => timer'[c] <= lockTtl'[p]
    BY DEF LockOK
  <2>2. lock'[p] = lock[p] /\ lockTtl[p] > 1 /\ lock[p] # NoLock /\ lockTtl[p] \in Nat
    BY <1>1, <1>2, <1>3, <2>1
  <2>3. c \in ChallengeId
    BY <1>2, <2>1, <2>2 DEF Lock
  <2>4. /\ Used(c) /\ lock[p].server = Owner(c) /\ p \in Parties(c) /\ NotHouse(c)
        /\ match[c].phase = "pending" => timer[c] <= lockTtl[p]
    BY <2>1, <2>2 DEF DistInv, LockOK
  <2>5. timer[c] <= lockTtl[p] => timer'[c] <= lockTtl'[p]
    BY <1>1, <1>2, <2>2, <2>3 DEF Down
  <2> QED
    BY <1>1, <2>2, <2>4, <2>5 DEF Used, Owner, Parties, NotHouse
<1> QED
  BY <1>8, <1>11, <1>13, <1>14 DEF DistInv

-----------------------------------------------------------------------------
(* The theorems. *)

(* The invariant holds at first. *)
LEMMA InitInv ==
    ASSUME Init
    PROVE  DistInv
<1>1. /\ LockTicks \in Nat /\ BeatTicks \in Nat /\ GraceTicks \in Nat /\ MaxCrashes \in Nat
      /\ PendingTicks \in Nat
  BY DistributedAssumption
<1>2. Unused \in MatchType
  BY DEF Unused, MatchType, Open
<1>3. <<>> \in Seq(AnyJob)
  BY EmptySeq
<1>4. DistTypes
  <2>1. match \in [ChallengeId -> MatchType]
    BY <1>2 DEF Init
  <2> QED
    BY <1>1, <1>3, <2>1 DEF Init, DistTypes, MatchType
<1>5. \A s \in Server : queue[s] = <<>> /\ onChain[s] = {} /\ sweep[s] = {}
  BY DEF Init
<1>6. \A s \in Server : QueueOK(s) /\ ChainOK(s) /\ ServerOK(s)
  BY <1>5, NothingQueued DEF QueueOK, Orderly, ChainOK, ServerOK
<1>7. ASSUME NEW c \in ChallengeId
      PROVE  ChallengeOK(c)
  <2>1. match[c].phase = "unused" /\ age[c] = 0 /\ meta[c] = "none" /\ c \notin announced
        /\ c \notin told
    BY DEF Init, Unused
  <2> QED
    BY <1>5, <2>1 DEF ChallengeOK, Used, IsOpen, Open, BeatOK, SweepOK, ToldOK, AnnouncedOK,
                      ClosedOK
<1>8. \A p \in Player : LockOK(p)
  BY DEF Init, LockOK
<1> QED
  BY <1>4, <1>6, <1>7, <1>8 DEF DistInv

(* Every step keeps it. *)
LEMMA NextInv ==
    ASSUME DistInv, [Next]_vars
    PROVE  DistInv'
<1>1. CASE UNCHANGED vars
  <2>1. /\ UNCHANGED <<match, timer, announced, escrowed, run, crashes, queue>>
        /\ UNCHANGED <<onChain, sweep, lock, lockTtl, meta, age, beat, told>>
        /\ UNCHANGED <<home, moved, commands>>
    BY <1>1 DEF vars, serverVars, redisVars, nodes
  <2> QED
    BY <2>1, OtherTypes, Idle
<1>2. ASSUME NEW s \in Server, Redis(s)
      PROVE  DistInv'
  BY <1>2, RedisInv
<1>3. ASSUME NEW s \in Server, Sweep(s)
      PROVE  DistInv'
  BY <1>3, SweepReadInv, ExpireOrphanInv DEF Sweep
<1>4. ASSUME NEW s \in Server, Start(s) \/ Crash(s) \/ HeartbeatServer(s) \/ Tick(s)
      PROVE  DistInv'
  BY <1>4, StartInv, CrashInv, HeartbeatServerInv, TickInv
<1>5. ASSUME NEW s \in Server, NEW p \in Player, NEW q \in Targets, NEW staked \in Wagers,
             Send(s, p, q, staked)
      PROVE  DistInv'
  <2>1. q \in Player \cup {House} /\ staked \in BOOLEAN
    BY DistributedAssumption
  <2> QED
    BY <1>5, <2>1, SendInv
<1>6. ASSUME NEW s \in Server, NEW c \in ChallengeId, NEW p \in Player \cup {House},
             NEW a \in Answer, AnswerHere(s, c, p, a)
      PROVE  DistInv'
  BY <1>6, AnswerHereInv
<1>7. ASSUME NEW s \in Server, NEW c \in ChallengeId, NEW p \in Player, NEW a \in Answer,
             Forward(s, c, p, a)
      PROVE  DistInv'
  BY <1>7, ForwardInv
<1>8. ASSUME NEW m \in commands, Receive(m)
      PROVE  DistInv'
  BY <1>8, ReceiveInv
<1>9. ASSUME NEW s \in Server, NEW j \in onChain[s],
             StakeReturns(s, j) \/ SettlementReturns(s, j)
      PROVE  DistInv'
  BY <1>9, StakeReturnsInv, SettlementReturnsInv
<1>10. ASSUME NEW p \in Player, Disconnect(p)
       PROVE  DistInv'
  BY <1>10, DisconnectInv
<1>11. ASSUME NEW p \in Player, NEW s \in Server, Connect(p, s)
       PROVE  DistInv'
  BY <1>11, ConnectInv
<1>12. CASE Clock
  BY <1>12, ClockInv
<1> QED
  BY <1>1, <1>2, <1>3, <1>4, <1>5, <1>6, <1>7, <1>8, <1>9, <1>10, <1>11, <1>12 DEF Next

(* The inductive invariant holds. *)
LEMMA DistInvHolds == Safety => []DistInv
<1>1. Init => DistInv
  BY InitInv
<1>2. DistInv /\ [Next]_vars => DistInv'
  BY NextInv
<1> QED
  BY <1>1, <1>2, PTL DEF Safety

(* Every variable keeps its type: queues hold jobs, locks name a challenge  *)
(* and a server.                                                            *)
THEOREM DistributedTypesHold == Safety => []TypeOK
<1>1. DistInv => TypeOK
  <2>1. SUFFICES ASSUME DistInv
                 PROVE  TypeOK
    OBVIOUS
  <2>2. \A s \in Server : \A i \in DOMAIN queue[s] : queue[s][i] \in AnyJob
    <3>1. ASSUME NEW s \in Server
          PROVE  \A i \in DOMAIN queue[s] : queue[s][i] \in AnyJob
      <4>1. queue[s] \in Seq(AnyJob)
        BY <2>1 DEF DistInv, DistTypes
      <4> QED
        BY <4>1, LenProperties, ElementOfSeq
    <3> QED
      BY <3>1
  <2>3. DistTypes
    BY <2>1 DEF DistInv
  <2>4. \A s \in Server : onChain[s] \subseteq AnyJob /\ sweep[s] \subseteq ChallengeId
    BY <2>3 DEF DistTypes
  <2> QED
    BY <2>2, <2>3, <2>4 DEF DistTypes, TypeOK
<1> QED
  BY <1>1, DistInvHolds, PTL

(* Players are told that the owner of their match failed only when it did,  *)
(* whatever crashes, restarts and sweeps of other servers come between      *)
(* (expireOrphanedChallenges).                                              *)
THEOREM DistributedFailoverSound == Safety => []FailoverSound
<1>1. DistInv => FailoverSound
  BY DEF DistInv, DistTypes, ChallengeOK, ToldOK, FailoverSound
<1> QED
  BY <1>1, DistInvHolds, PTL

(* Two servers never offer a player two matches at once while an answer is  *)
(* awaited (tryLockPlayers and releasePlayers).                             *)
THEOREM DistributedOnePending == Safety => []OnePendingAcrossServers
<1>1. DistInv => OnePendingAcrossServers
  <2>1. SUFFICES ASSUME DistInv, NEW c \in announced, NEW d \in announced, c # d,
                        NotHouse(c), NotHouse(d), match[c].phase = "pending", timer[c] > 0,
                        match[d].phase = "pending", timer[d] > 0,
                        NEW p \in Parties(c), p \in Parties(d)
                 PROVE  FALSE
    BY DEF OnePendingAcrossServers
  <2>2. c \in ChallengeId /\ d \in ChallengeId
    BY <2>1 DEF DistInv, DistTypes
  <2>3. LocksHeld(c) /\ LocksHeld(d)
    BY <2>1, <2>2 DEF DistInv, ChallengeOK, AnnouncedOK
  <2>4. Holds(c, p) /\ Holds(d, p)
    BY <2>1, <2>3 DEF LocksHeld, Parties
  <2> QED
    BY <2>1, <2>4 DEF Holds, Lock
<1> QED
  BY <1>1, DistInvHolds, PTL

(* Nothing is left in Redis of a closed, unstaked challenge once no job of  *)
(* its owner handles it (the registration, dispatch and clear of            *)
(* DistributedChallengeStore).                                              *)
THEOREM DistributedNothingLeft == Safety => []NothingLeft
<1>1. DistInv => NothingLeft
  <2>1. SUFFICES ASSUME DistInv, NEW c \in ChallengeId,
                        match[c].phase \in {"void", "resolved"}, ~match[c].staked,
                        c \notin Handled(Owner(c))
                 PROVE  meta[c] = "none" /\ \A p \in Player : lock[p].challenge # c
    BY DEF NothingLeft
  <2>2. ChallengeOK(c) /\ Used(c)
    BY <2>1 DEF DistInv, Used
  <2>3. ~BeingClosed(c)
    <3>1. SUFFICES ASSUME NEW s \in Server, NEW j \in AnyJob, In(queue[s], j), j.c = c
                   PROVE  FALSE
      BY DEF BeingClosed
    <3>2. Owner(c) = s /\ c \in Handled(s)
      BY <2>1, <3>1, JobKnown, HandledIs
    <3> QED
      BY <2>1, <3>2
  <2>4. Settled(c)
    BY <2>1, <2>2, <2>3 DEF ChallengeOK, ClosedOK
  <2>5. ASSUME NEW p \in Player, lock[p].challenge = c
        PROVE  FALSE
    <3>1. lock[p] \in {NoLock} \cup {Lock(d, s) : d \in ChallengeId, s \in Server}
      BY <2>1 DEF DistInv, DistTypes
    <3>2. c # 0
      BY <2>1, DistributedAssumption DEF ChallengeId
    <3>3. lock[p] # NoLock
      BY <2>5, <3>2 DEF NoLock
    <3>4. lock[p].server = Owner(c)
      BY <2>1, <2>5, <3>3 DEF DistInv, LockOK
    <3>5. lock[p] = Lock(c, Owner(c))
      BY <2>5, <3>1, <3>3, <3>4 DEF Lock
    <3> QED
      BY <2>4, <3>5 DEF Settled, Holds
  <2> QED
    BY <2>4, <2>5 DEF Settled
<1> QED
  BY <1>1, DistInvHolds, PTL

(* However answers, disconnects, deadlines and refused registrations race,  *)
(* one handler closes a challenge: no other dispatches its closing, which   *)
(* would settle its stakes and release its players a second time.           *)
ClosedByOneHandler ==
    \A s, t \in Server :
        /\ \A i \in DOMAIN queue[s], k \in DOMAIN queue[t] :
              /\ Closing(queue[s][i]) /\ Closing(queue[t][k])
              /\ queue[s][i].c = queue[t][k].c
              => s = t /\ i = k
        /\ \A j \in onChain[s], k \in DOMAIN queue[t] :
              Closing(j) /\ Closing(queue[t][k]) => queue[t][k].c # j.c
        /\ \A j \in onChain[s], k \in onChain[t] :
              Closing(j) /\ Closing(k) /\ j.c = k.c => s = t /\ j = k

(* A challenge is closed by one handler. *)
THEOREM DistributedClosedByOneHandler == Safety => []ClosedByOneHandler
<1>1. DistInv => ClosedByOneHandler
  <2>1. SUFFICES ASSUME DistInv, NEW s \in Server, NEW t \in Server
                 PROVE  /\ \A i \in DOMAIN queue[s], k \in DOMAIN queue[t] :
                              /\ Closing(queue[s][i]) /\ Closing(queue[t][k])
                              /\ queue[s][i].c = queue[t][k].c
                              => s = t /\ i = k
                        /\ \A j \in onChain[s], k \in DOMAIN queue[t] :
                              Closing(j) /\ Closing(queue[t][k]) => queue[t][k].c # j.c
                        /\ \A j \in onChain[s], k \in onChain[t] :
                              Closing(j) /\ Closing(k) /\ j.c = k.c => s = t /\ j = k
    BY DEF ClosedByOneHandler
  <2>2. \A u \in Server :
           /\ DOMAIN queue[u] = 1 .. Len(queue[u]) /\ Len(queue[u]) \in Nat
           /\ \A i \in 1 .. Len(queue[u]) : queue[u][i] \in AnyJob /\ In(queue[u], queue[u][i])
    <3>1. ASSUME NEW u \in Server
          PROVE  queue[u] \in Seq(AnyJob)
      BY <2>1 DEF DistInv, DistTypes
    <3> QED
      BY <3>1, LenProperties, ElementOfSeq DEF In
  <2>3. ASSUME NEW i \in DOMAIN queue[s], NEW k \in DOMAIN queue[t],
               Closing(queue[s][i]), Closing(queue[t][k]), queue[s][i].c = queue[t][k].c
        PROVE  s = t /\ i = k
    <3>1. s = t
      <4>1. Owner(queue[s][i].c) = s
        BY <2>1, <2>2, JobKnown
      <4>2. Owner(queue[t][k].c) = t
        BY <2>1, <2>2, JobKnown
      <4> QED
        BY <2>3, <4>1, <4>2
    <3>2. ASSUME NEW x \in DOMAIN queue[s], NEW y \in DOMAIN queue[s], x < y,
                 queue[s][x].c = queue[s][y].c
          PROVE  ~(Closing(queue[s][x]) /\ Closing(queue[s][y]))
      <4>1. Ahead(queue[s], queue[s][x], queue[s][y])
        BY <2>2, <3>2 DEF Ahead
      <4>2. Pair(match[queue[s][x].c].opponent, queue[s][x], queue[s][y])
        BY <2>1, <2>2, <3>2, <4>1 DEF DistInv, QueueOK, Orderly
      <4> QED
        BY <4>2 DEF Pair
    <3>3. i \in Nat /\ k \in Nat
      BY <2>2, <3>1
    <3> QED
      BY <2>3, <3>1, <3>2, <3>3
  <2>4. ASSUME NEW j \in onChain[s], NEW k \in DOMAIN queue[t], Closing(j),
               Closing(queue[t][k]), queue[t][k].c = j.c
        PROVE  FALSE
    <3>1. Owner(j.c) = s /\ Owner(queue[t][k].c) = t
      BY <2>1, <2>2, JobKnown, ChainKnown
    <3>2. In(queue[s], queue[t][k]) /\ queue[t][k] \in AnyJob
      BY <2>2, <2>4, <3>1
    <3> QED
      BY <2>1, <2>4, <3>2 DEF DistInv, ChainOK
  <2>5. ASSUME NEW j \in onChain[s], NEW k \in onChain[t], Closing(j), Closing(k), j.c = k.c
        PROVE  s = t /\ j = k
    <3>1. Owner(j.c) = s
      BY <2>1, ChainKnown
    <3>2. Owner(k.c) = t
      BY <2>1, ChainKnown
    <3>3. s = t
      BY <2>5, <3>1, <3>2
    <3> QED
      BY <2>1, <2>5, <3>3 DEF DistInv, ChainOK
  <2> QED
    BY <2>3, <2>4, <2>5
<1> QED
  BY <1>1, DistInvHolds, PTL
===============================================================================
