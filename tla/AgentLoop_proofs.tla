------------------------- MODULE AgentLoop_proofs -------------------------
(***************************************************************************)
(* Proofs about AgentLoop, for any messages, any finite set of tools and   *)
(* any number of turns and failures.                                       *)
(*                                                                         *)
(* The inductive invariant AgentIInv has one part per concern, each with   *)
(* its lemma that every step keeps it: what the queues and the transcript  *)
(* hold (QueueInv), what the coming request carries (SteerBudget), which   *)
(* messages a follow-up may not overtake (Yields), how far the batch's     *)
(* results are behind its calls (BatchInv), and the continuation that is   *)
(* owed (Owes).                                                            *)
(***************************************************************************)
EXTENDS AgentLoop, SequenceTheorems, FiniteSetTheorems, TLAPS

---------------------------------------------------------------------------
(* Sequences. *)

(* A drain splits a queue: what it takes comes before what it leaves.      *)
LEMMA PeekRest ==
    ASSUME NEW S, NEW q \in Seq(S)
    PROVE  /\ Peek(q) \in Seq(S) /\ Rest(q) \in Seq(S)
           /\ Len(q) = Len(Peek(q)) + Len(Rest(q))
           /\ \A i \in 1 .. Len(Peek(q)) : Peek(q)[i] = q[i]
           /\ \A i \in 1 .. Len(Rest(q)) : Rest(q)[i] = q[Len(Peek(q)) + i]
           /\ Peek(q) = <<>> => q = <<>>
           /\ oneEach => Len(Peek(q)) <= 1
<1>1. CASE oneEach /\ q # <<>>
  <2>1. Peek(q) = <<Head(q)>> /\ Head(q) = q[1] /\ Head(q) \in S /\ Len(q) \in Nat \ {0}
    BY <1>1 DEF Peek
  <2>2. Rest(q) = SubSeq(q, 2, Len(q)) /\ Len(Peek(q)) = 1
    BY <2>1 DEF Rest
  <2> QED
    BY <2>1, <2>2, SubSeqProperties
<1>2. CASE ~(oneEach /\ q # <<>>)
  <2>1. Peek(q) = q
    BY <1>2, Zenon DEF Peek
  <2>3. Rest(q) = SubSeq(q, Len(q) + 1, Len(q)) /\ Len(q) \in Nat
    BY <2>1 DEF Rest
  <2>2. Rest(q) = <<>>
    BY <2>3, SubSeqEmpty
  <2> QED
    BY <1>2, <2>1, <2>2, <2>3
<1> QED
  BY <1>1, <1>2

(* RemoveFirst closes the gap it makes, in a queue without duplicates.     *)
LEMMA RemoveFirstGap ==
    ASSUME NEW S, NEW s \in Seq(S), NEW e,
           \A i, j \in 1 .. Len(s) : s[i] = s[j] => i = j
    PROVE  /\ RemoveFirst(s, e) \in Seq(S)
           /\ ~Contains(s, e) => RemoveFirst(s, e) = s
           /\ Contains(s, e) =>
                \E k \in 1 .. Len(s) :
                    /\ s[k] = e
                    /\ Len(RemoveFirst(s, e)) = Len(s) - 1
                    /\ \A i \in 1 .. Len(s) - 1 :
                          RemoveFirst(s, e)[i] = IF i < k THEN s[i] ELSE s[i + 1]
<1>1. CASE ~Contains(s, e)
  BY <1>1 DEF RemoveFirst, Contains
<1>2. CASE Contains(s, e)
  <2> DEFINE I == {i \in 1 .. Len(s) : s[i] = e}
             k == SelectInSeq(s, LAMBDA v : v = e)
  <2>1. PICK n \in 1 .. Len(s) : s[n] = e
    BY <1>2 DEF Contains
  <2>2. I = {n}
    BY <2>1
  <2>3. k = Min(I)
    BY <2>2 DEF SelectInSeq
  <2>4. k = n /\ k \in 1 .. Len(s) /\ s[k] = e
    <3>1. Min({n}) = n
      BY <2>1 DEF Min
    <3> QED
      BY <2>1, <2>2, <2>3, <3>1
  <2> DEFINE a == SubSeq(s, 1, n - 1)
             b == SubSeq(s, n + 1, Len(s))
  <2>5. RemoveFirst(s, e) = a \o b
    BY <1>2, <2>4 DEF RemoveFirst, RemoveAt, Contains
  <2>6. /\ a \in Seq(S) /\ Len(a) = n - 1
        /\ \A i \in 1 .. n - 1 : a[i] = s[i]
    <3>1. \A i \in 1 .. n - 1 : s[i] \in S
      BY <2>1
    <3> QED
      BY <2>1, <3>1, SubSeqProperties
  <2>7. /\ b \in Seq(S) /\ Len(b) = Len(s) - n
        /\ \A i \in 1 .. Len(s) - n : b[i] = s[n + i]
    <3>1. \A i \in n + 1 .. Len(s) : s[i] \in S
      BY <2>1
    <3> QED
      BY <2>1, <3>1, SubSeqProperties
  <2> HIDE DEF a, b, I, k
  <2>8. /\ a \o b \in Seq(S) /\ Len(a \o b) = Len(s) - 1
        /\ \A i \in 1 .. Len(s) - 1 : (a \o b)[i] = IF i <= n - 1 THEN a[i] ELSE b[i - (n - 1)]
    <3>1. Len(a) \in Nat /\ Len(b) \in Nat /\ Len(a) + Len(b) = Len(s) - 1
      BY <2>1, <2>6, <2>7
    <3>2. \A i \in 1 .. Len(a) + Len(b) :
             (a \o b)[i] = IF i <= Len(a) THEN a[i] ELSE b[i - Len(a)]
      BY <2>6, <2>7, ConcatProperties
    <3>3. a \o b \in Seq(S) /\ Len(a \o b) = Len(a) + Len(b)
      <4>1. a \in Seq(S) /\ b \in Seq(S)
        BY <2>6, <2>7
      <4> QED
        BY ONLY <4>1, ConcatProperties
    <3>4. Len(a) = n - 1
      BY <2>6
    <3> QED
      BY <3>1, <3>2, <3>3, <3>4
  <2>9. \A i \in 1 .. Len(s) - 1 : (a \o b)[i] = IF i < n THEN s[i] ELSE s[i + 1]
    <3> SUFFICES ASSUME NEW i \in 1 .. Len(s) - 1
                 PROVE  (a \o b)[i] = IF i < n THEN s[i] ELSE s[i + 1]
      OBVIOUS
    <3>1. CASE i < n
      BY <2>1, <2>6, <2>8, <3>1
    <3>2. CASE i >= n
      <4>1. i - (n - 1) \in 1 .. Len(s) - n /\ n + (i - (n - 1)) = i + 1 /\ ~(i <= n - 1)
        BY <2>1, <3>2
      <4>2. (a \o b)[i] = b[i - (n - 1)]
        BY <2>8, <4>1
      <4>3. b[i - (n - 1)] = s[i + 1]
        BY <2>7, <4>1
      <4> QED
        BY <2>1, <3>2, <4>2, <4>3
    <3>3. i < n \/ i >= n
      BY <2>1
    <3> QED
      BY <3>1, <3>2, <3>3
  <2> QED
    BY <1>2, <2>1, <2>5, <2>8, <2>9
<1> QED
  BY <1>1, <1>2

(* A message put into the transcript is the head; the rest stays pending.  *)
LEMMA TailSet ==
    ASSUME NEW S, NEW s \in Seq(S), s # <<>>
    PROVE  /\ Head(s) \in S /\ Tail(s) \in Seq(S) /\ Len(s) \in Nat \ {0}
           /\ Len(Tail(s)) = Len(s) - 1
           /\ ToSet(s) = ToSet(Tail(s)) \cup {Head(s)}
<1>1. /\ Head(s) \in S /\ Tail(s) \in Seq(S) /\ Head(s) = s[1] /\ Len(s) \in Nat \ {0}
      /\ DOMAIN Tail(s) = 1 .. Len(s) - 1 /\ DOMAIN s = 1 .. Len(s)
      /\ \A i \in 1 .. Len(s) - 1 : Tail(s)[i] = s[i + 1]
  BY HeadTailProperties
<1>4. ToSet(Tail(s)) \subseteq ToSet(s) /\ Head(s) \in ToSet(s)
  BY <1>1 DEF ToSet
<1>5. \A i \in 1 .. Len(s) : s[i] \in ToSet(Tail(s)) \cup {Head(s)}
  <2> SUFFICES ASSUME NEW i \in 1 .. Len(s), i # 1 PROVE s[i] \in ToSet(Tail(s))
    BY <1>1
  <2>1. i - 1 \in 1 .. Len(s) - 1 /\ Tail(s)[i - 1] = s[i]
    BY <1>1
  <2> QED
    BY <1>1, <2>1 DEF ToSet
<1>6. ToSet(s) \subseteq ToSet(Tail(s)) \cup {Head(s)}
  BY <1>1, <1>5 DEF ToSet
<1> QED
  BY <1>1, <1>4, <1>6
---------------------------------------------------------------------------
(* Types. *)

(* The flags stay Boolean.                                                 *)
LEMMA StepFlagsTypeOK == FlagsTypeOK /\ [AgentNext]_agentVars => FlagsTypeOK'
<1> SUFFICES ASSUME FlagsTypeOK, [AgentNext]_agentVars PROVE FlagsTypeOK'
  OBVIOUS
<1> USE DEF FlagsTypeOK, Loop, queueVars, batchVars, flagVars, strayVars, batchRest
<1>0. UNCHANGED agentVars => FlagsTypeOK'
  BY DEF agentVars
<1>1. PutPrompt \/ PutPending => FlagsTypeOK'
  BY DEF PutPrompt, PutPending, Put
<1>2. FirstPoll \/ Prepare \/ Poll \/ Stop => FlagsTypeOK'
  BY DEF FirstPoll, Prepare, Poll, Stop, DrainSteering, DrainFollowUps
<1>3. Request \/ Finish \/ End \/ Fail => FlagsTypeOK'
  BY DEF Request, Finish, End, Fail
<1>4. Respond => FlagsTypeOK'
  BY DEF Respond
<1>5. PrepareCall \/ CheckAbort \/ Start \/ EmitResult => FlagsTypeOK'
  BY DEF PrepareCall, CheckAbort, Start, EmitResult
<1>6. ASSUME NEW m \in Messages, Queue(m) \/ Unqueue(m) PROVE FlagsTypeOK'
  BY <1>6 DEF Queue, Unqueue
<1>7. ASSUME NEW t \in Tools, ToolReturn(t) \/ StrayReturn(t) PROVE FlagsTypeOK'
  BY <1>7 DEF ToolReturn, StrayReturn
<1>8. Prompt \/ Continue => FlagsTypeOK'
  BY DEF Prompt, Continue, StartRun, DrainSteering, DrainFollowUps, QueueTypeOK
<1>9. Abort \/ Throw \/ Reset => FlagsTypeOK'
  BY DEF Abort, Throw, Reset, Running
<1> QED
  BY <1>0, <1>1, <1>2, <1>3, <1>4, <1>5, <1>6, <1>7, <1>8, <1>9 DEF AgentNext, LoopStep

(* The program counter, the bounds and the histories keep their ranges.    *)
LEMMA StepLoopTypeOK ==
    ASSUME LoopTypeOK, QueueTypeOK, [AgentNext]_agentVars PROVE LoopTypeOK'
<1> USE DEF LoopTypeOK, Loop, queueVars, batchVars, flagVars, strayVars, batchRest
<1>0. UNCHANGED agentVars => LoopTypeOK'
  BY DEF agentVars
<1>1. PutPrompt \/ PutPending => LoopTypeOK'
  BY DEF PutPrompt, PutPending, Put
<1>2. FirstPoll \/ Prepare \/ Poll \/ Stop => LoopTypeOK'
  BY DEF FirstPoll, Prepare, Poll, Stop, DrainSteering, DrainFollowUps, QueueTypeOK
<1>3. Request \/ Finish \/ End \/ Fail => LoopTypeOK'
  BY DEF Request, Finish, End, Fail
<1>4. Respond => LoopTypeOK'
  BY DEF Respond
<1>5. PrepareCall \/ CheckAbort \/ Start \/ EmitResult => LoopTypeOK'
  BY DEF PrepareCall, CheckAbort, Start, EmitResult
<1>6. ASSUME NEW m \in Messages, Queue(m) \/ Unqueue(m) PROVE LoopTypeOK'
  BY <1>6 DEF Queue, Unqueue
<1>7. ASSUME NEW t \in Tools, ToolReturn(t) \/ StrayReturn(t) PROVE LoopTypeOK'
  BY <1>7 DEF ToolReturn, StrayReturn
<1>8. Prompt \/ Continue => LoopTypeOK'
  BY DEF Prompt, Continue, StartRun, DrainSteering, DrainFollowUps, QueueTypeOK
<1>9. Abort \/ Throw \/ Reset => LoopTypeOK'
  BY DEF Abort, Throw, Reset, Running
<1> QED
  BY <1>0, <1>1, <1>2, <1>3, <1>4, <1>5, <1>6, <1>7, <1>8, <1>9 DEF AgentNext, LoopStep
---------------------------------------------------------------------------
(* The order of the messages. *)

(* m is no later than n in its lane.                                       *)
Precedes(m, n) == SameKind(m, n) => QueuedBefore(m, n)
Ascending(s) == \A i, j \in DOMAIN s : i < j => Precedes(s[i], s[j])
Ahead(s, t) == \A m \in ToSet(s), n \in ToSet(t) : Precedes(m, n)

(* Each message is queued once, so none is queued before itself.           *)
LEMMA NotBeforeItself ==
    ASSUME order \in Seq(Messages), IsInjective(order), NEW m
    PROVE  ~QueuedBefore(m, m)
<1> DOMAIN order = 1 .. Len(order)
  OBVIOUS
<1> QED
  BY DEF IsInjective, QueuedBefore

(* Two stretches one of which is ahead of the other share no message.      *)
LEMMA AheadIsApart ==
    ASSUME order \in Seq(Messages), IsInjective(order), NEW s, NEW t, Ahead(s, t)
    PROVE  ToSet(s) \cap ToSet(t) = {}
  BY NotBeforeItself DEF Ahead, Precedes, SameKind

(* An ascending stretch repeats no message.                                *)
LEMMA AscendingIsInjective ==
    ASSUME order \in Seq(Messages), IsInjective(order), NEW S, NEW s \in Seq(S), Ascending(s)
    PROVE  IsInjective(s)
<1> SUFFICES ASSUME NEW i \in 1 .. Len(s), NEW j \in 1 .. Len(s), s[i] = s[j], i < j PROVE FALSE
  BY DEF IsInjective
<1> QED
  BY NotBeforeItself DEF Ascending, Precedes, SameKind

(* A drain takes an ascending queue's front and leaves its back.           *)
LEMMA DrainKeepsOrder ==
    ASSUME NEW S, NEW q \in Seq(S), Ascending(q)
    PROVE  /\ Ascending(Peek(q)) /\ Ascending(Rest(q)) /\ Ahead(Peek(q), Rest(q))
           /\ ToSet(q) = ToSet(Peek(q)) \cup ToSet(Rest(q))
<1> DEFINE a == Peek(q)
           b == Rest(q)
<1>1. /\ Len(a) \in Nat /\ Len(b) \in Nat /\ Len(q) = Len(a) + Len(b)
      /\ DOMAIN a = 1 .. Len(a) /\ DOMAIN b = 1 .. Len(b) /\ DOMAIN q = 1 .. Len(q)
      /\ \A i \in 1 .. Len(a) : a[i] = q[i]
      /\ \A i \in 1 .. Len(b) : b[i] = q[Len(a) + i]
  BY PeekRest
<1> HIDE DEF a, b
<1>2. Ascending(a)
  BY <1>1 DEF Ascending
<1>7. Ascending(b)
  <2> SUFFICES ASSUME NEW i \in 1 .. Len(b), NEW j \in 1 .. Len(b), i < j PROVE Precedes(b[i], b[j])
    BY <1>1 DEF Ascending
  <2>1. Len(a) + i \in DOMAIN q /\ Len(a) + j \in DOMAIN q /\ Len(a) + i < Len(a) + j
    BY <1>1
  <2> QED
    BY <1>1, <2>1 DEF Ascending
<1>3. Ahead(a, b)
  <2> SUFFICES ASSUME NEW i \in 1 .. Len(a), NEW j \in 1 .. Len(b) PROVE Precedes(a[i], b[j])
    BY <1>1 DEF Ahead, ToSet
  <2>1. a[i] = q[i] /\ b[j] = q[Len(a) + j] /\ i < Len(a) + j /\ i \in DOMAIN q /\ Len(a) + j \in DOMAIN q
    BY <1>1
  <2> QED
    BY <2>1 DEF Ascending
<1>4. \A i \in 1 .. Len(q) : q[i] \in ToSet(a) \cup ToSet(b)
  <2> SUFFICES ASSUME NEW i \in 1 .. Len(q) PROVE q[i] \in ToSet(a) \cup ToSet(b)
    OBVIOUS
  <2>1. CASE i <= Len(a)
    BY <1>1, <2>1 DEF ToSet
  <2>2. CASE i > Len(a)
    <3>1. i - Len(a) \in 1 .. Len(b) /\ Len(a) + (i - Len(a)) = i
      BY <1>1, <2>2
    <3>2. b[i - Len(a)] = q[i]
      BY <1>1, <3>1
    <3> QED
      BY <1>1, <3>1, <3>2 DEF ToSet
  <2> QED
    BY <1>1, <2>1, <2>2
<1>5. ToSet(a) \subseteq ToSet(q) /\ ToSet(b) \subseteq ToSet(q)
  BY <1>1 DEF ToSet
<1>6. ToSet(q) \subseteq ToSet(a) \cup ToSet(b)
  BY <1>1, <1>4 DEF ToSet
<1> QED
  BY <1>2, <1>3, <1>5, <1>6, <1>7 DEF a, b

(* removeQueuedMessage takes out one message and keeps the others' order.  *)
LEMMA RemoveKeepsOrder ==
    ASSUME NEW S, NEW q \in Seq(S), NEW m, Ascending(q),
           order \in Seq(Messages), IsInjective(order)
    PROVE  /\ RemoveFirst(q, m) \in Seq(S)
           /\ Ascending(RemoveFirst(q, m))
           /\ ToSet(RemoveFirst(q, m)) = ToSet(q) \ {m}
<1> DEFINE r == RemoveFirst(q, m)
<1>1. \A i, j \in 1 .. Len(q) : q[i] = q[j] => i = j
  BY AscendingIsInjective DEF IsInjective
<1>2. /\ r \in Seq(S)
      /\ ~Contains(q, m) => r = q
      /\ Contains(q, m) =>
           \E k \in 1 .. Len(q) :
               /\ q[k] = m
               /\ Len(r) = Len(q) - 1
               /\ \A i \in 1 .. Len(q) - 1 : r[i] = IF i < k THEN q[i] ELSE q[i + 1]
  BY <1>1, RemoveFirstGap
<1> HIDE DEF r
<1>3. CASE ~Contains(q, m)
  BY <1>2, <1>3 DEF Contains, ToSet, r
<1>4. CASE Contains(q, m)
  <2>1. PICK k \in 1 .. Len(q) :
               /\ q[k] = m
               /\ Len(r) = Len(q) - 1
               /\ \A i \in 1 .. Len(q) - 1 : r[i] = IF i < k THEN q[i] ELSE q[i + 1]
    BY <1>2, <1>4
  <2>d. DOMAIN r = 1 .. Len(q) - 1 /\ DOMAIN q = 1 .. Len(q) /\ Len(q) \in Nat
    BY <1>2, <2>1
  <2> DEFINE f(i) == IF i < k THEN i ELSE i + 1
  <2>2. \A i \in DOMAIN r : f(i) \in DOMAIN q /\ r[i] = q[f(i)] /\ f(i) # k
    BY <2>1, <2>d
  <2>3. \A i, j \in DOMAIN r : i < j => f(i) < f(j)
    BY <2>d
  <2>4. Ascending(r)
    BY <2>2, <2>3, <2>d DEF Ascending
  <2>5. ToSet(r) \subseteq ToSet(q) \ {m}
    BY <2>1, <2>2, <1>1, <2>d DEF ToSet
  <2>6. \A i \in DOMAIN q : i # k => q[i] \in ToSet(r)
    <3> SUFFICES ASSUME NEW i \in DOMAIN q, i # k PROVE q[i] \in ToSet(r)
      OBVIOUS
    <3>1. CASE i < k
      BY <2>1, <2>d, <3>1 DEF ToSet
    <3>2. CASE i > k
      <4>1. i - 1 \in DOMAIN r /\ r[i - 1] = q[(i - 1) + 1] /\ (i - 1) + 1 = i
        BY <2>1, <2>d, <3>2
      <4> QED
        BY <4>1 DEF ToSet
    <3> QED
      BY <2>d, <3>1, <3>2
  <2>7. ToSet(q) \ {m} \subseteq ToSet(r)
    BY <2>1, <2>6 DEF ToSet
  <2> QED
    BY <1>2, <2>4, <2>5, <2>7 DEF r
<1> QED
  BY <1>3, <1>4

(* A message later than all of a stretch extends it.                       *)
LEMMA AppendKeepsOrder ==
    ASSUME NEW S, NEW s \in Seq(S), NEW e \in S, Ascending(s),
           \A m \in ToSet(s) : Precedes(m, e)
    PROVE  /\ Ascending(Append(s, e))
           /\ ToSet(Append(s, e)) = ToSet(s) \cup {e}
<1>1. /\ DOMAIN Append(s, e) = 1 .. Len(s) + 1 /\ DOMAIN s = 1 .. Len(s) /\ Len(s) \in Nat
      /\ \A i \in 1 .. Len(s) : Append(s, e)[i] = s[i]
      /\ Append(s, e)[Len(s) + 1] = e
  OBVIOUS
<1>2. Ascending(Append(s, e))
  BY <1>1 DEF Ascending, ToSet
<1>3. ToSet(Append(s, e)) \subseteq ToSet(s) \cup {e}
  BY <1>1 DEF ToSet
<1>4. ToSet(s) \subseteq ToSet(Append(s, e)) /\ e \in ToSet(Append(s, e))
  BY <1>1 DEF ToSet
<1> QED
  BY <1>2, <1>3, <1>4

(* The rest of an ascending sequence is behind its head.                   *)
LEMMA TailKeepsOrder ==
    ASSUME NEW S, NEW s \in Seq(S), s # <<>>, Ascending(s)
    PROVE  /\ Ascending(Tail(s))
           /\ \A m \in ToSet(Tail(s)) : Precedes(Head(s), m)
<1>1. /\ Tail(s) \in Seq(S) /\ Head(s) = s[1] /\ Len(s) \in Nat \ {0}
      /\ DOMAIN Tail(s) = 1 .. Len(s) - 1 /\ DOMAIN s = 1 .. Len(s)
      /\ \A i \in 1 .. Len(s) - 1 : Tail(s)[i] = s[i + 1]
  BY HeadTailProperties
<1>2. Ascending(Tail(s))
  BY <1>1 DEF Ascending
<1>3. \A m \in ToSet(Tail(s)) : Precedes(Head(s), m)
  BY <1>1 DEF Ascending, ToSet
<1> QED
  BY <1>2, <1>3

(* Between two turns the loop holds nothing it took from a queue.          *)
Settled == loop \notin {"prompts", "prepare", "deliver"} => pending = <<>>

(* The polls, the prompts and a failure keep it so.                        *)
LEMMA StepSettled == Settled /\ LoopTypeOK /\ [AgentNext]_agentVars => Settled'
<1> SUFFICES ASSUME Settled, LoopTypeOK, [AgentNext]_agentVars PROVE Settled'
  OBVIOUS
<1> USE DEF Settled, LoopTypeOK, Loop, queueVars, batchRest
<1>0. UNCHANGED agentVars => Settled'
  BY DEF agentVars
<1>1. PutPrompt \/ PutPending => Settled'
  BY DEF PutPrompt, PutPending, Put
<1>2. FirstPoll \/ Prepare \/ Poll \/ Stop => Settled'
  BY DEF FirstPoll, Prepare, Poll, Stop
<1>3. Request \/ Finish \/ End \/ Fail => Settled'
  BY DEF Request, Finish, End, Fail
<1>4. Respond => Settled'
  BY DEF Respond
<1>5. PrepareCall \/ CheckAbort \/ Start \/ EmitResult => Settled'
  BY DEF PrepareCall, CheckAbort, Start, EmitResult
<1>6. ASSUME NEW m \in Messages, Queue(m) \/ Unqueue(m) PROVE Settled'
  BY <1>6 DEF Queue, Unqueue
<1>7. ASSUME NEW t \in Tools, ToolReturn(t) \/ StrayReturn(t) PROVE Settled'
  BY <1>7 DEF ToolReturn, StrayReturn
<1>8. Prompt \/ Continue => Settled'
  BY DEF Prompt, Continue, StartRun
<1>9. Abort \/ Throw \/ Reset => Settled'
  BY DEF Abort, Throw, Reset
<1> QED
  BY <1>0, <1>1, <1>2, <1>3, <1>4, <1>5, <1>6, <1>7, <1>8, <1>9 DEF AgentNext, LoopStep

PutOne ==
    /\ pending # <<>>
    /\ delivered' = Append(delivered, Head(pending))
    /\ pending' = Tail(pending)
    /\ UNCHANGED <<queueVars, lost>>

Dropped ==
    /\ lost' = lost \cup ToSet(pending)
    /\ pending' = <<>>
    /\ UNCHANGED <<queueVars, delivered>>

(* What a step does to the messages.                                       *)
LEMMA QueueSteps ==
    ASSUME Settled, [AgentNext]_agentVars
    PROVE  \/ UNCHANGED <<queueVars, pending, delivered, lost>>
           \/ pending = <<>> /\ DrainSteering /\ UNCHANGED <<delivered, lost>>
           \/ pending = <<>> /\ DrainFollowUps /\ UNCHANGED <<delivered, lost>>
           \/ PutOne
           \/ Dropped
           \/ \E m \in Messages : Queue(m) \/ Unqueue(m)
           \/ Reset
<1> DEFINE Goal == \/ UNCHANGED <<queueVars, pending, delivered, lost>>
                   \/ pending = <<>> /\ DrainSteering /\ UNCHANGED <<delivered, lost>>
                   \/ pending = <<>> /\ DrainFollowUps /\ UNCHANGED <<delivered, lost>>
                   \/ PutOne
                   \/ Dropped
                   \/ \E m \in Messages : Queue(m) \/ Unqueue(m)
                   \/ Reset
<1> USE DEF Settled, strayVars, batchRest
<1>0. UNCHANGED agentVars => Goal
  BY DEF agentVars
<1>1. PutPrompt \/ PutPending => Goal
  BY DEF PutPrompt, PutPending, Put, PutOne
<1>2. FirstPoll \/ Prepare \/ Poll \/ Stop => Goal
  BY DEF FirstPoll, Prepare, Poll, Stop
<1>3. Request \/ Finish \/ End \/ Fail => Goal
  BY DEF Request, Finish, End, Fail
<1>4. Respond => Goal
  BY DEF Respond
<1>5. PrepareCall \/ CheckAbort \/ Start \/ EmitResult => Goal
  BY DEF PrepareCall, CheckAbort, Start, EmitResult
<1>7. ASSUME NEW t \in Tools, ToolReturn(t) \/ StrayReturn(t) PROVE Goal
  BY <1>7 DEF ToolReturn, StrayReturn
<1>8. Prompt \/ Continue => Goal
  BY DEF Prompt, Continue, StartRun
<1>9. Abort \/ Throw \/ Reset => Goal
  BY DEF Abort, Throw, Dropped
<1> QED
  BY <1>0, <1>1, <1>2, <1>3, <1>4, <1>5, <1>7, <1>8, <1>9 DEF AgentNext, LoopStep

(* The stretches a message passes through keep the order of their lane.    *)
Lanes ==
    /\ IsInjective(order)
    /\ Ascending(delivered) /\ Ascending(pending) /\ Ascending(steering) /\ Ascending(followUps)
    /\ Ahead(delivered, pending) /\ Ahead(delivered, steering) /\ Ahead(delivered, followUps)
    /\ Ahead(pending, steering) /\ Ahead(pending, followUps)

Alive == ToSet(delivered) \cup ToSet(pending) \cup ToSet(steering) \cup ToSet(followUps)

(* Every message is in a sequence, or removed, or lost. *)
Accounted ==
    /\ ToSet(order) = Alive \cup gone \cup lost
    /\ Alive \cap gone = {} /\ Alive \cap lost = {} /\ gone \cap lost = {}

QueueInv == QueueTypeOK /\ Lanes /\ Accounted

(* steer() and followUp() put a message behind every earlier one.          *)
LEMMA OrderGrows ==
    ASSUME order \in Seq(Messages), IsInjective(order), NEW e \in Messages, ~Contains(order, e),
           order' = Append(order, e)
    PROVE  /\ IsInjective(order')
           /\ ToSet(order') = ToSet(order) \cup {e}
           /\ \A m, n : Precedes(m, n) => Precedes(m, n)'
           /\ \A m \in ToSet(order) : Precedes(m, e)'
<1>1. /\ DOMAIN order' = 1 .. Len(order) + 1 /\ DOMAIN order = 1 .. Len(order) /\ Len(order) \in Nat
      /\ \A i \in 1 .. Len(order) : order'[i] = order[i]
      /\ order'[Len(order) + 1] = e
  OBVIOUS
<1>2. IsInjective(order')
  BY <1>1 DEF IsInjective, Contains
<1>3. ToSet(order) \subseteq ToSet(order') /\ e \in ToSet(order')
  BY <1>1 DEF ToSet
<1>4. ToSet(order') \subseteq ToSet(order) \cup {e}
  BY <1>1 DEF ToSet
<1>5. \A m, n : Precedes(m, n) => Precedes(m, n)'
  BY <1>1 DEF Precedes, QueuedBefore, SameKind
<1>6. \A m \in ToSet(order) : Precedes(m, e)'
  BY <1>1 DEF Precedes, QueuedBefore, ToSet
<1> QED
  BY <1>2, <1>3, <1>4, <1>5, <1>6

(* While nothing is queued the lanes stay as they are.                     *)
LEMMA SameOrder ==
    ASSUME order' = order
    PROVE  \A m, n : Precedes(m, n)' <=> Precedes(m, n)
BY DEF Precedes, QueuedBefore, SameKind

(* An agent starts with nothing queued.                                    *)
LEMMA InitQueueInv == AgentInit => QueueInv /\ Settled
<1> SUFFICES ASSUME AgentInit PROVE QueueInv /\ Settled
  OBVIOUS
<1>1. QueueTypeOK /\ Settled
  BY DEF AgentInit, QueueTypeOK, Settled
<1>2. Lanes
  BY DEF AgentInit, Lanes, IsInjective, Ascending, Ahead, ToSet
<1>3. Accounted
  BY DEF AgentInit, Accounted, Alive, ToSet
<1> QED
  BY <1>1, <1>2, <1>3 DEF QueueInv

(* A steering poll moves messages from the queue to the pending ones.      *)
LEMMA DrainSteeringQueueInv ==
    ASSUME QueueInv, pending = <<>>, DrainSteering, UNCHANGED <<delivered, lost>>
    PROVE  QueueInv'
<1> DEFINE a == Peek(steering)
           b == Rest(steering)
<1>1. /\ order' = order /\ delivered' = delivered /\ followUps' = followUps
      /\ gone' = gone /\ lost' = lost /\ pending' = a /\ steering' = b
  BY DEF DrainSteering
<1>2. a \in Seq(Steers) /\ b \in Seq(Steers)
  BY PeekRest DEF QueueInv, QueueTypeOK
<1>3. QueueTypeOK'
  BY <1>1, <1>2, SeqMonotonic DEF QueueInv, QueueTypeOK, Messages
<1>4. /\ Ascending(a) /\ Ascending(b) /\ Ahead(a, b)
      /\ ToSet(steering) = ToSet(a) \cup ToSet(b)
  BY DrainKeepsOrder DEF QueueInv, QueueTypeOK, Lanes
<1> HIDE DEF a, b
<1>5. Ahead(delivered, a) /\ Ahead(delivered, b) /\ Ahead(delivered, followUps)
  BY <1>4 DEF QueueInv, Lanes, Ahead
<1>6. Ahead(a, followUps)
  <2>1. ToSet(a) \subseteq Steers /\ ToSet(followUps) \cap Steers = {}
    BY <1>2, AgentAssumption DEF AgentAssumption, QueueInv, QueueTypeOK, ToSet
  <2> QED
    BY <2>1 DEF Ahead, Precedes, SameKind
<1>7. Lanes'
  BY <1>1, <1>4, <1>5, <1>6, SameOrder DEF QueueInv, Lanes, Ascending, Ahead
<1>8. ToSet(pending) = {}
  BY DEF ToSet
<1>9. Accounted'
  BY <1>1, <1>4, <1>8 DEF QueueInv, Accounted, Alive
<1> QED
  BY <1>3, <1>7, <1>9 DEF QueueInv

(* A follow-up poll does the same for the other queue.                     *)
LEMMA DrainFollowUpsQueueInv ==
    ASSUME QueueInv, pending = <<>>, DrainFollowUps, UNCHANGED <<delivered, lost>>
    PROVE  QueueInv'
<1> DEFINE a == Peek(followUps)
           b == Rest(followUps)
<1>1. /\ order' = order /\ delivered' = delivered /\ steering' = steering
      /\ gone' = gone /\ lost' = lost /\ pending' = a /\ followUps' = b
  BY DEF DrainFollowUps
<1>2. a \in Seq(Follows) /\ b \in Seq(Follows)
  BY PeekRest DEF QueueInv, QueueTypeOK
<1>3. QueueTypeOK'
  BY <1>1, <1>2, SeqMonotonic DEF QueueInv, QueueTypeOK, Messages
<1>4. /\ Ascending(a) /\ Ascending(b) /\ Ahead(a, b)
      /\ ToSet(followUps) = ToSet(a) \cup ToSet(b)
  BY DrainKeepsOrder DEF QueueInv, QueueTypeOK, Lanes
<1> HIDE DEF a, b
<1>5. Ahead(delivered, a) /\ Ahead(delivered, b) /\ Ahead(delivered, steering)
  BY <1>4 DEF QueueInv, Lanes, Ahead
<1>6. Ahead(a, steering)
  <2>1. ToSet(steering) \subseteq Steers /\ ToSet(a) \cap Steers = {}
    BY <1>2, AgentAssumption DEF AgentAssumption, QueueInv, QueueTypeOK, ToSet
  <2> QED
    BY <2>1 DEF Ahead, Precedes, SameKind
<1>7. Lanes'
  BY <1>1, <1>4, <1>5, <1>6, SameOrder DEF QueueInv, Lanes, Ascending, Ahead
<1>8. ToSet(pending) = {}
  BY DEF ToSet
<1>9. Accounted'
  BY <1>1, <1>4, <1>8 DEF QueueInv, Accounted, Alive
<1> QED
  BY <1>3, <1>7, <1>9 DEF QueueInv

(* A pending message enters the transcript.                                *)
LEMMA PutQueueInv == ASSUME QueueInv, PutOne PROVE QueueInv'
<1> DEFINE h == Head(pending)
<1>1. /\ order' = order /\ steering' = steering /\ followUps' = followUps
      /\ gone' = gone /\ lost' = lost
      /\ pending' = Tail(pending) /\ delivered' = Append(delivered, h)
  BY DEF PutOne, queueVars
<1>2. /\ h \in Messages /\ Tail(pending) \in Seq(Messages)
      /\ Ascending(Tail(pending)) /\ \A m \in ToSet(Tail(pending)) : Precedes(h, m)
      /\ ToSet(pending) = ToSet(Tail(pending)) \cup {h}
  BY TailSet, TailKeepsOrder DEF PutOne, QueueInv, QueueTypeOK, Lanes
<1>3. \A m \in ToSet(delivered) : Precedes(m, h)
  BY <1>2 DEF QueueInv, Lanes, Ahead
<1>4. /\ Ascending(Append(delivered, h))
      /\ ToSet(Append(delivered, h)) = ToSet(delivered) \cup {h}
  BY <1>2, <1>3, AppendKeepsOrder DEF QueueInv, QueueTypeOK, Lanes
<1>5. QueueTypeOK'
  BY <1>1, <1>2 DEF QueueInv, QueueTypeOK
<1> HIDE DEF h
<1>6. /\ Ahead(delivered', pending') /\ Ahead(delivered', steering) /\ Ahead(delivered', followUps)
      /\ Ahead(pending', steering) /\ Ahead(pending', followUps)
  BY <1>1, <1>2, <1>4 DEF QueueInv, Lanes, Ahead
<1>7. Lanes'
  BY <1>1, <1>2, <1>4, <1>6, SameOrder DEF QueueInv, Lanes, Ascending, Ahead
<1>8. Accounted'
  BY <1>1, <1>2, <1>4 DEF QueueInv, Accounted, Alive
<1> QED
  BY <1>5, <1>7, <1>8 DEF QueueInv

(* A failing run loses exactly what it had taken and not delivered.        *)
LEMMA DroppedQueueInv == ASSUME QueueInv, Dropped PROVE QueueInv'
<1>1. /\ order' = order /\ steering' = steering /\ followUps' = followUps /\ delivered' = delivered
      /\ gone' = gone /\ lost' = lost \cup ToSet(pending) /\ pending' = <<>>
  BY DEF Dropped, queueVars
<1>2. ToSet(pending') = {} /\ ToSet(pending) \subseteq Messages
  BY <1>1 DEF ToSet, QueueInv, QueueTypeOK
<1>3. QueueTypeOK'
  BY <1>1, <1>2 DEF QueueInv, QueueTypeOK
<1>4. Lanes'
  BY <1>1, <1>2, SameOrder DEF QueueInv, Lanes, Ascending, Ahead
<1>5. /\ ToSet(pending) \cap ToSet(delivered) = {}
      /\ ToSet(pending) \cap ToSet(steering) = {}
      /\ ToSet(pending) \cap ToSet(followUps) = {}
  BY AheadIsApart DEF QueueInv, QueueTypeOK, Lanes
<1>6. Accounted'
  BY <1>1, <1>2, <1>5 DEF QueueInv, Accounted, Alive
<1> QED
  BY <1>3, <1>4, <1>6 DEF QueueInv

(* A stretch ascends still when a message just queued is appended to it.   *)
LEMMA QueuedLast ==
    ASSUME NEW S, NEW s \in Seq(S), NEW e \in S, Ascending(s),
           \A m, n : Precedes(m, n) => Precedes(m, n)',
           \A m \in ToSet(s) : Precedes(m, e)'
    PROVE  /\ \A i, j \in DOMAIN Append(s, e) :
                i < j => Precedes(Append(s, e)[i], Append(s, e)[j])'
           /\ ToSet(Append(s, e)) = ToSet(s) \cup {e}
<1>1. /\ DOMAIN Append(s, e) = 1 .. Len(s) + 1 /\ DOMAIN s = 1 .. Len(s) /\ Len(s) \in Nat
      /\ \A i \in 1 .. Len(s) : Append(s, e)[i] = s[i]
      /\ Append(s, e)[Len(s) + 1] = e
  OBVIOUS
<1>2. \A i, j \in DOMAIN Append(s, e) : i < j => Precedes(Append(s, e)[i], Append(s, e)[j])'
  BY <1>1 DEF Ascending, ToSet
<1>3. ToSet(Append(s, e)) \subseteq ToSet(s) \cup {e}
  BY <1>1 DEF ToSet
<1>4. ToSet(s) \subseteq ToSet(Append(s, e)) /\ e \in ToSet(Append(s, e))
  BY <1>1 DEF ToSet
<1> QED
  BY <1>2, <1>3, <1>4

(* steer() and followUp().                                                 *)
LEMMA QueueQueueInv == ASSUME QueueInv, NEW m \in Messages, Queue(m) PROVE QueueInv'
<1>1. /\ ~Contains(order, m) /\ order' = Append(order, m)
      /\ delivered' = delivered /\ pending' = pending /\ gone' = gone /\ lost' = lost
  BY DEF Queue, strayVars
<1>3. /\ IsInjective(order')
      /\ ToSet(order') = ToSet(order) \cup {m}
      /\ \A k, n : Precedes(k, n) => Precedes(k, n)'
      /\ \A k \in ToSet(order) : Precedes(k, m)'
  BY <1>1, OrderGrows DEF QueueInv, QueueTypeOK, Lanes
<1>4. /\ m \notin ToSet(order)
      /\ \A k \in Alive : Precedes(k, m)'
  BY <1>1, <1>3 DEF Contains, ToSet, QueueInv, QueueTypeOK, Accounted
<1>o. order' \in Seq(Messages)
  BY <1>1 DEF QueueInv, QueueTypeOK
<1>5. CASE m \in Steers
  <2>1. steering' = Append(steering, m) /\ followUps' = followUps
    BY <1>5 DEF Queue
  <2>2. /\ Ascending(steering)'
        /\ ToSet(steering') = ToSet(steering) \cup {m}
    <3>1. /\ Ascending(steering) /\ steering \in Seq(Steers)
          /\ \A k \in ToSet(steering) : Precedes(k, m)'
      BY <1>4 DEF QueueInv, QueueTypeOK, Lanes, Alive
    <3> QED
      BY <1>3, <1>5, <2>1, <3>1, QueuedLast DEF Ascending
  <2>3. QueueTypeOK'
    BY <1>1, <1>o, <1>5, <2>1 DEF QueueInv, QueueTypeOK
  <2>4. Lanes'
    BY <1>1, <1>3, <1>4, <2>1, <2>2 DEF QueueInv, Lanes, Ascending, Ahead, Alive
  <2>5. Accounted'
    BY <1>1, <1>3, <1>4, <2>1, <2>2 DEF QueueInv, Accounted, Alive
  <2> QED
    BY <2>3, <2>4, <2>5 DEF QueueInv
<1>6. CASE m \notin Steers
  <2>1. followUps' = Append(followUps, m) /\ steering' = steering /\ m \in Follows
    BY <1>6 DEF Queue, Messages
  <2>2. /\ Ascending(followUps)'
        /\ ToSet(followUps') = ToSet(followUps) \cup {m}
    <3>1. /\ Ascending(followUps) /\ followUps \in Seq(Follows)
          /\ \A k \in ToSet(followUps) : Precedes(k, m)'
      BY <1>4 DEF QueueInv, QueueTypeOK, Lanes, Alive
    <3> QED
      BY <1>3, <2>1, <3>1, QueuedLast DEF Ascending
  <2>3. QueueTypeOK'
    BY <1>1, <1>o, <2>1 DEF QueueInv, QueueTypeOK
  <2>4. Lanes'
    BY <1>1, <1>3, <1>4, <2>1, <2>2 DEF QueueInv, Lanes, Ascending, Ahead, Alive
  <2>5. Accounted'
    BY <1>1, <1>3, <1>4, <2>1, <2>2 DEF QueueInv, Accounted, Alive
  <2> QED
    BY <2>3, <2>4, <2>5 DEF QueueInv
<1> QED
  BY <1>5, <1>6

(* removeQueuedMessage.                                                    *)
LEMMA UnqueueQueueInv == ASSUME QueueInv, NEW m \in Messages, Unqueue(m) PROVE QueueInv'
<1> DEFINE a == RemoveFirst(steering, m)
           b == RemoveFirst(followUps, m)
<1>1. /\ order' = order /\ delivered' = delivered /\ pending' = pending /\ lost' = lost
      /\ steering' = a /\ followUps' = b /\ gone' = gone \cup {m}
      /\ m \in ToSet(steering) \cup ToSet(followUps)
  BY DEF Unqueue, strayVars, Contains, ToSet, QueueInv, QueueTypeOK
<1>2. /\ a \in Seq(Steers) /\ Ascending(a) /\ ToSet(a) = ToSet(steering) \ {m}
      /\ b \in Seq(Follows) /\ Ascending(b) /\ ToSet(b) = ToSet(followUps) \ {m}
  BY RemoveKeepsOrder DEF QueueInv, QueueTypeOK, Lanes
<1> HIDE DEF a, b
<1>3. QueueTypeOK'
  BY <1>1, <1>2 DEF QueueInv, QueueTypeOK
<1>4. Lanes'
  BY <1>1, <1>2, SameOrder DEF QueueInv, Lanes, Ascending, Ahead
<1>5. m \notin ToSet(delivered) \cup ToSet(pending)
  BY <1>1, AheadIsApart DEF QueueInv, QueueTypeOK, Lanes
<1>6. Accounted'
  BY <1>1, <1>2, <1>5 DEF QueueInv, Accounted, Alive
<1> QED
  BY <1>3, <1>4, <1>6 DEF QueueInv

(* reset() clears both queues.                                             *)
LEMMA ResetQueueInv == ASSUME QueueInv, Reset PROVE QueueInv'
<1>1. /\ order' = order /\ delivered' = delivered /\ pending' = pending /\ lost' = lost
      /\ steering' = <<>> /\ followUps' = <<>>
      /\ gone' = gone \cup ToSet(steering) \cup ToSet(followUps)
  BY DEF Reset, strayVars
<1>2. /\ ToSet(steering') = {} /\ ToSet(followUps') = {}
      /\ ToSet(steering) \subseteq Messages /\ ToSet(followUps) \subseteq Messages
  BY <1>1 DEF ToSet, QueueInv, QueueTypeOK, Messages
<1>3. QueueTypeOK'
  BY <1>1, <1>2 DEF QueueInv, QueueTypeOK
<1>4. Lanes'
  BY <1>1, <1>2, SameOrder DEF QueueInv, Lanes, Ascending, Ahead
<1>5. /\ ToSet(delivered) \cap ToSet(steering) = {} /\ ToSet(delivered) \cap ToSet(followUps) = {}
      /\ ToSet(pending) \cap ToSet(steering) = {} /\ ToSet(pending) \cap ToSet(followUps) = {}
  BY AheadIsApart DEF QueueInv, QueueTypeOK, Lanes
<1>6. Accounted'
  BY <1>1, <1>2, <1>5 DEF QueueInv, Accounted, Alive
<1> QED
  BY <1>3, <1>4, <1>6 DEF QueueInv

(* Every step keeps account of the messages and their order.               *)
LEMMA StepQueueInv == QueueInv /\ Settled /\ [AgentNext]_agentVars => QueueInv'
<1> SUFFICES ASSUME QueueInv, Settled, [AgentNext]_agentVars PROVE QueueInv'
  OBVIOUS
<1>1. CASE UNCHANGED <<queueVars, pending, delivered, lost>>
  <2>1. /\ order' = order /\ steering' = steering /\ followUps' = followUps /\ gone' = gone
        /\ delivered' = delivered /\ pending' = pending /\ lost' = lost
    BY <1>1 DEF queueVars
  <2> QED
    BY <2>1, SameOrder
       DEF QueueInv, QueueTypeOK, Lanes, Accounted, Alive, Ascending, Ahead
<1> QED
  BY <1>1, QueueSteps, DrainSteeringQueueInv, DrainFollowUpsQueueInv, PutQueueInv,
     DroppedQueueInv, QueueQueueInv, UnqueueQueueInv, ResetQueueInv

(* The account as the run states it.                                       *)
LEMMA QueueInvPlaces == QueueInv => NothingLost
<1> SUFFICES ASSUME QueueInv PROVE NothingLost
  OBVIOUS
<1>1. \A s \in {steering, followUps, pending, delivered} : IsInjective(s)
  BY AscendingIsInjective DEF QueueInv, QueueTypeOK, Lanes
<1>2. /\ ToSet(delivered) \cap ToSet(pending) = {}
      /\ ToSet(delivered) \cap ToSet(steering) = {} /\ ToSet(delivered) \cap ToSet(followUps) = {}
      /\ ToSet(pending) \cap ToSet(steering) = {} /\ ToSet(pending) \cap ToSet(followUps) = {}
  BY AheadIsApart DEF QueueInv, QueueTypeOK, Lanes
<1>3. ToSet(steering) \cap ToSet(followUps) = {}
  <2>1. ToSet(steering) \subseteq Steers /\ ToSet(followUps) \subseteq Follows
    BY DEF QueueInv, QueueTypeOK, ToSet
  <2> QED
    BY <2>1, AgentAssumption DEF AgentAssumption
<1> DEFINE places == <<ToSet(steering), ToSet(followUps), ToSet(pending), ToSet(delivered),
                       gone, lost>>
<1>4. /\ places[1] = ToSet(steering) /\ places[2] = ToSet(followUps) /\ places[3] = ToSet(pending)
      /\ places[4] = ToSet(delivered) /\ places[5] = gone /\ places[6] = lost
  OBVIOUS
<1> HIDE DEF places
<1>5. \A k, l \in 1 .. 6 : k < l => places[k] \cap places[l] = {}
  BY <1>2, <1>3, <1>4 DEF QueueInv, Accounted, Alive
<1>6. ToSet(order) = UNION {places[k] : k \in 1 .. 6}
  BY <1>4 DEF QueueInv, Accounted, Alive
<1> QED
  BY <1>1, <1>5, <1>6 DEF NothingLost, places

(* The order as the run states it.                                         *)
LEMMA QueueInvInOrder == QueueInv => InOrder
  BY DEF QueueInv, Lanes, Ascending, Precedes, InOrder
---------------------------------------------------------------------------
(* What a request carries. *)

NoSteer(s) == ToSet(s) \cap Steers = {}

(* What the coming request carries already, and what is on its way to it.  *)
SteerBudget ==
    /\ oneEach => /\ Len(pending) <= 1
                  /\ since = 0 \/ (since = 1 /\ NoSteer(pending))
    /\ loop \in {"prepare", "stream", "preparing", "checked", "executing", "awaiting",
                 "finish", "poll", "stop", "ending"} => since = 0
    /\ loop \in {"prompts", "first"} /\ ~skip => since = 0 /\ NoSteer(pending)

(* Nothing is on its way to the first request.                             *)
LEMMA InitSteerBudget == AgentInit => SteerBudget
  BY DEF AgentInit, SteerBudget, NoSteer, ToSet

(* Every poll that takes steering finds none in the coming request, except *)
(* where the prompt was steering and the first poll is skipped for it.     *)
LEMMA StepSteerBudget ==
    ASSUME SteerBudget, Settled, QueueTypeOK, LoopTypeOK, [AgentNext]_agentVars
    PROVE  SteerBudget'
<1> USE DEF SteerBudget, LoopTypeOK, Loop, queueVars, batchRest
<1>e. NoSteer(<<>>) /\ Len(<<>>) = 0
  BY DEF NoSteer, ToSet
<1>s. DrainSteering => /\ oneEach => Len(pending') <= 1
  BY PeekRest DEF DrainSteering, QueueTypeOK
<1>f. DrainFollowUps => /\ oneEach => Len(pending') <= 1
                        /\ NoSteer(pending')
  <2>1. Peek(followUps) \in Seq(Follows)
    BY PeekRest DEF QueueTypeOK
  <2>2. NoSteer(Peek(followUps))
    BY <2>1, AgentAssumption DEF AgentAssumption, NoSteer, ToSet
  <2> QED
    BY <2>2, PeekRest DEF DrainFollowUps, QueueTypeOK
<1>0. UNCHANGED agentVars => SteerBudget'
  BY DEF agentVars, NoSteer
<1>1. PutPrompt \/ PutPending => SteerBudget'
  <2> SUFFICES ASSUME PutPrompt \/ PutPending PROVE SteerBudget'
    OBVIOUS
  <2>1. CASE pending = <<>>
    BY <2>1 DEF PutPrompt, PutPending, Put
  <2>2. CASE pending # <<>>
    <3>1. /\ Len(pending) \in Nat /\ Len(pending') = Len(pending) - 1
          /\ ToSet(pending) = ToSet(pending') \cup {Head(pending)}
      BY <2>2, TailSet DEF PutPrompt, PutPending, Put, QueueTypeOK
    <3>2. since' = since + IF Head(pending) \in Steers THEN 1 ELSE 0
      BY <2>2 DEF PutPrompt, PutPending, Put
    <3>3. UNCHANGED <<loop, skip, oneEach>>
      BY <2>2 DEF PutPrompt, PutPending, Put
    <3>4. \/ since' = since + 1 /\ ~NoSteer(pending)
          \/ since' = since /\ (NoSteer(pending) => NoSteer(pending'))
      BY <3>1, <3>2 DEF NoSteer
    <3>5. oneEach => NoSteer(pending')
      <4> SUFFICES ASSUME oneEach PROVE pending' = <<>>
        BY <1>e
      <4> QED
        BY <2>2, <3>1 DEF PutPrompt, PutPending, Put, QueueTypeOK
    <3> QED
      BY <2>2, <3>1, <3>3, <3>4, <3>5 DEF PutPrompt, PutPending, Put
  <2> QED
    BY <2>1, <2>2
<1>2. FirstPoll \/ Prepare \/ Poll \/ Stop => SteerBudget'
  BY <1>e, <1>s, <1>f DEF FirstPoll, Prepare, Poll, Stop, Settled
<1>3. Request \/ Finish \/ End \/ Fail => SteerBudget'
  BY <1>e DEF Request, Finish, End, Fail, Settled
<1>4. Respond => SteerBudget'
  BY DEF Respond
<1>5. PrepareCall \/ CheckAbort \/ Start \/ EmitResult => SteerBudget'
  BY DEF PrepareCall, CheckAbort, Start, EmitResult
<1>6. ASSUME NEW m \in Messages, Queue(m) \/ Unqueue(m) PROVE SteerBudget'
  BY <1>6 DEF Queue, Unqueue
<1>7. ASSUME NEW t \in Tools, ToolReturn(t) \/ StrayReturn(t) PROVE SteerBudget'
  BY <1>7 DEF ToolReturn, StrayReturn
<1>8. Prompt \/ Continue => SteerBudget'
  BY <1>e, <1>s, <1>f DEF Prompt, Continue, StartRun, Settled
<1>9. Abort \/ Throw \/ Reset => SteerBudget'
  BY <1>e DEF Abort, Throw, Reset
<1> QED
  BY <1>0, <1>1, <1>2, <1>3, <1>4, <1>5, <1>6, <1>7, <1>8, <1>9 DEF AgentNext, LoopStep

(* The budget as the run states it.                                        *)
LEMMA SteerBudgetSpent ==
    ASSUME SteerBudget, QueueTypeOK, LoopTypeOK PROVE OneSteerPerRequest
<1> SUFFICES ASSUME oneEach
             PROVE  since + Cardinality({i \in DOMAIN pending : pending[i] \in Steers}) <= 1
  BY DEF OneSteerPerRequest
<1> DEFINE I == {i \in DOMAIN pending : pending[i] \in Steers}
<1>1. DOMAIN pending = 1 .. Len(pending) /\ Len(pending) \in Nat
  BY DEF QueueTypeOK
<1>2. CASE NoSteer(pending)
  <2>1. I = {}
    BY <1>2 DEF NoSteer, ToSet
  <2> QED
    BY <2>1, FS_EmptySet DEF SteerBudget
<1>3. CASE ~NoSteer(pending)
  <2>1. since = 0 /\ I \subseteq {1}
    BY <1>1, <1>3 DEF SteerBudget
  <2>2. IsFiniteSet({1}) /\ Cardinality({1}) = 1
    BY FS_Singleton
  <2>3. Cardinality(I) <= 1 /\ IsFiniteSet(I)
    BY ONLY <2>1, <2>2, FS_Subset
  <2>4. Cardinality(I) \in Nat
    BY <2>3, FS_CardinalityType
  <2> QED
    BY <2>1, <2>3, <2>4
<1> QED
  BY <1>2, <1>3

(* A message queued before the last poll is not behind a follow-up.        *)
Yields ==
    /\ polled <= Len(order)
    /\ loop = "stop" \/ ToSet(pending) \cap Follows # {} =>
          \A i \in 1 .. polled : order[i] \notin ToSet(steering)

(* No poll was made yet.                                                   *)
LEMMA InitYields == AgentInit => Yields
  BY DEF AgentInit, Yields

(* A follow-up is taken only where the last poll left no steering behind.  *)
LEMMA StepYields ==
    ASSUME Yields, Settled, QueueInv, LoopTypeOK, [AgentNext]_agentVars
    PROVE  Yields'
<1> USE DEF Yields, LoopTypeOK, Loop, queueVars, batchRest
<1>e. ToSet(<<>>) = {}
  BY DEF ToSet
<1>s. DrainSteering => /\ polled' = Len(order) /\ order' = order
                       /\ ToSet(pending') \cap Follows = {}
                       /\ pending' = <<>> => steering' = <<>>
  <2>1. Peek(steering) \in Seq(Steers) /\ (Peek(steering) = <<>> => Rest(steering) = <<>>)
    BY PeekRest DEF QueueInv, QueueTypeOK
  <2>2. ToSet(Peek(steering)) \cap Follows = {}
    BY <2>1, AgentAssumption DEF AgentAssumption, ToSet
  <2> QED
    BY <2>1, <2>2 DEF DrainSteering
<1>f. DrainFollowUps => UNCHANGED <<order, polled, steering>>
  BY DEF DrainFollowUps
<1>0. UNCHANGED agentVars => Yields'
  BY DEF agentVars
<1>1. PutPrompt \/ PutPending => Yields'
  <2>1. pending # <<>> => ToSet(Tail(pending)) \subseteq ToSet(pending)
    BY TailSet DEF QueueInv, QueueTypeOK
  <2> QED
    BY <2>1 DEF PutPrompt, PutPending, Put
<1>2. FirstPoll \/ Prepare \/ Poll \/ Stop => Yields'
  BY <1>e, <1>s, <1>f DEF FirstPoll, Prepare, Poll, Stop, Settled
<1>3. Request \/ Finish \/ End \/ Fail => Yields'
  BY <1>e DEF Request, Finish, End, Fail, Settled
<1>4. Respond => Yields'
  BY DEF Respond
<1>5. PrepareCall \/ CheckAbort \/ Start \/ EmitResult => Yields'
  BY DEF PrepareCall, CheckAbort, Start, EmitResult
<1>6. ASSUME NEW m \in Messages, Queue(m) PROVE Yields'
  <2>1. /\ Len(order) \in Nat /\ polled \in 0 .. Len(order) /\ Len(order') = Len(order) + 1
        /\ \A i \in 1 .. polled : order'[i] = order[i] /\ order[i] # m
        /\ UNCHANGED <<loop, pending, polled>>
    BY <1>6 DEF Queue, QueueInv, QueueTypeOK, Contains
  <2>2. ToSet(steering') \subseteq ToSet(steering) \cup {m}
    <3>1. \A k \in Steers : ToSet(Append(steering, k)) \subseteq ToSet(steering) \cup {k}
      BY DEF QueueInv, QueueTypeOK, ToSet
    <3> QED
      BY <1>6, <3>1 DEF Queue
  <2> QED
    BY <2>1, <2>2
<1>10. ASSUME NEW m \in Messages, Unqueue(m) PROVE Yields'
  <2>1. ToSet(RemoveFirst(steering, m)) \subseteq ToSet(steering)
    BY RemoveKeepsOrder DEF QueueInv, Lanes, QueueTypeOK
  <2> QED
    BY <1>10, <2>1 DEF Unqueue
<1>7. ASSUME NEW t \in Tools, ToolReturn(t) \/ StrayReturn(t) PROVE Yields'
  BY <1>7 DEF ToolReturn, StrayReturn
<1>8. Prompt \/ Continue => Yields'
  BY <1>e, <1>s, <1>f DEF Prompt, Continue, StartRun, Settled
<1>9. Abort \/ Throw \/ Reset => Yields'
  BY <1>e DEF Abort, Throw, Reset
<1> QED
  BY <1>0, <1>1, <1>2, <1>3, <1>4, <1>5, <1>6, <1>7, <1>8, <1>9, <1>10 DEF AgentNext, LoopStep

(* The rule as the run states it.                                          *)
LEMMA YieldsToSteering == ASSUME Yields, QueueTypeOK, LoopTypeOK PROVE FollowUpsYield
<1>1. \A m : Contains(steering, m) => m \in ToSet(steering)
  BY DEF Contains, ToSet, QueueTypeOK
<1> QED
  BY <1>1 DEF Yields, FollowUpsYield
---------------------------------------------------------------------------
(* The tool batch. *)

(* A message's tool calls are pairwise different.                          *)
LEMMA BatchIsInjective ==
    ASSUME NEW b \in Batches
    PROVE  b \in Seq(Tools) /\ IsInjective(b)
<1>1. PICK T \in SUBSET Tools : b \in SetToSeqs(T)
  BY DEF Batches
<1>2. Cardinality(T) \in Nat
  BY FS_Subset, FS_CardinalityType, AgentAssumption DEF AgentAssumption
<1>3. /\ b \in [1 .. Cardinality(T) -> T]
      /\ \A i, j \in 1 .. Cardinality(T) : i # j => b[i] # b[j]
  BY <1>1 DEF SetToSeqs
<1>4. b \in Seq(T) /\ Len(b) = Cardinality(T)
  BY <1>2, <1>3
<1> QED
  BY <1>3, <1>4, SeqMonotonic DEF IsInjective

(* A batch is prepared and answered in the order of its calls.             *)
BatchShape ==
    /\ IsInjective(calls)
    /\ Reached \subseteq ToSet(calls)
    /\ \A i, j \in DOMAIN calls : j < i /\ calls[i] \in Reached => calls[j] \in Reached
    /\ Len(results) <= Len(calls)
    /\ \A i \in DOMAIN results : results[i] = calls[i]

(* The next result is that of a call the batch has come to.                *)
OneIsDue == Len(results) < Len(calls) /\ calls[Len(results) + 1] \in Reached

(* How far the results are behind the calls at each await of the batch.    *)
BatchProgress ==
    /\ loop # "awaiting" => Running = {}
    /\ loop \in {"preparing", "checked", "executing", "awaiting"} => ToSet(results) \subseteq Reached
    /\ sequential /\ loop \in {"preparing", "checked"} => Reached \subseteq ToSet(results)
    /\ sequential /\ loop \in {"executing", "awaiting"} =>
          OneIsDue /\ Reached \subseteq ToSet(results) \cup {calls[Len(results) + 1]}
    /\ ~sequential /\ loop \in {"preparing", "checked", "executing"} => results = <<>>
    /\ ~sequential /\ loop \in {"checked", "executing", "awaiting"} => OneIsDue
    /\ ~sequential /\ loop \in {"executing", "awaiting"} => aborted \/ Reached = ToSet(calls)
    /\ loop = "finish" => /\ aborted \/ results = calls
                          /\ Reached \subseteq ToSet(results)

BatchInv == BatchTypeOK /\ BatchShape /\ BatchProgress

(* A batch that is over, as the run states it.                             *)
LEMMA BatchInvResults == BatchInv => ResultsMatchCalls
<1> SUFFICES ASSUME BatchInv, loop = "finish"
             PROVE  /\ IsPrefix(results, calls)
                    /\ results # calls => aborted
                    /\ Reached \subseteq ToSet(results)
                    /\ Running = {}
  BY DEF ResultsMatchCalls
<1>1. /\ Len(results) \in Nat /\ Len(calls) \in Nat /\ Len(results) <= Len(calls)
      /\ \A i \in 1 .. Len(results) : results[i] = calls[i]
      /\ results \in Seq(Tools) /\ calls \in Seq(Tools)
  BY DEF BatchInv, BatchTypeOK, BatchShape
<1>2. SubSeq(results, 1, Len(results)) = SubSeq(calls, 1, Len(results))
  <2> DEFINE a == SubSeq(results, 1, Len(results))
             b == SubSeq(calls, 1, Len(results))
  <2>1. a = results
    BY <1>1, SubSeqFull
  <2>2. /\ b \in Seq(Tools) /\ Len(b) = Len(results)
        /\ \A i \in 1 .. Len(results) : b[i] = calls[i]
    <3>1. \A i \in 1 .. Len(results) : calls[i] \in Tools
      BY <1>1
    <3> QED
      BY <1>1, <3>1, SubSeqProperties
  <2> HIDE DEF a, b
  <2>3. results = b
    BY <1>1, <2>2, SeqEqual
  <2> QED
    BY <2>1, <2>3 DEF a, b
<1>3. IsPrefix(results, calls)
  BY <1>1, <1>2 DEF IsPrefix
<1> QED
  BY <1>3 DEF BatchInv, BatchProgress

(* There is no batch to begin with.                                        *)
LEMMA InitBatchInv == AgentInit => BatchInv
<1> SUFFICES ASSUME AgentInit PROVE BatchInv
  OBVIOUS
<1>1. BatchTypeOK
  BY DEF AgentInit, BatchTypeOK, Tool, NoTools
<1>2. Reached = {} /\ Running = {}
  BY DEF AgentInit, Reached, Running, NoTools
<1>3. BatchShape
  BY <1>2 DEF AgentInit, BatchShape, IsInjective
<1>4. BatchProgress
  BY <1>2 DEF AgentInit, BatchProgress
<1> QED
  BY <1>1, <1>3, <1>4 DEF BatchInv

(* Where no call is prepared, started or answered. *)
LEMMA BatchInvKept ==
    ASSUME BatchInv, UNCHANGED <<calls, results, tool, sequential>>,
           loop' # loop => /\ loop' \notin {"preparing", "checked", "executing", "awaiting", "finish"}
                           /\ loop # "awaiting",
           loop' \in {"executing", "awaiting", "finish"} => (aborted => aborted')
    PROVE  BatchInv'
<1>1. Reached' = Reached /\ Running' = Running
  BY DEF Reached, Running
<1>2. BatchTypeOK'
  BY DEF BatchInv, BatchTypeOK
<1>3. BatchShape'
  BY <1>1 DEF BatchInv, BatchShape
<1>4. BatchProgress'
  BY <1>1 DEF BatchInv, BatchProgress, OneIsDue
<1> QED
  BY <1>2, <1>3, <1>4 DEF BatchInv

(* An assistant message begins a batch, or answers its calls at once.      *)
LEMMA RespondBatchInv == ASSUME BatchInv, Respond PROVE BatchInv'
<1>1. Reached' = {} /\ Running' = {}
  BY DEF Respond, NoTools, Reached, Running
<1>2. /\ calls' \in Seq(Tools) /\ IsInjective(calls')
      /\ results' = <<>> \/ results' = calls'
  <2>1. <<>> \in Seq(Tools) /\ IsInjective(<<>>)
    BY DEF IsInjective
  <2>2. (calls' = <<>> /\ results' = <<>>) \/ (calls' \in Batches /\ (results' = <<>> \/ results' = calls'))
    BY DEF Respond
  <2> QED
    BY <2>1, <2>2, BatchIsInjective
<1>3. NoTools \in [Tools -> Tool]
  BY DEF NoTools, Tool
<1>4. BatchTypeOK'
  <2>1. tool' = NoTools
    BY DEF Respond
  <2>2. results' \in Seq(Tools)
    BY <1>2, EmptySeq
  <2> QED
    BY <1>2, <1>3, <2>1, <2>2 DEF BatchTypeOK
<1>5. BatchShape'
  BY <1>1, <1>2 DEF BatchShape
<1>6. /\ loop' \in {"ending", "finish", "preparing"}
      /\ loop' = "preparing" => results' = <<>>
      /\ loop' = "finish" => results' = calls'
  BY DEF Respond
<1>7. BatchProgress'
  BY <1>1, <1>6 DEF BatchProgress, ToSet
<1> QED
  BY <1>4, <1>5, <1>7 DEF BatchInv

(* A failing run forgets what became of its calls.                         *)
LEMMA ThrowBatchInv == ASSUME BatchInv, Throw PROVE BatchInv'
<1>1. Reached' = {} /\ Running' = {} /\ calls' = calls /\ results' = results /\ loop' = "failing"
  BY DEF Throw, NoTools, Reached, Running
<1>3. NoTools \in [Tools -> Tool]
  BY DEF NoTools, Tool
<1>4. BatchTypeOK'
  BY <1>1, <1>3 DEF Throw, BatchTypeOK, BatchInv
<1>5. BatchShape'
  BY <1>1 DEF BatchShape, BatchInv
<1>7. BatchProgress'
  BY <1>1 DEF BatchProgress
<1> QED
  BY <1>4, <1>5, <1>7 DEF BatchInv

(* prepareToolCall comes to the first call not yet reached; a sequential   *)
(* batch has answered all the calls before it.                             *)
LEMMA PrepareCallBatchInv == ASSUME BatchInv, FlagsTypeOK, PrepareCall PROVE BatchInv'
<1> DEFINE n == Len(results)
<1>1. PICK i \in DOMAIN calls :
         /\ IsNext(i)
         /\ \E v \in {"refused", "held"} : tool' = [tool EXCEPT ![calls[i]] = v]
  BY DEF PrepareCall
<1>2. /\ calls' = calls /\ results' = results /\ loop = "preparing" /\ sequential' = sequential
      /\ loop' \in (IF sequential THEN {"executing", "awaiting"} ELSE {"checked"})
  BY DEF PrepareCall, batchRest
<1>3. /\ DOMAIN calls = 1 .. Len(calls) /\ Len(calls) \in Nat /\ n \in Nat /\ DOMAIN results = 1 .. n
      /\ calls[i] \in Tools /\ calls \in Seq(Tools) /\ results \in Seq(Tools)
  BY DEF BatchInv, BatchTypeOK
<1>4. Reached' = Reached \cup {calls[i]} /\ Running' = Running
  BY <1>1, <1>3 DEF BatchInv, BatchTypeOK, Reached, Running, IsNext
<1>5. BatchTypeOK'
  <2>1. tool' \in [Tools -> Tool]
    BY <1>1 DEF BatchInv, BatchTypeOK, Tool
  <2> QED
    BY <1>2, <1>3, <2>1 DEF BatchTypeOK
<1>6. BatchShape'
  <2>1. Reached' \subseteq ToSet(calls)
    BY <1>3, <1>4 DEF BatchInv, BatchShape, ToSet
  <2>2. ASSUME NEW k \in DOMAIN calls, NEW j \in DOMAIN calls, j < k, calls[k] \in Reached'
        PROVE  calls[j] \in Reached'
    <3>1. CASE k = i
      BY <1>1, <1>3, <1>4, <2>2, <3>1 DEF IsNext
    <3>2. CASE k # i
      BY <1>3, <1>4, <2>2, <3>2 DEF BatchInv, BatchShape, IsInjective
    <3> QED
      BY <3>1, <3>2
  <2> QED
    BY <1>2, <2>1, <2>2 DEF BatchInv, BatchShape
<1>7. \A j \in 1 .. n : results[j] = calls[j] /\ calls[j] \in Reached
  BY <1>2, <1>3 DEF BatchInv, BatchShape, BatchProgress, ToSet
<1>8. n < i
  BY <1>1, <1>3, <1>7 DEF IsNext
<1>9. CASE sequential
  <2>1. i = n + 1
    <3> SUFFICES ASSUME n + 1 < i PROVE FALSE
      BY <1>3, <1>8
    <3>1. calls[n + 1] \in Reached /\ n + 1 \in DOMAIN calls
      BY <1>1, <1>3 DEF IsNext
    <3>2. PICK j \in 1 .. n : results[j] = calls[n + 1]
      BY <1>2, <1>3, <1>9, <3>1 DEF BatchInv, BatchProgress, ToSet
    <3> QED
      BY <1>3, <1>7, <3>1, <3>2 DEF BatchInv, BatchShape, IsInjective
  <2>2. BatchProgress'
    BY <1>2, <1>3, <1>4, <1>9, <2>1 DEF BatchInv, BatchProgress, OneIsDue
  <2> QED
    BY <1>5, <1>6, <2>2 DEF BatchInv
<1>10. CASE ~sequential
  <2>1. results = <<>> /\ n = 0
    BY <1>2, <1>10 DEF BatchInv, BatchProgress
  <2>2. calls[1] \in Reached' /\ Len(calls) >= 1
    BY <1>1, <1>3, <1>4 DEF IsNext
  <2>3. BatchProgress'
    BY <1>2, <1>3, <1>4, <1>10, <2>1, <2>2 DEF BatchInv, BatchProgress, OneIsDue
  <2> QED
    BY <1>5, <1>6, <2>3 DEF BatchInv
<1> QED
  BY <1>9, <1>10

(* The batch loop ends where all calls were reached or the run is aborted. *)
LEMMA CheckAbortBatchInv == ASSUME BatchInv, FlagsTypeOK, CheckAbort PROVE BatchInv'
<1>1. /\ calls' = calls /\ results' = results /\ tool' = tool /\ loop = "checked"
      /\ sequential' = sequential /\ aborted' = aborted
  BY DEF CheckAbort, batchRest
<1>2. Reached' = Reached /\ Running' = Running
  BY <1>1 DEF Reached, Running
<1>3. BatchTypeOK' /\ BatchShape'
  BY <1>1, <1>2 DEF BatchInv, BatchTypeOK, BatchShape
<1>4. \/ loop' = "finish" /\ sequential /\ (aborted \/ Reached = ToSet(calls))
      \/ loop' = "executing" /\ ~sequential /\ (aborted \/ Reached = ToSet(calls))
      \/ loop' = "preparing"
  BY DEF CheckAbort
<1>5. sequential /\ Reached = ToSet(calls) => results = calls
  <2> SUFFICES ASSUME sequential, ToSet(calls) \subseteq ToSet(results) PROVE results = calls
    BY <1>1 DEF BatchInv, BatchProgress
  <2> DEFINE n == Len(results)
  <2>1. /\ DOMAIN calls = 1 .. Len(calls) /\ Len(calls) \in Nat /\ n \in Nat /\ n <= Len(calls)
        /\ DOMAIN results = 1 .. n /\ calls \in Seq(Tools) /\ results \in Seq(Tools)
        /\ \A j \in 1 .. n : results[j] = calls[j]
    BY DEF BatchInv, BatchTypeOK, BatchShape
  <2>2. n = Len(calls)
    <3>0. n < Len(calls) \/ n = Len(calls)
      <4>1. n \in Nat /\ Len(calls) \in Nat /\ n <= Len(calls)
        BY <2>1
      <4> QED
        BY <4>1
    <3> SUFFICES ASSUME n < Len(calls) PROVE FALSE
      BY <3>0
    <3>1. n + 1 \in DOMAIN calls
      BY <2>1
    <3>3. calls[n + 1] \in ToSet(results)
      BY <3>1 DEF ToSet
    <3>2. PICK j \in 1 .. n : results[j] = calls[n + 1]
      BY <2>1, <3>3 DEF ToSet
    <3> QED
      BY <2>1, <3>1, <3>2 DEF BatchInv, BatchShape, IsInjective
  <2> QED
    BY <2>1, <2>2, SeqEqual
<1>6. BatchProgress'
  BY <1>1, <1>2, <1>4, <1>5 DEF BatchInv, BatchProgress, OneIsDue
<1> QED
  BY <1>3, <1>6 DEF BatchInv

(* The held calls start.                                                   *)
LEMMA StartBatchInv == ASSUME BatchInv, Start PROVE BatchInv'
<1>1. /\ calls' = calls /\ results' = results /\ loop = "executing" /\ loop' = "awaiting"
      /\ sequential' = sequential /\ aborted' = aborted
  BY DEF Start, batchRest
<1>2. Reached' = Reached
  BY DEF Start, Reached
<1>3. BatchTypeOK'
  BY <1>1 DEF Start, BatchInv, BatchTypeOK, Tool
<1>4. BatchShape'
  BY <1>1, <1>2 DEF BatchInv, BatchShape
<1>5. BatchProgress'
  BY <1>1, <1>2 DEF BatchInv, BatchProgress, OneIsDue
<1> QED
  BY <1>3, <1>4, <1>5 DEF BatchInv

(* A tool's promise settles.                                               *)
LEMMA ToolReturnBatchInv == ASSUME BatchInv, NEW t \in Tools, ToolReturn(t) PROVE BatchInv'
<1>1. /\ calls' = calls /\ results' = results /\ loop = "awaiting" /\ loop' = "awaiting"
      /\ sequential' = sequential /\ aborted' = aborted
  BY DEF ToolReturn, batchRest
<1>2. Reached' = Reached
  BY DEF ToolReturn, Reached, BatchInv, BatchTypeOK
<1>3. BatchTypeOK'
  BY <1>1 DEF ToolReturn, BatchInv, BatchTypeOK, Tool
<1>4. BatchShape'
  BY <1>1, <1>2 DEF BatchInv, BatchShape
<1>5. BatchProgress'
  BY <1>1, <1>2 DEF BatchInv, BatchProgress, OneIsDue
<1> QED
  BY <1>3, <1>4, <1>5 DEF BatchInv

(* The next result enters the transcript: a sequential batch goes on, a    *)
(* parallel one ends with the last call that was reached.                  *)
LEMMA EmitResultBatchInv == ASSUME BatchInv, FlagsTypeOK, EmitResult PROVE BatchInv'
<1> DEFINE n == Len(results)
           c == calls[n + 1]
<1>1. /\ calls' = calls /\ tool' = tool /\ loop = "awaiting" /\ results' = Append(results, c)
      /\ sequential' = sequential /\ aborted' = aborted /\ Running = {}
  BY DEF EmitResult, batchRest
<1>2. Reached' = Reached /\ Running' = {}
  BY <1>1 DEF Reached, Running
<1>3. /\ DOMAIN calls = 1 .. Len(calls) /\ Len(calls) \in Nat /\ n \in Nat /\ DOMAIN results = 1 .. n
      /\ calls \in Seq(Tools) /\ results \in Seq(Tools)
  BY DEF BatchInv, BatchTypeOK
<1>4. n < Len(calls) /\ c \in Reached /\ c \in Tools
  BY <1>1, <1>3 DEF BatchInv, BatchProgress, OneIsDue, Reached
<1>5. /\ results' \in Seq(Tools) /\ Len(results') = n + 1 /\ DOMAIN results' = 1 .. n + 1
      /\ \A j \in 1 .. n + 1 : results'[j] = calls[j]
  BY <1>1, <1>3, <1>4 DEF BatchInv, BatchShape
<1>6. ToSet(results') = ToSet(results) \cup {c}
  <2>1. ToSet(results') \subseteq ToSet(results) \cup {c}
    BY <1>1, <1>3, <1>4, <1>5 DEF ToSet, BatchInv, BatchShape
  <2>2. ToSet(results) \subseteq ToSet(results')
    BY <1>3, <1>5 DEF ToSet, BatchInv, BatchShape
  <2>3. c \in ToSet(results')
    BY <1>3, <1>5 DEF ToSet
  <2> QED
    BY <2>1, <2>2, <2>3
<1>7. BatchTypeOK'
  BY <1>1, <1>5 DEF BatchInv, BatchTypeOK
<1>8. BatchShape'
  BY <1>1, <1>2, <1>3, <1>4, <1>5 DEF BatchInv, BatchShape
<1>9. ToSet(results') \subseteq Reached
  BY <1>1, <1>4, <1>6 DEF BatchInv, BatchProgress
<1>10. CASE sequential
  <2>1. loop' = "checked" /\ Reached \subseteq ToSet(results')
    BY <1>1, <1>6, <1>10 DEF EmitResult, BatchInv, BatchProgress
  <2>2. BatchProgress'
    BY <1>1, <1>2, <1>9, <1>10, <2>1 DEF BatchProgress
  <2> QED
    BY <1>7, <1>8, <2>2 DEF BatchInv
<1>11. CASE ~sequential /\ ToSet(results') = Reached
  <2>1. loop' = "finish" /\ (aborted \/ Reached = ToSet(calls))
    BY <1>1, <1>11 DEF EmitResult, BatchInv, BatchProgress
  <2>2. Reached = ToSet(calls) => results' = calls
    <3> SUFFICES ASSUME Reached = ToSet(calls), n + 1 < Len(calls) PROVE FALSE
      BY <1>3, <1>4, <1>5, SeqEqual
    <3>3. n + 2 \in DOMAIN calls
      BY <1>3
    <3>4. calls[n + 2] \in ToSet(calls)
      BY <3>3 DEF ToSet
    <3>1. n + 2 \in DOMAIN calls /\ calls[n + 2] \in ToSet(results')
      BY <1>11, <3>3, <3>4
    <3>2. PICK j \in 1 .. n + 1 : results'[j] = calls[n + 2]
      BY <1>5, <3>1 DEF ToSet
    <3> QED
      BY <1>3, <1>5, <3>1, <3>2 DEF BatchInv, BatchShape, IsInjective
  <2>3. BatchProgress'
    BY <1>1, <1>2, <1>11, <2>1, <2>2 DEF BatchProgress
  <2> QED
    BY <1>7, <1>8, <2>3 DEF BatchInv
<1>12. CASE ~sequential /\ ToSet(results') # Reached
  <2>1. loop' = "awaiting"
    BY <1>1, <1>12 DEF EmitResult
  <2>2. PICK r \in Reached : r \notin ToSet(results')
    BY <1>9, <1>12
  <2>3. PICK k \in DOMAIN calls : calls[k] = r
    BY <2>2 DEF BatchInv, BatchShape, ToSet
  <2>4. k > n + 1
    BY <1>3, <1>5, <2>2, <2>3 DEF ToSet
  <2>5. n + 2 \in DOMAIN calls /\ calls[n + 2] \in Reached
    BY <1>3, <2>2, <2>3, <2>4 DEF BatchInv, BatchShape
  <2>6. OneIsDue'
    BY <1>1, <1>2, <1>3, <1>5, <2>5 DEF OneIsDue
  <2>7. BatchProgress'
    BY <1>1, <1>2, <1>9, <1>12, <2>1, <2>6 DEF BatchInv, BatchProgress
  <2> QED
    BY <1>7, <1>8, <2>7 DEF BatchInv
<1> QED
  BY <1>10, <1>11, <1>12

(* Every step keeps the batch in order.                                    *)
LEMMA StepBatchInv ==
    ASSUME BatchInv, FlagsTypeOK, LoopTypeOK, [AgentNext]_agentVars PROVE BatchInv'
<1> USE DEF queueVars, batchVars, batchRest
<1>0. UNCHANGED agentVars => BatchInv'
  BY BatchInvKept DEF agentVars
<1>1. PutPrompt \/ PutPending => BatchInv'
  BY BatchInvKept DEF PutPrompt, PutPending, Put
<1>2. FirstPoll \/ Prepare \/ Poll \/ Stop => BatchInv'
  BY BatchInvKept DEF FirstPoll, Prepare, Poll, Stop
<1>3. Request \/ Finish \/ End \/ Fail => BatchInv'
  BY BatchInvKept DEF Request, Finish, End, Fail
<1>6. ASSUME NEW m \in Messages, Queue(m) \/ Unqueue(m) PROVE BatchInv'
  BY <1>6, BatchInvKept DEF Queue, Unqueue
<1>7. ASSUME NEW t \in Tools, StrayReturn(t) PROVE BatchInv'
  BY <1>7, BatchInvKept DEF StrayReturn
<1>8. Prompt \/ Continue => BatchInv'
  BY BatchInvKept DEF Prompt, Continue, StartRun
<1>9. Abort \/ Reset => BatchInv'
  BY BatchInvKept DEF Abort, Reset
<1> QED
  BY <1>0, <1>1, <1>2, <1>3, <1>6, <1>7, <1>8, <1>9, RespondBatchInv, ThrowBatchInv,
     PrepareCallBatchInv, CheckAbortBatchInv, StartBatchInv, ToolReturnBatchInv,
     EmitResultBatchInv
     DEF AgentNext, LoopStep
---------------------------------------------------------------------------
(* The continuation owed. *)

(* A continuation is owed only from the decision of finishTurn to the next *)
(* request, unless the run fails; where the loop could stop, wants says so.*)
Owes ==
    owed => /\ loop \in {"poll", "prepare", "deliver", "request", "stop", "failing", "idle"}
            /\ loop \in {"poll", "stop"} => wants

(* A continuation is owed nowhere to begin with.                           *)
LEMMA InitOwes == AgentInit => Owes
  BY DEF AgentInit, Owes

(* Every step of the loop, its tools and its callers keeps account of it.  *)
LEMMA StepOwes == Owes /\ [AgentNext]_agentVars => Owes'
<1> SUFFICES ASSUME Owes, [AgentNext]_agentVars PROVE Owes'
  OBVIOUS
<1> USE DEF Owes, flagVars, strayVars, batchRest
<1>1. CASE LoopStep
  <2>1. CASE PutPrompt \/ PutPending \/ FirstPoll \/ Prepare \/ Request
    BY <2>1 DEF PutPrompt, PutPending, Put, FirstPoll, Prepare, Request
  <2>2. CASE Respond
    BY <2>2 DEF Respond
  <2>3. CASE PrepareCall \/ CheckAbort \/ Start \/ EmitResult
    BY <2>3 DEF PrepareCall, CheckAbort, Start, EmitResult
  <2>4. CASE Finish
    BY <2>4 DEF Finish
  <2>5. CASE Poll
    BY <2>5 DEF Poll
  <2>6. CASE Stop
    BY <2>6 DEF Stop
  <2>7. CASE End \/ Fail
    BY <2>7 DEF End, Fail
  <2> QED
    BY <1>1, <2>1, <2>2, <2>3, <2>4, <2>5, <2>6, <2>7 DEF LoopStep
<1>2. ASSUME NEW m \in Messages, Queue(m) \/ Unqueue(m) PROVE Owes'
  BY <1>2 DEF Queue, Unqueue
<1>3. ASSUME NEW t \in Tools, ToolReturn(t) \/ StrayReturn(t) PROVE Owes'
  BY <1>3 DEF ToolReturn, StrayReturn
<1>4. CASE Prompt \/ Continue
  BY <1>4 DEF Prompt, Continue, StartRun
<1>5. CASE Abort \/ Throw \/ Reset
  BY <1>5 DEF Abort, Throw, Reset
<1>6. CASE UNCHANGED agentVars
  BY <1>6 DEF agentVars
<1> QED
  BY <1>1, <1>2, <1>3, <1>4, <1>5, <1>6 DEF AgentNext
---------------------------------------------------------------------------
(* The theorems. *)

AgentIInv ==
    /\ FlagsTypeOK /\ LoopTypeOK
    /\ Settled /\ QueueInv
    /\ SteerBudget /\ Yields
    /\ BatchInv
    /\ Owes

(* An agent that was just constructed satisfies it.                        *)
LEMMA InitAgentIInv == AgentInit => AgentIInv
<1>1. AgentInit => FlagsTypeOK
  BY DEF AgentInit, FlagsTypeOK
<1>2. AgentInit => LoopTypeOK
  BY DEF AgentInit, LoopTypeOK, Loop
<1> QED
  BY <1>1, <1>2, InitQueueInv, InitSteerBudget, InitYields, InitBatchInv, InitOwes
     DEF AgentIInv

(* Every step of the loop, its tools and its callers keeps it.             *)
LEMMA StepAgentIInv == AgentIInv /\ [AgentNext]_agentVars => AgentIInv'
  BY StepFlagsTypeOK, StepLoopTypeOK, StepSettled, StepQueueInv, StepSteerBudget, StepYields,
     StepBatchInv, StepOwes DEF AgentIInv, QueueInv

(* AgentIInv holds in every reachable state.                               *)
LEMMA AgentIInvHolds == AgentSpec => []AgentIInv
  BY InitAgentIInv, StepAgentIInv, PTL DEF AgentSpec

(* Type correctness: a batch's results are tool calls of its message, and  *)
(* a queue stays a sequence of its own kind.                               *)
THEOREM AgentTypeCorrect == AgentSpec => []AgentTypeOK
<1>1. AgentIInv => AgentTypeOK
  BY DEF AgentIInv, QueueInv, BatchInv, AgentTypeOK
<1> QED
  BY <1>1, AgentIInvHolds, PTL

(* No poll, removal, reset or failure drops or repeats a queued message    *)
(* without the account of it.                                              *)
THEOREM NothingLostHolds == AgentSpec => []NothingLost
<1>1. AgentIInv => NothingLost
  BY QueueInvPlaces DEF AgentIInv
<1> QED
  BY <1>1, AgentIInvHolds, PTL

(* Steering, and follow-ups, enter the transcript in the order they were   *)
(* queued, over runs, removals and failures.                               *)
THEOREM InOrderHolds == AgentSpec => []InOrder
<1>1. AgentIInv => InOrder
  BY QueueInvInOrder DEF AgentIInv
<1> QED
  BY <1>1, AgentIInvHolds, PTL

(* In one-at-a-time mode the two polls between two requests bring at most  *)
(* one steering message between them.                                      *)
THEOREM OneSteerPerRequestHolds == AgentSpec => []OneSteerPerRequest
<1>1. AgentIInv => OneSteerPerRequest
  BY SteerBudgetSpent DEF AgentIInv, QueueInv
<1> QED
  BY <1>1, AgentIInvHolds, PTL

(* A batch that is over has its results in call order, all of them unless  *)
(* it was aborted, and no tool running.                                    *)
THEOREM ResultsMatchCallsHolds == AgentSpec => []ResultsMatchCalls
<1>1. AgentIInv => ResultsMatchCalls
  BY BatchInvResults DEF AgentIInv
<1> QED
  BY <1>1, AgentIInvHolds, PTL

(* A follow-up on its way never overtakes steering queued before the last  *)
(* poll.                                                                   *)
THEOREM FollowUpsYieldHolds == AgentSpec => []FollowUpsYield
<1>1. AgentIInv => FollowUpsYield
  BY YieldsToSteering DEF AgentIInv, QueueInv
<1> QED
  BY <1>1, AgentIInvHolds, PTL

(* finishTurn's decision to continue is followed by a request before the   *)
(* run ends, whatever was queued, removed and polled in between.           *)
THEOREM ContinueHonouredHolds == AgentSpec => []ContinueHonoured
<1>1. AgentIInv => ContinueHonoured
  BY DEF AgentIInv, Owes, ContinueHonoured
<1> QED
  BY <1>1, AgentIInvHolds, PTL
=============================================================================
