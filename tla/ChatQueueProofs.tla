--------------------------- MODULE ChatQueueProofs ---------------------------
(***************************************************************************)
(* What TLAPS proves of the chat queue, for any number of messages, calls, *)
(* stops, failed saves and crashes.                                        *)
(***************************************************************************)
EXTENDS ChatQueue, FiniteSetTheorems, SequenceTheorems, TLAPS

-----------------------------------------------------------------------------
\* The sequences the queue is made of.

\* Removing one position shortens a sequence by one and adds nothing (items.splice).
LEMMA RemoveAtType ==
  ASSUME NEW S, NEW s \in Seq(S), NEW i \in 1..Len(s)
  PROVE  RemoveAt(s, i) \in Seq(S) /\ Len(RemoveAt(s, i)) = Len(s) - 1
<1> DEFINE a == SubSeq(s, 1, i - 1)
           b == SubSeq(s, i + 1, Len(s))
<1>0. i \in Int /\ Len(s) \in Nat /\ \A j \in 1..Len(s) : s[j] \in S
  BY ElementOfSeq, LenProperties
<1>1. a \in Seq(S) /\ Len(a) = i - 1
  BY <1>0, SubSeqProperties
<1>2. b \in Seq(S) /\ Len(b) = Len(s) - i
  BY <1>0, SubSeqProperties
<1> HIDE DEF a, b
<1>3. a \o b \in Seq(S) /\ Len(a \o b) = Len(a) + Len(b)
  BY <1>1, <1>2, ConcatProperties
<1>4. RemoveAt(s, i) = a \o b
  BY DEF RemoveAt, a, b
<1>5. Len(a) + Len(b) = Len(s) - 1
  BY <1>0, <1>1, <1>2
<1> QED BY <1>3, <1>4, <1>5

\* The position of an element is one of the sequence's (items.findIndex).
LEMMA PositionType ==
  ASSUME NEW S, NEW s \in Seq(S), NEW m \in Range(s)
  PROVE  Position(s, m) \in 1..Len(s)
<1>1. \E i \in DOMAIN s : s[i] = m
  BY DEF Range
<1>2. Position(s, m) \in DOMAIN s
  BY <1>1 DEF Position
<1> QED BY <1>2

\* Filtering out a message never lengthens the queue (items.filter).
LEMMA WithoutType ==
  ASSUME NEW S, NEW s \in Seq(S), NEW m
  PROVE  Without(s, m) \in Seq(S) /\ Len(Without(s, m)) <= Len(s)
<1>1. CASE m \in Range(s)
  BY <1>1, PositionType, RemoveAtType DEF Without
<1>2. CASE m \notin Range(s)
  BY <1>2 DEF Without
<1> QED BY <1>1, <1>2

\* Moving a queued message to the front keeps the length of the queue (items.unshift).
LEMMA ToFrontType ==
  ASSUME NEW S, NEW s \in Seq(S), NEW m \in S, m \in Range(s)
  PROVE  ToFront(s, m) \in Seq(S) /\ Len(ToFront(s, m)) = Len(s)
<1> DEFINE r == RemoveAt(s, Position(s, m))
<1>1. r \in Seq(S) /\ Len(r) = Len(s) - 1
  BY PositionType, RemoveAtType
<1> HIDE DEF r
<1>2. <<m>> \in Seq(S) /\ Len(<<m>>) = 1
  OBVIOUS
<1>3. <<m>> \o r \in Seq(S) /\ Len(<<m>> \o r) = Len(<<m>>) + Len(r)
  BY <1>1, <1>2, ConcatProperties
<1>4. ToFront(s, m) = <<m>> \o r
  BY DEF ToFront, r
<1>5. Len(s) \in Nat
  OBVIOUS
<1> QED BY <1>1, <1>2, <1>3, <1>4, <1>5

\* Trimming brings the receipts back under their cap after one was added (receipts.splice).
LEMMA TrimmedType ==
  ASSUME NEW S, NEW s \in Seq(S), Len(s) <= ReceiptCap + 1, NEW live,
         NEW t \in Trimmed(s, live)
  PROVE  t \in Seq(S) /\ Len(t) <= ReceiptCap
<1>0. ReceiptCap \in Nat /\ Len(s) \in Nat /\ DOMAIN s = 1..Len(s)
  BY CapsAssumption
<1>1. CASE Len(s) <= ReceiptCap
  BY <1>1 DEF Trimmed
<1>2. CASE ~(Len(s) <= ReceiptCap)
  <2>1. PICK k \in 1..Len(s) : t = RemoveAt(s, k)
    BY <1>0, <1>2 DEF Trimmed
  <2> QED BY <2>1, RemoveAtType, <1>0
<1> QED BY <1>1, <1>2

\* Joining the chain adds one operation, running its head takes one away (serial).
LEMMA ChainGrows ==
  ASSUME NEW S, NEW s \in Seq(S), NEW e \in S
  PROVE  Range(Append(s, e)) = Range(s) \cup {e}
<1>1. Append(s, e) = s \o <<e>>
  BY AppendIsConcat
<1>2. <<e>> \in Seq(S) /\ Range(<<e>>) = {e}
  BY DEF Range
<1>3. Range(s \o <<e>>) = Range(s) \cup Range(<<e>>)
  BY <1>2, RangeConcatenation
<1> QED BY <1>1, <1>2, <1>3, Zenon

LEMMA OneRange ==
  ASSUME NEW e
  PROVE  Range(<<e>>) = {e}
BY DEF Range

LEMMA HeadAdded ==
  ASSUME NEW S, NEW s \in Seq(S), NEW e \in S
  PROVE  Range(<<e>> \o s) = {e} \cup Range(s)
<1> DEFINE one == <<e>>
<1>1. one \in Seq(S) /\ Range(one) = {e}
  BY OneRange
<1> HIDE DEF one
<1>2. Range(one \o s) = Range(one) \cup Range(s)
  BY <1>1, RangeConcatenation
<1> QED BY <1>1, <1>2, Zenon DEF one

LEMMA ChainShrinks ==
  ASSUME NEW S, NEW s \in Seq(S), s # << >>
  PROVE  /\ Head(s) \in Range(s) /\ Head(s) \in S
         /\ Tail(s) \in Seq(S) /\ Range(Tail(s)) \subseteq Range(s)
<1>1. /\ Head(s) \in S /\ Tail(s) \in Seq(S) /\ Len(s) \in Nat \ {0}
      /\ Len(Tail(s)) = Len(s) - 1
      /\ \A i \in 1..Len(Tail(s)) : Tail(s)[i] = s[i + 1]
  BY HeadTailProperties, EmptySeq
<1>2. Head(s) = s[1] /\ 1 \in DOMAIN s
  BY <1>1
<1>3. Range(Tail(s)) \subseteq Range(s)
  <2> SUFFICES ASSUME NEW x \in Range(Tail(s)) PROVE x \in Range(s)
    OBVIOUS
  <2>1. PICK i \in 1..Len(Tail(s)) : x = Tail(s)[i]
    BY <1>1 DEF Range
  <2>2. x = s[i + 1] /\ i + 1 \in DOMAIN s
    BY <1>1, <2>1
  <2> QED BY <2>2 DEF Range
<1> QED BY <1>1, <1>2, <1>3 DEF Range

-----------------------------------------------------------------------------
\* Type correctness.  A submission that has been admitted counts on the room it found, and
\* only the head of the chain may have been admitted.

NoCommit(ops) == \A op \in Range(ops) : op.kind = "submit" => op.at = "admit"
Stored == IF loaded THEN mem ELSE disk
RoomKept ==
  chain # << >> =>
    /\ NoCommit(Tail(chain))
    /\ Head(chain).kind = "submit" /\ Head(chain).at = "commit" =>
         Len(Stored.items) < ItemCap
TypeInv ==
  /\ TypeOK /\ RoomKept
  /\ ~loaded => mem.items = << >>
  /\ active.at = "running" => active.msg \in Messages

\* An operation has the fields of its kind.
LEMMA OpFields ==
  ASSUME NEW op \in Op
  PROVE  /\ op.kind = "submit" => /\ op.at \in {"admit", "commit"}
                                  /\ op.req \in Requests /\ op.body \in Bodies
         /\ op.kind = "reack" => op.msg \in MessageOrNone /\ op.ok \in BOOLEAN
         /\ op.kind \in {"submit", "resume", "reack", "select", "release"} =>
              op.cap \in Capture
         /\ op.kind = "release" => op.epoch \in Nat
BY DEF Op

\* The head of the chain is an operation, and so are those that wait.
LEMMA HeadType ==
  ASSUME chain \in Seq(Op), chain # << >>
  PROVE  Head(chain) \in Op /\ Tail(chain) \in Seq(Op)
BY ChainShrinks

\* The head of the chain runs in a queue that is in memory.
LEMMA HeadLoaded ==
  ASSUME HeadStep
  PROVE  loaded /\ chain # << >>
<1>1. \A kind : AtHead(kind) => loaded /\ chain # << >>
  BY DEF AtHead
<1>2. CASE SubmitAdmit \/ SubmitEnds
  BY <1>1, <1>2 DEF SubmitAdmit, SubmitEnds
<1>5. CASE SubmitCommit
  BY <1>1, <1>5, Zenon DEF SubmitCommit
<1>3. CASE RemoveItem \/ Detach \/ Resume \/ Reacknowledge
  BY <1>1, <1>3 DEF RemoveItem, Detach, Resume, Reacknowledge
<1>4. CASE Select \/ Release \/ Dispatch \/ Complete
  BY <1>1, <1>4 DEF Select, Release, Dispatch, Complete
<1> QED BY <1>2, <1>3, <1>4, <1>5 DEF HeadStep

\* Every operation but one that goes on to its second half leaves the chain.
LEMMA HeadPops ==
  ASSUME HeadStep, ~SubmitAdmit
  PROVE  chain' = Tail(chain)
<1>1. CASE SubmitCommit
  BY <1>1, Zenon DEF SubmitCommit, Pop
<1>2. CASE SubmitEnds \/ RemoveItem \/ Detach \/ Resume \/ Reacknowledge
  BY <1>2 DEF SubmitEnds, RemoveItem, Detach, Resume, Reacknowledge, Pop
<1>3. CASE Select \/ Release \/ Dispatch \/ Complete
  BY <1>3 DEF Select, Release, Dispatch, Complete, Pop
<1> QED BY <1>1, <1>2, <1>3 DEF HeadStep

LEMMA EnqueueType ==
  ASSUME chain \in Seq(Op), NEW op \in Op, Enqueue(op)
  PROVE  chain' \in Seq(Op)
BY AppendProperties DEF Enqueue

LEMMA CapturedType ==
  ASSUME TypeOK
  PROVE  Captured \in Capture
BY DEF TypeOK, Captured, Capture, Host, History

\* A save keeps the schema if what it writes has it.
LEMMA CommitType ==
  ASSUME TypeOK, NEW q, WellFormed(q), Commit(q)
  PROVE  /\ WellFormed(disk') /\ WellFormed(mem') /\ loaded' \in BOOLEAN
         /\ used' \in [controls: Nat, faults: Nat, crashes: Nat]
BY DEF TypeOK, Commit

LEMMA FaultType ==
  ASSUME TypeOK, used' = [used EXCEPT !.faults = @ + 1]
  PROVE  used' \in [controls: Nat, faults: Nat, crashes: Nat]
BY DEF TypeOK

LEMMA CommitFailsType ==
  ASSUME TypeOK, CommitFails
  PROVE  /\ WellFormed(disk') /\ WellFormed(mem') /\ loaded' \in BOOLEAN
         /\ used' \in [controls: Nat, faults: Nat, crashes: Nat]
BY FaultType DEF TypeOK, CommitFails, queueVars, WellFormed

LEMMA PauseType ==
  ASSUME TypeOK, NEW q, WellFormed(q), NEW h \in History, Pause(q, h)
  PROVE  /\ WellFormed(disk') /\ WellFormed(mem') /\ loaded' \in BOOLEAN
         /\ used' \in [controls: Nat, faults: Nat, crashes: Nat]
         /\ generation' \in Nat /\ hist' \in History
<1>1. WellFormed(mem')
  BY DEF Pause, WellFormed, Queue
<1>2. WellFormed(disk') /\ used' \in [controls: Nat, faults: Nat, crashes: Nat]
  BY <1>1, FaultType DEF TypeOK, Pause
<1>3. loaded' \in BOOLEAN /\ generation' \in Nat
  BY DEF TypeOK, Pause
<1>4. hist' \in History
  BY DEF Pause, History
<1> QED BY <1>1, <1>2, <1>3, <1>4

LEMMA PauseWithErrorType ==
  ASSUME TypeOK, PauseWithError
  PROVE  /\ WellFormed(disk') /\ WellFormed(mem') /\ loaded' \in BOOLEAN
         /\ used' \in [controls: Nat, faults: Nat, crashes: Nat]
         /\ generation' \in Nat /\ hist' \in History
<1>1. WellFormed([mem EXCEPT !.note = "other"]) /\ hist \in History
  BY DEF TypeOK, WellFormed, Queue
<1> QED BY <1>1, PauseType DEF PauseWithError

\* What the operations write has the schema.
LEMMA WrittenTypes ==
  ASSUME TypeOK
  PROVE  /\ WellFormed(Restored(disk)) /\ WellFormed(Running) /\ WellFormed(Still(mem))
         /\ \A m, ok : WellFormed(Completed(m, ok))
         /\ \A m : WellFormed([mem EXCEPT !.items = Without(@, m)])
         /\ \A m \in Live(mem) : WellFormed([mem EXCEPT !.paused = TRUE,
                                                          !.items = ToFront(@, m)])
         /\ \A m \in Live(mem) : WellFormed([mem EXCEPT !.sending = @ \cup {m}])
         /\ Live(mem) \subseteq Messages
<1>1. WellFormed(disk) /\ WellFormed(mem)
  BY DEF TypeOK
<1>2. WellFormed(Restored(disk)) /\ WellFormed(Running) /\ WellFormed(Still(mem))
  BY <1>1 DEF WellFormed, Queue, Restored, Running, Still
<1>3. mem.items \in Seq(Messages) /\ Len(mem.items) \in Nat /\ Len(mem.items) <= ItemCap
  BY <1>1, LenProperties DEF WellFormed, Queue
<1>4. Live(mem) \subseteq Messages
  BY <1>3, RangeOfSeq DEF Live
<1>5. ASSUME NEW m
      PROVE  Without(mem.items, m) \in Seq(Messages) /\ Len(Without(mem.items, m)) <= ItemCap
  BY <1>3, WithoutType, LenProperties, CapsAssumption
<1>6. ASSUME NEW m, NEW ok
      PROVE  WellFormed(Completed(m, ok))
  BY <1>1, <1>5 DEF WellFormed, Queue, Completed
<1>7. ASSUME NEW m
      PROVE  WellFormed([mem EXCEPT !.items = Without(@, m)])
  BY <1>1, <1>5 DEF WellFormed, Queue
<1>8. ASSUME NEW m \in Live(mem)
      PROVE  WellFormed([mem EXCEPT !.paused = TRUE, !.items = ToFront(@, m)])
  <2>1. ToFront(mem.items, m) \in Seq(Messages) /\ Len(ToFront(mem.items, m)) <= ItemCap
    BY <1>3, <1>4, ToFrontType DEF Live
  <2> QED BY <1>1, <2>1 DEF WellFormed, Queue
<1>9. ASSUME NEW m \in Live(mem)
      PROVE  WellFormed([mem EXCEPT !.sending = @ \cup {m}])
  BY <1>1, <1>4 DEF WellFormed, Queue
<1> QED BY <1>2, <1>4, <1>6, <1>7, <1>8, <1>9

\* The operations that only join the chain.
LEMMA CallTypes ==
  ASSUME TypeOK
  PROVE  /\ \A req \in Requests, body \in Bodies : SubmitCall(req, body) => TypeOK'
         /\ \A m \in Messages : RemoveCall(m) \/ SendNowCall(m) => TypeOK'
         /\ \A f \in Files : DetachCall(f) => TypeOK'
         /\ ResumeCall => TypeOK'
<1> USE DEF Call, queueVars, dataVars, Control
<1>0. Captured \in Capture /\ chain \in Seq(Op)
  BY CapturedType DEF TypeOK
<1>1. ASSUME NEW req \in Requests, NEW body \in Bodies, SubmitCall(req, body)
      PROVE  TypeOK'
  <2>1. chain' \in Seq(Op)
    <3>1. [kind |-> "submit", at |-> "admit", req |-> req, body |-> body, cap |-> Captured] \in Op
      BY <1>0 DEF Op
    <3> QED BY <1>0, <1>1, <3>1, EnqueueType DEF SubmitCall
  <2> QED BY <1>1, <2>1 DEF SubmitCall, TypeOK, WellFormed
<1>2. ASSUME NEW m \in Messages, RemoveCall(m)
      PROVE  TypeOK'
  <2>1. chain' \in Seq(Op)
    <3>1. [kind |-> "remove", msg |-> m] \in Op
      BY DEF Op
    <3> QED BY <1>0, <1>2, <3>1, EnqueueType DEF RemoveCall
  <2> QED BY <1>2, <2>1 DEF RemoveCall, TypeOK, WellFormed
<1>3. ASSUME NEW m \in Messages, SendNowCall(m)
      PROVE  TypeOK'
  <2>1. chain' \in Seq(Op)
    <3>1. [kind |-> "select", cap |-> Captured] \in Op
      BY <1>0 DEF Op
    <3> QED BY <1>0, <1>3, <3>1, EnqueueType DEF SendNowCall
  <2>2. used' \in [controls: Nat, faults: Nat, crashes: Nat]
    <3>1. used' = [used EXCEPT !.controls = @ + 1]
      BY <1>3 DEF SendNowCall
    <3> QED BY <3>1 DEF TypeOK
  <2>3. priority' \in [at: {"none", "selecting", "interrupting", "releasing", "ended"},
                       msg: MessageOrNone, epoch: Nat, cap: Capture]
    <3>1. NoPriority \in [at: {"none", "selecting", "interrupting", "releasing", "ended"},
                          msg: MessageOrNone, epoch: Nat, cap: Capture]
      BY DEF NoPriority, MessageOrNone, Capture
    <3>2. m \in MessageOrNone
      BY DEF MessageOrNone
    <3> QED BY <1>3, <3>1, <3>2 DEF SendNowCall
  <2> QED BY <1>3, <2>1, <2>2, <2>3 DEF SendNowCall, TypeOK, WellFormed
<1>4. ASSUME NEW f \in Files, DetachCall(f)
      PROVE  TypeOK'
  <2>1. chain' \in Seq(Op)
    <3>1. [kind |-> "detach", file |-> f] \in Op
      BY DEF Op
    <3> QED BY <1>0, <1>4, <3>1, EnqueueType DEF DetachCall
  <2> QED BY <1>4, <2>1 DEF DetachCall, TypeOK, WellFormed
<1>5. ASSUME ResumeCall
      PROVE  TypeOK'
  <2>1. chain' \in Seq(Op)
    <3>1. [kind |-> "resume", cap |-> Captured] \in Op
      BY <1>0 DEF Op
    <3>2. [kind |-> "reack", msg |-> failedAck.msg, ok |-> failedAck.ok, cap |-> Captured] \in Op
      BY <1>0 DEF Op, TypeOK
    <3> QED BY <1>0, <1>5, <3>1, <3>2, EnqueueType DEF ResumeCall
  <2>2. used' \in [controls: Nat, faults: Nat, crashes: Nat]
    <3>1. used' = [used EXCEPT !.controls = @ + 1]
      BY <1>5 DEF ResumeCall
    <3> QED BY <3>1 DEF TypeOK
  <2> QED BY <1>5, <2>1, <2>2 DEF ResumeCall, TypeOK, WellFormed
<1> QED BY <1>1, <1>2, <1>3, <1>4, <1>5

\* The operations that run at the head of the chain.
LEMMA HeadTypes ==
  ASSUME TypeInv, HeadStep
  PROVE  TypeOK'
<1> USE DEF queueVars, turnVars, dataVars
<1>0. TypeOK /\ chain \in Seq(Op)
  BY DEF TypeInv, TypeOK
<1>a. chain # << >> /\ loaded
  BY HeadLoaded
<1>b. Head(chain) \in Op /\ Tail(chain) \in Seq(Op)
  BY <1>0, <1>a, HeadType
<1>1. CASE SubmitAdmit
  <2>1. chain' \in Seq(Op)
    <3> DEFINE op == [Head(chain) EXCEPT !.at = "commit"]
    <3>1. op \in Op
      BY <1>1, <1>b DEF SubmitAdmit, AtHead, Op
    <3>2. <<op>> \in Seq(Op)
      BY <3>1
    <3>3. chain' = <<op>> \o Tail(chain)
      BY <1>1 DEF SubmitAdmit
    <3> QED BY <3>2, <3>3, <1>b, ConcatProperties
  <2> QED BY <1>0, <1>1, <2>1 DEF SubmitAdmit, TypeOK, WellFormed
<1>2. CASE SubmitEnds
  <2>1. files' \in [Files -> {"draft", "pinned", "held", "gone"}]
    BY <1>0, <1>2 DEF SubmitEnds, TypeOK
  <2> QED BY <1>0, <1>2, <1>b, <2>1 DEF SubmitEnds, Pop, TypeOK, WellFormed
<1>3. CASE SubmitCommit
  <2> DEFINE op == Head(chain)
             m == Len(content) + 1
             items == Append(mem.items, m)
  <2>1. m \in Messages /\ op.req \in Requests /\ op.body \in Bodies /\ Len(mem.items) < ItemCap
    BY <1>0, <1>3, <1>a, <1>b, OpFields DEF SubmitCommit, AtHead, TypeInv, RoomKept, Stored
  <2>2. items \in Seq(Messages) /\ Len(items) <= ItemCap
    BY <1>0, <2>1, AppendProperties, CapsAssumption DEF TypeOK, WellFormed, Queue
  <2>3. PICK kept \in Trimmed(Append(mem.receipts, m), Range(items)) :
          Commit([mem EXCEPT !.items = items, !.receipts = kept,
                             !.paused = @ /\ ~Resumes(op.cap),
                             !.note = IF Resumes(op.cap) THEN "none" ELSE @])
    BY <1>3 DEF SubmitCommit
  <2>4. kept \in Seq(Messages) /\ Len(kept) <= ReceiptCap
    <3>1. /\ Append(mem.receipts, m) \in Seq(Messages)
          /\ Len(Append(mem.receipts, m)) <= ReceiptCap + 1
      BY <1>0, <2>1, AppendProperties, CapsAssumption DEF TypeOK, WellFormed, Queue
    <3> QED BY <3>1, <2>3, TrimmedType
  <2>5. WellFormed([mem EXCEPT !.items = items, !.receipts = kept,
                               !.paused = @ /\ ~Resumes(op.cap),
                               !.note = IF Resumes(op.cap) THEN "none" ELSE @])
    <3>1. (mem.paused /\ ~Resumes(op.cap)) \in BOOLEAN
      OBVIOUS
    <3> HIDE DEF items
    <3> QED BY <1>0, <2>2, <2>4, <3>1 DEF TypeOK, WellFormed, Queue
  <2>6. /\ WellFormed(disk') /\ WellFormed(mem') /\ loaded' \in BOOLEAN
        /\ used' \in [controls: Nat, faults: Nat, crashes: Nat]
    BY <1>0, <2>3, <2>5, CommitType
  <2>7. content' \in Seq(Content)
    <3>1. [req |-> op.req, body |-> op.body] \in Content
      BY <2>1 DEF Content
    <3> QED BY <1>0, <1>3, <3>1, AppendProperties DEF SubmitCommit, TypeOK
  <2>8. files' \in [Files -> {"draft", "pinned", "held", "gone"}]
    BY <1>0, <1>3 DEF SubmitCommit, TypeOK
  <2>9. chain' \in Seq(Op) /\ scheduled' \in BOOLEAN
    BY <1>3, <1>b DEF SubmitCommit, Pop, Wake
  <2> QED BY <1>0, <1>3, <2>6, <2>7, <2>8, <2>9 DEF SubmitCommit, TypeOK
<1>4. CASE RemoveItem
  <2>1. /\ WellFormed(disk') /\ WellFormed(mem') /\ loaded' \in BOOLEAN
        /\ used' \in [controls: Nat, faults: Nat, crashes: Nat]
    BY <1>0, <1>4, CommitType, CommitFailsType, WrittenTypes DEF RemoveItem, TypeOK
  <2>2. hist' \in History
    <3>1. PICK m : hist' = hist \/ (m \in Live(mem) /\ hist' = [hist EXCEPT !.withdrawn = @ \cup {m}])
      BY <1>4 DEF RemoveItem, Withdrawable
    <3>2. Live(mem) \subseteq Messages /\ hist \in History
      BY <1>0, WrittenTypes DEF TypeOK
    <3> QED BY <3>1, <3>2 DEF History
  <2> QED BY <1>0, <1>4, <1>b, <2>1, <2>2 DEF RemoveItem, Pop, TypeOK
<1>5. CASE Detach
  <2>1. files' \in [Files -> {"draft", "pinned", "held", "gone"}]
    BY <1>0, <1>5 DEF Detach, TypeOK
  <2> QED BY <1>0, <1>5, <1>b, <2>1 DEF Detach, Pop, TypeOK, WellFormed
<1>6. CASE Resume
  <2>1. /\ WellFormed(disk') /\ WellFormed(mem') /\ loaded' \in BOOLEAN
        /\ used' \in [controls: Nat, faults: Nat, crashes: Nat]
    BY <1>0, <1>6, CommitType, CommitFailsType, WrittenTypes DEF Resume, TypeOK
  <2>2. hist' \in History /\ scheduled' \in BOOLEAN
    BY <1>0, <1>6 DEF Resume, Released, Wake, TypeOK, WellFormed, Queue, History
  <2> QED BY <1>0, <1>6, <1>b, <2>1, <2>2 DEF Resume, Pop, TypeOK
<1>7. CASE Reacknowledge
  <2>1. /\ WellFormed(disk') /\ WellFormed(mem') /\ loaded' \in BOOLEAN
        /\ used' \in [controls: Nat, faults: Nat, crashes: Nat]
    BY <1>0, <1>7, CommitType, CommitFailsType, WrittenTypes DEF Reacknowledge, TypeOK
  <2>2. /\ replaced' \in SUBSET Messages /\ settling' \in SUBSET Capture
        /\ failedAck' \in [msg: MessageOrNone, ok: BOOLEAN]
    <3>1. Head(chain).cap \in Capture
      BY <1>7, <1>b, OpFields DEF Reacknowledge, AtHead
    <3>2. settling' = settling \/ settling' = settling \cup {Head(chain).cap}
      BY <1>7 DEF Reacknowledge
    <3>3. settling' \in SUBSET Capture
      BY <1>0, <3>1, <3>2 DEF TypeOK
    <3>4. replaced' \in SUBSET Messages
      BY <1>0, <1>7 DEF Reacknowledge, TypeOK
    <3>5. failedAck' \in [msg: MessageOrNone, ok: BOOLEAN]
      <4>1. failedAck' = failedAck \/ failedAck' = NoAck
        BY <1>7 DEF Reacknowledge
      <4>2. NoAck \in [msg: MessageOrNone, ok: BOOLEAN]
        BY DEF NoAck, MessageOrNone
      <4> QED BY <1>0, <4>1, <4>2 DEF TypeOK
    <3> QED BY <3>3, <3>4, <3>5
  <2> QED BY <1>0, <1>7, <1>b, <2>1, <2>2 DEF Reacknowledge, Pop, TypeOK
<1>8. CASE Select
  <2>1. Head(chain).cap \in Capture
    BY <1>8, <1>b, OpFields DEF Select, AtHead
  <2>2. /\ WellFormed(disk') /\ WellFormed(mem') /\ loaded' \in BOOLEAN
        /\ used' \in [controls: Nat, faults: Nat, crashes: Nat]
    BY <1>0, <1>8, CommitType, CommitFailsType, WrittenTypes DEF Select, TypeOK
  <2>3. /\ generation' \in Nat /\ replaced' \in SUBSET Messages /\ hist' \in History
    <3>1. mem.sending \in SUBSET Messages /\ hist \in History /\ generation \in Nat
          /\ replaced \in SUBSET Messages
      BY <1>0 DEF TypeOK, WellFormed, Queue
    <3>2. generation' = generation \/ generation' = generation + 1
      BY <1>8 DEF Select
    <3>3. replaced' = replaced \/ replaced' = replaced \cup mem.sending
      BY <1>8 DEF Select
    <3>4. hist' = hist \/ hist' = [hist EXCEPT !.superseded = @ \cup mem.sending]
      BY <1>8 DEF Select
    <3> QED BY <3>1, <3>2, <3>3, <3>4 DEF History
  <2>4. priority' \in [at: {"none", "selecting", "interrupting", "releasing", "ended"},
                       msg: MessageOrNone, epoch: Nat, cap: Capture]
    <3>1. \/ priority' = [priority EXCEPT !.at = "ended"]
          \/ priority' = [priority EXCEPT !.at = "interrupting", !.epoch = generation + 1,
                                          !.cap = Head(chain).cap]
      BY <1>8 DEF Select, Ended
    <3>2. generation + 1 \in Nat /\ priority \in [at: {"none", "selecting", "interrupting",
            "releasing", "ended"}, msg: MessageOrNone, epoch: Nat, cap: Capture]
      BY <1>0 DEF TypeOK
    <3> QED BY <2>1, <3>1, <3>2
  <2> QED BY <1>0, <1>8, <1>b, <2>2, <2>3, <2>4 DEF Select, Pop, TypeOK
<1>9. CASE Release
  <2>1. /\ WellFormed(disk') /\ WellFormed(mem') /\ loaded' \in BOOLEAN
        /\ used' \in [controls: Nat, faults: Nat, crashes: Nat]
        /\ generation' \in Nat /\ hist' \in History
    <3>1. CASE UNCHANGED <<queueVars, generation, hist, used>>
      BY <1>0, <3>1 DEF TypeOK, WellFormed
    <3>2. CASE Commit(Running) /\ hist' = Released /\ UNCHANGED generation
      <4>1. hist' \in History
        BY <1>0, <3>2 DEF Released, TypeOK, WellFormed, Queue, History
      <4> QED BY <1>0, <3>2, <4>1, CommitType, WrittenTypes DEF TypeOK
    <3>3. CASE PauseWithError
      BY <1>0, <3>3, PauseWithErrorType
    <3> QED BY <1>9, <3>1, <3>2, <3>3 DEF Release
  <2>2. priority' \in [at: {"none", "selecting", "interrupting", "releasing", "ended"},
                       msg: MessageOrNone, epoch: Nat, cap: Capture]
    BY <1>0, <1>9 DEF Release, Ended, TypeOK
  <2> QED BY <1>0, <1>9, <1>b, <2>1, <2>2 DEF Release, Pop, TypeOK
<1>10. CASE Dispatch
  <2>1. /\ WellFormed(disk') /\ WellFormed(mem') /\ loaded' \in BOOLEAN
        /\ used' \in [controls: Nat, faults: Nat, crashes: Nat]
        /\ generation' \in Nat /\ hist' \in History
        /\ active' \in [at: {"idle", "running", "acking", "acked", "unacked", "closing"},
                        msg: MessageOrNone, ok: BOOLEAN]
    <3>1. CASE UNCHANGED <<queueVars, generation, active, hist, used>>
      BY <1>0, <3>1 DEF TypeOK, WellFormed
    <3>2. CASE /\ \E m \in Live(mem) :
                    /\ Commit([mem EXCEPT !.sending = @ \cup {m}])
                    /\ active' = [at |-> "running", msg |-> m, ok |-> FALSE]
                    /\ hist' = [hist EXCEPT !.tainted = @ \cup {m}]
               /\ UNCHANGED generation
      <4>1. PICK m \in Live(mem) : /\ Commit([mem EXCEPT !.sending = @ \cup {m}])
                                   /\ active' = [at |-> "running", msg |-> m, ok |-> FALSE]
                                   /\ hist' = [hist EXCEPT !.tainted = @ \cup {m}]
        BY <3>2
      <4>2. m \in Messages /\ WellFormed([mem EXCEPT !.sending = @ \cup {m}])
        BY <1>0, WrittenTypes
      <4>3. hist' \in History
        BY <1>0, <4>1, <4>2 DEF TypeOK, History
      <4>4. active' \in [at: {"idle", "running", "acking", "acked", "unacked", "closing"},
                        msg: MessageOrNone, ok: BOOLEAN]
        BY <4>1, <4>2 DEF MessageOrNone
      <4> QED BY <1>0, <3>2, <4>1, <4>2, <4>3, <4>4, CommitType DEF TypeOK
    <3>3. CASE PauseWithError /\ UNCHANGED active
      BY <1>0, <3>3, PauseWithErrorType DEF TypeOK
    <3> QED BY <1>10, <3>1, <3>2, <3>3 DEF Dispatch
  <2> QED BY <1>0, <1>10, <1>b, <2>1 DEF Dispatch, Pop, TypeOK
<1>11. CASE Complete
  <2>1. /\ WellFormed(disk') /\ WellFormed(mem') /\ loaded' \in BOOLEAN
        /\ used' \in [controls: Nat, faults: Nat, crashes: Nat]
    BY <1>0, <1>11, CommitType, CommitFailsType, WrittenTypes DEF Complete, TypeOK
  <2>2. /\ active' \in [at: {"idle", "running", "acking", "acked", "unacked", "closing"},
                        msg: MessageOrNone, ok: BOOLEAN]
        /\ replaced' \in SUBSET Messages
    BY <1>0, <1>11 DEF Complete, TypeOK
  <2> QED BY <1>0, <1>11, <1>b, <2>1, <2>2 DEF Complete, Pop, TypeOK
<1> QED BY <1>1, <1>2, <1>3, <1>4, <1>5, <1>6, <1>7, <1>8, <1>9, <1>10, <1>11 DEF HeadStep

\* The steps of the queue outside the chain, and those of its surroundings.
LEMMA OtherTypes ==
  ASSUME TypeInv, Next, ~UserNext, ~HeadStep
  PROVE  TypeOK'
<1> USE DEF queueVars, turnVars, dataVars
<1>0. /\ TypeOK /\ chain \in Seq(Op) /\ hist \in History /\ WellFormed(mem)
      /\ WellFormed(disk)
  BY DEF TypeInv, TypeOK
<1>1. CASE Load
  BY <1>0, <1>1, WrittenTypes DEF Load, TypeOK
<1>2. CASE ResumeSettled
  <2>1. PICK cap \in settling : /\ settling' = settling \ {cap}
                                /\ \/ Enqueue([kind |-> "resume", cap |-> cap])
                                   \/ chain' = chain
    BY <1>2 DEF ResumeSettled
  <2>2. [kind |-> "resume", cap |-> cap] \in Op
    BY <1>0 DEF Op, TypeOK
  <2>3. chain' \in Seq(Op)
    BY <1>0, <2>1, <2>2, EnqueueType
  <2>4. settling' \in SUBSET Capture
    BY <1>0, <2>1 DEF TypeOK
  <2> QED BY <1>0, <1>2, <2>3, <2>4 DEF ResumeSettled, TypeOK
<1>3. CASE Interrupted
  <2>1. [kind |-> "release", epoch |-> priority.epoch, cap |-> priority.cap] \in Op
    BY <1>0 DEF Op, TypeOK
  <2>2. chain' \in Seq(Op)
    BY <1>0, <1>3, <2>1, EnqueueType DEF Interrupted
  <2>3. priority' \in [at: {"none", "selecting", "interrupting", "releasing", "ended"},
                       msg: MessageOrNone, epoch: Nat, cap: Capture]
    BY <1>0, <1>3 DEF Interrupted, TypeOK
  <2> QED BY <1>0, <1>3, <2>2, <2>3 DEF Interrupted, TypeOK
<1>4. CASE InterruptFails
  <2>1. priority' \in [at: {"none", "selecting", "interrupting", "releasing", "ended"},
                       msg: MessageOrNone, epoch: Nat, cap: Capture]
    BY <1>0, <1>4 DEF InterruptFails, Ended, TypeOK
  <2> QED BY <1>0, <1>4, <2>1, PauseWithErrorType DEF InterruptFails, TypeOK
<1>5. CASE PriorityEnds
  <2>1. NoPriority \in [at: {"none", "selecting", "interrupting", "releasing", "ended"},
                        msg: MessageOrNone, epoch: Nat, cap: Capture]
    BY DEF NoPriority, MessageOrNone, Capture
  <2>2. scheduled' \in BOOLEAN
    BY <1>0, <1>5 DEF PriorityEnds, WakesAfter, TypeOK
  <2> QED BY <1>0, <1>5, <2>1, <2>2 DEF PriorityEnds, TypeOK
<1>6. CASE FireWake
  <2>1. [kind |-> "dispatch"] \in Op
    BY DEF Op
  <2>2. chain' \in Seq(Op)
    BY <1>0, <1>6, <2>1, EnqueueType DEF FireWake
  <2>3. host' \in Host
    BY <1>0, <1>6 DEF FireWake, Host, TypeOK
  <2> QED BY <1>0, <1>6, <2>2, <2>3 DEF FireWake, TypeOK
<1>7. CASE KeepOutcome
  <2>1. active' \in [at: {"idle", "running", "acking", "acked", "unacked", "closing"},
                     msg: MessageOrNone, ok: BOOLEAN]
        /\ failedAck' \in [msg: MessageOrNone, ok: BOOLEAN]
    BY <1>0, <1>7 DEF KeepOutcome, TypeOK
  <2>2. WellFormed(mem')
    BY <1>0, <1>7, WrittenTypes DEF KeepOutcome
  <2>3. hist' \in History /\ generation' \in Nat
    <3>1. hist' = [hist EXCEPT !.stops = @ + 1] /\ generation' = generation + 1
      BY <1>7 DEF KeepOutcome
    <3>2. hist' \in History
      BY <1>0, <3>1 DEF History
    <3> QED BY <1>0, <3>1, <3>2 DEF TypeOK
  <2> QED BY <1>0, <1>7, <2>1, <2>2, <2>3 DEF KeepOutcome, TypeOK
<1>8. CASE TurnCloses
  <2>1. scheduled' \in BOOLEAN
    BY <1>0, <1>8 DEF TurnCloses, WakesAfter, TypeOK
  <2>2. Idle \in [at: {"idle", "running", "acking", "acked", "unacked", "closing"},
                  msg: MessageOrNone, ok: BOOLEAN]
    BY DEF Idle, MessageOrNone
  <2> QED BY <1>0, <1>8, <2>1, <2>2 DEF TurnCloses, TypeOK
<1>9. CASE TurnEnds
  <2>1. PICK ok \in BOOLEAN :
          /\ active' = [active EXCEPT !.at = "acking", !.ok = ok]
          /\ hist' = IF ok THEN [hist EXCEPT !.succeeded = @ \cup {active.msg}] ELSE hist
          /\ LET sent == [f \in Files |-> IF f \in FilesOf(active.msg) THEN "held" ELSE files[f]]
             IN  files' \in IF ok THEN {sent} ELSE {files, sent}
    BY <1>9 DEF TurnEnds
  <2>2. active.msg \in Messages
    BY <1>9 DEF TurnEnds, TypeInv
  <2>3. hist' \in History
    BY <1>0, <2>1, <2>2 DEF History
  <2>4. active' \in [at: {"idle", "running", "acking", "acked", "unacked", "closing"},
                     msg: MessageOrNone, ok: BOOLEAN]
    BY <1>0, <2>1 DEF TypeOK
  <2>5. files' \in [Files -> {"draft", "pinned", "held", "gone"}]
    BY <1>0, <2>1 DEF TypeOK
  <2>6. [kind |-> "complete"] \in Op
    BY DEF Op
  <2>7. chain' \in Seq(Op)
    BY <1>0, <1>9, <2>6, EnqueueType DEF TurnEnds
  <2> QED BY <1>0, <1>9, <2>3, <2>4, <2>5, <2>7 DEF TurnEnds, TypeOK
<1>10. CASE GateMoves
  <2>1. host' \in Host
    BY <1>0, <1>10 DEF GateMoves, Host, TypeOK
  <2> QED BY <1>0, <1>10, <2>1 DEF GateMoves, TypeOK
<1>11. CASE Maintain
  <2>1. host' \in Host
    <3>1. host' = [host EXCEPT !.gate = "maintenance", !.epoch = @ + 1]
      BY <1>11 DEF Maintain
    <3>2. host \in Host /\ host.epoch + 1 \in Nat
      BY <1>0 DEF Host, TypeOK
    <3> QED BY <3>1, <3>2 DEF Host
  <2>2. [hist EXCEPT !.fence = hist.stops + 1] \in History
    <3>1. hist.stops + 1 \in Nat
      BY <1>0 DEF History
    <3> QED BY <1>0, <3>1 DEF History
  <2> QED BY <1>0, <1>11, <2>1, <2>2, PauseType DEF Maintain, TypeOK
<1>12. CASE BusyBegins \/ BusyEnds \/ AdmissionRefused
  <2>1. host' \in Host
    BY <1>0, <1>12 DEF BusyBegins, BusyEnds, AdmissionRefused, Host, TypeOK
  <2>2. used' \in [controls: Nat, faults: Nat, crashes: Nat]
    <3>1. used' = used \/ used' = [used EXCEPT !.controls = @ + 1]
      BY <1>12 DEF BusyBegins, BusyEnds, AdmissionRefused, Control
    <3> QED BY <1>0, <3>1 DEF TypeOK
  <2> QED BY <1>0, <1>12, <2>1, <2>2 DEF BusyBegins, BusyEnds, AdmissionRefused,
                                             WakesAfter, TypeOK
<1>13. CASE Crash
  <2>1. /\ WellFormed(EmptyQueue)
        /\ NoPriority \in [at: {"none", "selecting", "interrupting", "releasing", "ended"},
                           msg: MessageOrNone, epoch: Nat, cap: Capture]
        /\ Idle \in [at: {"idle", "running", "acking", "acked", "unacked", "closing"},
                     msg: MessageOrNone, ok: BOOLEAN]
        /\ NoAck \in [msg: MessageOrNone, ok: BOOLEAN]
        /\ << >> \in Seq(Op)
    BY CapsAssumption DEF WellFormed, Queue, EmptyQueue, NoPriority, Idle, NoAck, MessageOrNone,
                          Capture
  <2>2. host' \in Host
    <3>1. /\ host' = [gate |-> IF host.deleted THEN "closed" ELSE "open", epoch |-> 0,
                      busy |-> FALSE, deleted |-> host.deleted, refused |-> FALSE]
          /\ host \in Host
      BY <1>0, <1>13 DEF Crash, TypeOK
    <3> QED BY ONLY <3>1 DEF Host
  <2>3. Live(disk) \subseteq Messages
    BY <1>0, RangeOfSeq DEF WellFormed, Queue, Live
  <2>4. hist' \in History
    BY <1>0, <1>13, <2>3 DEF Crash, History
  <2>5. used' \in [controls: Nat, faults: Nat, crashes: Nat]
    <3>1. used' = [used EXCEPT !.crashes = @ + 1]
      BY <1>13 DEF Crash
    <3>2. used \in [controls: Nat, faults: Nat, crashes: Nat]
      BY <1>0 DEF TypeOK
    <3> QED BY ONLY <3>1, <3>2
  <2> QED BY <1>0, <1>13, <2>1, <2>2, <2>4, <2>5 DEF Crash, TypeOK
<1> QED BY <1>1, <1>2, <1>3, <1>4, <1>5, <1>6, <1>7, <1>8, <1>9, <1>10, <1>11, <1>12, <1>13
        DEF Next, QueueNext, HostNext

LEMMA TypeStep ==
  ASSUME TypeInv, Next
  PROVE  TypeOK'
<1> USE DEF queueVars, turnVars, dataVars
<1>0. TypeOK
  BY DEF TypeInv
<1>1. CASE HeadStep
  BY <1>1, HeadTypes
<1>2. CASE Stop
  BY <1>0, <1>2, PauseType DEF Stop, TypeOK
<1>3. CASE Delete
  <2>1. WellFormed(EmptyQueue)
    BY CapsAssumption DEF WellFormed, Queue, EmptyQueue
  <2>2. host' \in Host
    BY <1>0, <1>3 DEF Delete, Host, TypeOK
  <2> QED BY <1>0, <1>3, <2>1, <2>2 DEF Delete, TypeOK
<1>4. CASE UserNext
  BY <1>0, <1>2, <1>3, <1>4, CallTypes DEF UserNext
<1> QED BY <1>1, <1>4, OtherTypes

\* Running the head of the chain leaves no admitted submission behind.
LEMMA TailRoom ==
  ASSUME TypeInv, chain # << >>, chain' = Tail(chain)
  PROVE  RoomKept'
<1>1. chain' \in Seq(Op) /\ NoCommit(chain')
  BY HeadType DEF TypeInv, TypeOK, RoomKept
<1>2. ASSUME chain' # << >>
      PROVE  /\ NoCommit(Tail(chain'))
             /\ ~(Head(chain').kind = "submit" /\ Head(chain').at = "commit")
  <2>1. Head(chain') \in Range(chain') /\ Range(Tail(chain')) \subseteq Range(chain')
    BY <1>1, <1>2, ChainShrinks
  <2> QED BY <1>1, <2>1 DEF NoCommit
<1> QED BY <1>2 DEF RoomKept, NoCommit

SameItems == Stored'.items = Stored.items \/ Stored'.items = << >>

\* Whoever joins the chain has not been admitted yet.
LEMMA AppendRoom ==
  ASSUME TypeInv, NEW op \in Op, op.kind = "submit" => op.at = "admit", Enqueue(op), SameItems
  PROVE  RoomKept'
<1>0. chain \in Seq(Op) /\ chain' = Append(chain, op) /\ ItemCap > 0 /\ ItemCap \in Nat
  BY CapsAssumption DEF TypeInv, TypeOK, Enqueue
<1>1. /\ Head(chain') = IF chain = << >> THEN op ELSE Head(chain)
      /\ Tail(chain') = IF chain = << >> THEN << >> ELSE Append(Tail(chain), op)
  BY <1>0, HeadTailAppend
<1>2. CASE chain = << >>
  BY <1>1, <1>2 DEF RoomKept, NoCommit, Range
<1>3. CASE chain # << >>
  <2>1. Range(Tail(chain')) = Range(Tail(chain)) \cup {op}
    <3>1. Tail(chain) \in Seq(Op) /\ Tail(chain') = Append(Tail(chain), op)
      BY <1>0, <1>1, <1>3, HeadType
    <3>2. Range(Append(Tail(chain), op)) = Range(Tail(chain)) \cup {op}
      <4> DEFINE rest == Tail(chain)
      <4>1. rest \in Seq(Op)
        BY <3>1
      <4> HIDE DEF rest
      <4>2. Range(Append(rest, op)) = Range(rest) \cup {op}
        BY <4>1, ChainGrows
      <4> QED BY <4>2 DEF rest
    <3> QED BY <3>1, <3>2
  <2>2. NoCommit(Tail(chain'))
    BY <1>3, <2>1 DEF TypeInv, RoomKept, NoCommit
  <2>3. Head(chain).kind = "submit" /\ Head(chain).at = "commit" => Len(Stored'.items) < ItemCap
    BY <1>0, <1>3 DEF TypeInv, RoomKept, SameItems
  <2> QED BY <1>1, <1>3, <2>2, <2>3 DEF RoomKept
<1> QED BY <1>2, <1>3

LEMMA SameRoom ==
  ASSUME TypeInv, chain' = chain, SameItems
  PROVE  RoomKept'
<1>0. ItemCap > 0 /\ ItemCap \in Nat
  BY CapsAssumption
<1>1. CASE chain = << >>
  BY <1>1 DEF RoomKept
<1>2. CASE chain # << >>
  BY <1>0, <1>2 DEF TypeInv, RoomKept, NoCommit, SameItems
<1> QED BY <1>1, <1>2

LEMMA SameQueue ==
  ASSUME UNCHANGED queueVars
  PROVE  SameItems
BY DEF queueVars, SameItems, Stored

\* A call queues an operation that has not been admitted, and touches nothing else of the queue.
LEMMA CallEnqueues ==
  ASSUME TypeInv, UserNext, ~Stop, ~Delete
  PROVE  /\ UNCHANGED <<disk, mem, loaded, generation, active, settling, hist, host>>
         /\ UNCHANGED <<replaced, failedAck, files, content>>
         /\ \E op \in Op :
              /\ Enqueue(op)
              /\ op.kind = "submit" => op.at = "admit"
              /\ op.kind \in {"submit", "resume", "reack", "select"} => op.cap = Captured
              /\ op.kind # "release"
              /\ op.kind = "reack" =>
                   loaded /\ failedAck # NoAck /\ op.msg = failedAck.msg /\ op.ok = failedAck.ok
              /\ op.kind \in {"resume", "select"} => failedAck = NoAck
              /\ op.kind # "complete"
              /\ priority' # priority => priority'.at = "selecting"
<1>0. /\ Captured \in Capture /\ failedAck.msg \in MessageOrNone /\ failedAck.ok \in BOOLEAN
  BY CapturedType DEF TypeInv, TypeOK
<1>1. CASE \E req \in Requests, body \in Bodies : SubmitCall(req, body)
  <2>1. PICK req \in Requests, body \in Bodies : SubmitCall(req, body)
    BY <1>1
  <2> DEFINE op == [kind |-> "submit", at |-> "admit", req |-> req, body |-> body, cap |-> Captured]
  <2>2. op \in Op
    BY <1>0 DEF Op
  <2>3. Call(op) /\ priority' = priority
    BY <2>1 DEF SubmitCall
  <2> QED BY <2>2, <2>3 DEF Call, queueVars, dataVars
<1>2. CASE \E m \in Messages : RemoveCall(m)
  <2>1. PICK m \in Messages : RemoveCall(m)
    BY <1>2
  <2> DEFINE op == [kind |-> "remove", msg |-> m]
  <2>2. op \in Op
    BY DEF Op
  <2>3. Call(op) /\ priority' = priority
    BY <2>1 DEF RemoveCall
  <2> QED BY <2>2, <2>3 DEF Call, queueVars, dataVars
<1>3. CASE \E m \in Messages : SendNowCall(m)
  <2>1. PICK m \in Messages : SendNowCall(m)
    BY <1>3
  <2> DEFINE op == [kind |-> "select", cap |-> Captured]
  <2>2. op \in Op
    BY <1>0 DEF Op
  <2>3. Call(op) /\ priority'.at = "selecting" /\ failedAck = NoAck
    BY <2>1 DEF SendNowCall, NoPriority
  <2> QED BY <2>2, <2>3 DEF Call, queueVars, dataVars
<1>4. CASE \E f \in Files : DetachCall(f)
  <2>1. PICK f \in Files : DetachCall(f)
    BY <1>4
  <2> DEFINE op == [kind |-> "detach", file |-> f]
  <2>2. op \in Op
    BY DEF Op
  <2>3. Call(op) /\ priority' = priority
    BY <2>1 DEF DetachCall
  <2> QED BY <2>2, <2>3 DEF Call, queueVars, dataVars
<1>5. CASE ResumeCall
  <2> DEFINE resume == [kind |-> "resume", cap |-> Captured]
             reack == [kind |-> "reack", msg |-> failedAck.msg, ok |-> failedAck.ok,
                       cap |-> Captured]
  <2>2. resume \in Op /\ reack \in Op
    BY <1>0 DEF Op
  <2>3. /\ \/ Call(resume) /\ failedAck = NoAck
           \/ Call(reack) /\ failedAck # NoAck
        /\ priority' = priority
    BY <1>5 DEF ResumeCall
  <2>4. CASE Call(resume) /\ failedAck = NoAck
    BY <2>2, <2>3, <2>4 DEF Call, queueVars, dataVars
  <2>5. CASE Call(reack) /\ failedAck # NoAck
    BY <2>2, <2>3, <2>5 DEF Call, queueVars, dataVars
  <2> QED BY <2>3, <2>4, <2>5
<1> QED BY <1>1, <1>2, <1>3, <1>4, <1>5 DEF UserNext

LEMMA RoomStep ==
  ASSUME TypeInv, Next
  PROVE  RoomKept'
<1> USE DEF queueVars, turnVars, dataVars
<1>1. CASE HeadStep
  <2>1. chain # << >> /\ loaded
    BY <1>1, HeadLoaded
  <2>2. CASE SubmitAdmit
    <3> DEFINE op == [Head(chain) EXCEPT !.at = "commit"]
    <3>1. Tail(chain) \in Seq(Op) /\ <<op>> \in Seq({op}) /\ NoCommit(Tail(chain))
      BY <2>1, HeadType DEF TypeInv, TypeOK, RoomKept
    <3>2. chain' = <<op>> \o Tail(chain) /\ Len(mem.items) < ItemCap /\ mem' = mem /\ loaded' = loaded
      BY <2>2 DEF SubmitAdmit, Room
    <3>3. Tail(chain') = Tail(chain)
      <4>1. Tail(chain) \in Seq(Op \cup {op}) /\ <<op>> \in Seq(Op \cup {op})
        BY <3>1
      <4> HIDE DEF op
      <4> QED BY <3>2, <4>1
    <3> QED BY <2>1, <3>1, <3>2, <3>3 DEF RoomKept, NoCommit, Stored
  <2>3. CASE ~SubmitAdmit
    <3>1. chain' = Tail(chain)
      BY <1>1, <2>3, HeadPops
    <3> QED BY <2>1, <3>1, TailRoom
  <2> QED BY <2>2, <2>3
<1>2. CASE UserNext
  <2>1. CASE Stop
    BY <2>1, SameRoom DEF Stop, Pause, SameItems, Stored
  <2>2. CASE Delete
    BY <2>2, SameRoom DEF Delete, EmptyQueue, SameItems, Stored
  <2>3. CASE ~Stop /\ ~Delete
    <3>1. /\ UNCHANGED queueVars
          /\ \E op \in Op : Enqueue(op) /\ (op.kind = "submit" => op.at = "admit")
      BY <1>2, <2>3, CallEnqueues
    <3>2. SameItems
      BY <3>1, SameQueue
    <3> QED BY <3>1, <3>2, AppendRoom
  <2> QED BY <2>1, <2>2, <2>3
<1>3. CASE ResumeSettled \/ Interrupted \/ FireWake \/ TurnEnds
  <2>0. settling \subseteq Capture /\ priority.epoch \in Nat /\ priority.cap \in Capture
    BY DEF TypeInv, TypeOK
  <2>1. UNCHANGED queueVars
    BY <1>3 DEF ResumeSettled, Interrupted, FireWake, TurnEnds
  <2>2. chain' = chain \/ \E op \in Op : Enqueue(op) /\ op.kind # "submit"
    <3>1. CASE ResumeSettled
      <4>1. PICK cap \in settling : Enqueue([kind |-> "resume", cap |-> cap]) \/ chain' = chain
        BY <3>1 DEF ResumeSettled
      <4>2. [kind |-> "resume", cap |-> cap] \in Op
        BY <2>0 DEF Op
      <4> QED BY <4>1, <4>2
    <3>2. CASE Interrupted
      <4>1. [kind |-> "release", epoch |-> priority.epoch, cap |-> priority.cap] \in Op
        BY <2>0 DEF Op
      <4> QED BY <3>2, <4>1 DEF Interrupted
    <3>3. CASE FireWake
      <4>1. [kind |-> "dispatch"] \in Op
        BY DEF Op
      <4> QED BY <3>3, <4>1 DEF FireWake
    <3>4. CASE TurnEnds
      <4>1. [kind |-> "complete"] \in Op
        BY DEF Op
      <4> QED BY <3>4, <4>1 DEF TurnEnds
    <3> QED BY <1>3, <3>1, <3>2, <3>3, <3>4
  <2> QED BY <2>1, <2>2, AppendRoom, SameRoom, SameQueue
<1>4. CASE Load
  BY <1>4, SameRoom DEF Load, Restored, SameItems, Stored
<1>5. CASE InterruptFails
  <2>1. /\ chain' = chain /\ loaded' = loaded
        /\ mem'.items = mem.items /\ (disk' = mem' \/ disk' = disk)
    BY <1>5 DEF InterruptFails, PauseWithError, Pause, TypeInv, TypeOK, WellFormed, Queue
  <2>2. SameItems
    BY <2>1 DEF SameItems, Stored, TypeInv
  <2> QED BY <2>1, <2>2, SameRoom
<1>6. CASE KeepOutcome
  BY <1>6, SameRoom DEF KeepOutcome, Still, SameItems, Stored
<1>7. CASE Maintain
  BY <1>7, SameRoom DEF Maintain, Pause, SameItems, Stored
<1>8. CASE PriorityEnds \/ TurnCloses \/ GateMoves \/ BusyBegins \/ BusyEnds \/ AdmissionRefused
  <2>1. UNCHANGED queueVars /\ chain' = chain
    BY <1>8 DEF PriorityEnds, TurnCloses, GateMoves, BusyBegins, BusyEnds, AdmissionRefused
  <2> QED BY <2>1, SameRoom, SameQueue
<1>9. CASE Crash
  BY <1>9 DEF Crash, RoomKept
<1> QED BY <1>1, <1>2, <1>3, <1>4, <1>5, <1>6, <1>7, <1>8, <1>9 DEF Next, QueueNext, HostNext

\* A queue that is not in memory has no items there, and a running turn has a message.
LEMMA UnloadedStep ==
  ASSUME TypeInv, Next
  PROVE  ~loaded' => mem'.items = << >>
<1> USE DEF queueVars, turnVars, dataVars
<1>1. CASE Load \/ HeadStep
  BY <1>1 DEF Load, HeadStep, SubmitAdmit, SubmitEnds, SubmitCommit, RemoveItem, Detach, Resume,
     Reacknowledge, Select, Release, Dispatch, Complete, AtHead, Commit, CommitFails, Pause,
     PauseWithError
<1>2. CASE UserNext
  <2>1. CASE Stop
    BY <2>1 DEF Stop, Pause
  <2>2. CASE Delete
    BY <2>2 DEF Delete, EmptyQueue
  <2> QED BY <1>2, <2>1, <2>2, CallEnqueues DEF TypeInv
<1>3. CASE InterruptFails
  BY <1>3 DEF InterruptFails, PauseWithError, Pause, TypeInv, TypeOK, WellFormed, Queue
<1>4. CASE KeepOutcome
  BY <1>4 DEF KeepOutcome, Still, TypeInv, TypeOK, WellFormed, Queue
<1>5. CASE Maintain
  BY <1>5 DEF Maintain, Pause
<1>6. CASE Crash
  BY <1>6 DEF Crash, EmptyQueue
<1>7. CASE ResumeSettled \/ Interrupted \/ PriorityEnds \/ FireWake \/ TurnCloses \/ TurnEnds
           \/ GateMoves \/ BusyBegins \/ BusyEnds \/ AdmissionRefused
  <2>1. UNCHANGED queueVars
    BY <1>7 DEF ResumeSettled, Interrupted, PriorityEnds, FireWake, TurnCloses, TurnEnds, GateMoves,
       BusyBegins, BusyEnds, AdmissionRefused
  <2> QED BY <2>1 DEF TypeInv
<1> QED BY <1>1, <1>2, <1>3, <1>4, <1>5, <1>6, <1>7 DEF Next, QueueNext, HostNext

LEMMA ActiveStep ==
  ASSUME TypeInv, Next
  PROVE  active'.at = "running" => active'.msg \in Messages
<1> USE DEF queueVars, turnVars, dataVars
<1>0. active \in [at: {"idle", "running", "acking", "acked", "unacked", "closing"},
                  msg: MessageOrNone, ok: BOOLEAN]
  BY DEF TypeInv, TypeOK
<1>1. CASE UNCHANGED active
  BY <1>1 DEF TypeInv
<1>2. CASE Dispatch
  <2>1. active' = active \/ \E m \in Live(mem) : active' = [at |-> "running", msg |-> m, ok |-> FALSE]
    BY <1>2 DEF Dispatch
  <2>2. Live(mem) \subseteq Messages
    BY WrittenTypes DEF TypeInv
  <2> QED BY <2>1, <2>2 DEF TypeInv
<1>3. CASE TurnEnds
  <2>1. PICK ok : active' = [active EXCEPT !.at = "acking", !.ok = ok]
    BY <1>3 DEF TurnEnds
  <2> QED BY <1>0, <2>1
<1>4. CASE Complete \/ KeepOutcome
  <2>1. active'.at \in {"acked", "unacked", "closing"}
    BY <1>0, <1>4 DEF Complete, KeepOutcome
  <2> QED BY <2>1
<1>5. CASE TurnCloses \/ Crash
  BY <1>5 DEF TurnCloses, Crash, Idle
<1>6. CASE UserNext
  BY <1>1, <1>6, CallEnqueues DEF Stop, Delete
<1>7. CASE HeadStep
  BY <1>1, <1>2, <1>4, <1>7 DEF HeadStep, SubmitAdmit, SubmitEnds, SubmitCommit, RemoveItem, Detach,
     Resume, Reacknowledge, Select, Release
<1>8. CASE \/ Load \/ ResumeSettled \/ Interrupted \/ InterruptFails \/ PriorityEnds \/ FireWake
           \/ GateMoves \/ Maintain \/ BusyBegins \/ BusyEnds \/ AdmissionRefused
  BY <1>1, <1>8 DEF Load, ResumeSettled, Interrupted, InterruptFails, PriorityEnds, FireWake,
     GateMoves, Maintain, BusyBegins, BusyEnds, AdmissionRefused
<1> QED BY <1>3, <1>4, <1>5, <1>6, <1>7, <1>8 DEF Next, QueueNext, HostNext

LEMMA TypeInit ==
  ASSUME Init
  PROVE  TypeInv
<1>1. WellFormed(EmptyQueue)
  BY CapsAssumption DEF WellFormed, Queue, EmptyQueue
<1>2. /\ NoPriority \in [at: {"none", "selecting", "interrupting", "releasing", "ended"},
                         msg: MessageOrNone, epoch: Nat, cap: Capture]
      /\ Idle \in [at: {"idle", "running", "acking", "acked", "unacked", "closing"},
                   msg: MessageOrNone, ok: BOOLEAN]
      /\ NoAck \in [msg: MessageOrNone, ok: BOOLEAN]
      /\ << >> \in Seq(Op) /\ << >> \in Seq(Content)
  BY DEF NoPriority, Idle, NoAck, MessageOrNone, Capture
<1>3. host \in Host /\ hist \in History
  BY DEF Init, Host, History
<1>4. TypeOK
  BY <1>1, <1>2, <1>3 DEF Init, TypeOK
<1> QED BY <1>4 DEF Init, TypeInv, RoomKept, EmptyQueue, Idle

LEMMA TypeStutter ==
  ASSUME TypeInv, UNCHANGED vars
  PROVE  TypeInv'
<1>1. TypeOK'
  BY DEF TypeInv, vars, queueVars, turnVars, dataVars, TypeOK, WellFormed
<1>2. RoomKept'
  BY SameQueue, SameRoom DEF vars
<1> QED BY <1>1, <1>2 DEF TypeInv, vars, queueVars, turnVars

LEMMA TypeInvariant == Spec => []TypeInv
<1>1. TypeInv /\ [Next]_vars => TypeInv'
  <2>1. TypeInv /\ Next => TypeInv'
    BY TypeStep, RoomStep, UnloadedStep, ActiveStep DEF TypeInv
  <2> QED BY <2>1, TypeStutter
<1> QED BY <1>1, TypeInit, PTL DEF Spec

\* What is in memory and in the file always has the schema of ChatQueueStorage, caps included:
\* submit() tests the room before it waits for the attachments and never again, yet the item
\* it then pushes fits.
THEOREM TypeCorrect == Spec => []TypeOK
<1>1. TypeInv => TypeOK
  BY DEF TypeInv
<1> QED BY <1>1, TypeInvariant, PTL

-----------------------------------------------------------------------------
\* Stops.  Every stop moves the generation, but so do sendNow and a failed save, and deleting
\* the session starts it again at zero; so what an operation captured before the last stop is
\* older than the generation as long as the session exists, and a deleted session is closed.

Fresh(epoch, born, gen, stops) == epoch <= gen /\ born <= stops /\ (born < stops => epoch < gen)
OpFresh(op, gen, stops) ==
  /\ op.kind \in {"submit", "resume", "reack", "select"} =>
       Fresh(op.cap.gen, op.cap.born, gen, stops)
  /\ op.kind = "release" => Fresh(op.epoch, op.cap.born, gen, stops)
StopInv ==
  /\ host.deleted => host.gate = "closed"
  /\ \/ host.deleted
     \/ /\ \A op \in Range(chain) : OpFresh(op, generation, hist.stops)
        /\ \A cap \in settling : Fresh(cap.gen, cap.born, generation, hist.stops)
        /\ priority.at = "interrupting" => Fresh(priority.epoch, priority.cap.born, generation, hist.stops)

\* No stop without a new generation, and neither ever goes back.
Advances ==
  /\ generation' \in Nat /\ hist'.stops \in Nat
  /\ generation <= generation' /\ hist.stops <= hist'.stops
  /\ hist.stops < hist'.stops => generation < generation'

LEMMA FreshStays ==
  ASSUME TypeOK, Advances
  PROVE  /\ \A g, b \in Nat : Fresh(g, b, generation, hist.stops) => Fresh(g, b, generation', hist'.stops)
         /\ \A cap \in Capture : Fresh(cap.gen, cap.born, generation, hist.stops) => Fresh(cap.gen, cap.born, generation', hist'.stops)
         /\ \A op \in Op : OpFresh(op, generation, hist.stops) => OpFresh(op, generation', hist'.stops)
<1>1. generation \in Nat /\ hist.stops \in Nat
  BY DEF TypeOK, History
<1>2. ASSUME NEW g \in Nat, NEW b \in Nat, Fresh(g, b, generation, hist.stops)
      PROVE  Fresh(g, b, generation', hist'.stops)
  BY <1>1, <1>2 DEF Advances, Fresh
<1>3. ASSUME NEW cap \in Capture, Fresh(cap.gen, cap.born, generation, hist.stops)
      PROVE  Fresh(cap.gen, cap.born, generation', hist'.stops)
  <2>1. cap.gen \in Nat /\ cap.born \in Nat
    BY DEF Capture
  <2> QED BY <1>2, <1>3, <2>1
<1>4. ASSUME NEW op \in Op, OpFresh(op, generation, hist.stops)
      PROVE  OpFresh(op, generation', hist'.stops)
  <2>1. CASE op.kind \in {"submit", "resume", "reack", "select"}
    <3>1. op.cap \in Capture
      BY <2>1, OpFields
    <3> QED BY <1>3, <1>4, <2>1, <3>1 DEF OpFresh
  <2>2. CASE op.kind = "release"
    <3>1. op.epoch \in Nat /\ op.cap.born \in Nat
      BY <2>2, OpFields DEF Capture
    <3> QED BY <1>2, <1>4, <2>2, <3>1 DEF OpFresh
  <2> QED BY <2>1, <2>2 DEF OpFresh
<1> QED BY <1>2, <1>3, <1>4

LEMMA PauseAdvances ==
  ASSUME TypeOK, NEW q, NEW h \in History, h.stops = hist.stops, Pause(q, h)
  PROVE  Advances
<1>1. generation \in Nat /\ hist.stops \in Nat
  BY DEF TypeOK, History
<1>2. generation' = generation + 1 /\ hist'.stops = hist.stops + 1
  BY DEF Pause, History
<1> QED BY <1>1, <1>2 DEF Advances

LEMMA StillAdvances ==
  ASSUME TypeOK, generation' = generation \/ generation' = generation + 1,
         hist'.stops = hist.stops
  PROVE  Advances
BY DEF TypeOK, History, Advances

\* Only deleting the session and leaving the application set the generation back.
LEMMA AllAdvance ==
  ASSUME TypeInv, Next, ~Delete, ~Crash
  PROVE  Advances
<1> USE DEF queueVars, turnVars, dataVars
<1>0. TypeOK /\ hist \in History
  BY DEF TypeInv, TypeOK
<1>1. CASE PauseWithError
  BY <1>0, <1>1, PauseAdvances DEF PauseWithError
<1>2. CASE UserNext
  <2>1. CASE Stop
    BY <1>0, <2>1, PauseAdvances DEF Stop
  <2> QED BY <1>0, <1>2, <2>1, CallEnqueues, StillAdvances
<1>3. CASE KeepOutcome
  <2>1. generation' = generation + 1 /\ hist'.stops = hist.stops + 1
    BY <1>0, <1>3 DEF KeepOutcome, History
  <2> QED BY <1>0, <2>1 DEF TypeOK, History, Advances
<1>4. CASE Maintain
  <2>1. [hist EXCEPT !.fence = hist.stops + 1] \in History
    <3>1. hist.stops + 1 \in Nat
      BY <1>0 DEF History
    <3> QED BY <1>0, <3>1 DEF History
  <2>2. [hist EXCEPT !.fence = hist.stops + 1].stops = hist.stops
    BY <1>0 DEF History
  <2> QED BY <1>0, <1>4, <2>1, <2>2, PauseAdvances DEF Maintain
<1>5. CASE HeadStep /\ ~PauseWithError
  <2>1. generation' = generation \/ generation' = generation + 1
    BY <1>5 DEF HeadStep, SubmitAdmit, SubmitEnds, SubmitCommit, RemoveItem, Detach, Resume,
       Reacknowledge, Select, Release, Dispatch, Complete
  <2>2. hist' = hist \/ \E t, w, x :
          hist' \in {[hist EXCEPT !.tainted = t], [hist EXCEPT !.withdrawn = w],
                    [hist EXCEPT !.superseded = x]}
    BY <1>5 DEF HeadStep, SubmitAdmit, SubmitEnds, SubmitCommit, RemoveItem, Detach, Resume,
       Reacknowledge, Select, Release, Dispatch, Complete, Released
  <2>3. hist'.stops = hist.stops
    BY <1>0, <2>2 DEF History
  <2> QED BY <1>0, <2>1, <2>3, StillAdvances
<1>6. CASE TurnEnds
  <2>1. PICK ok : hist' = IF ok THEN [hist EXCEPT !.succeeded = @ \cup {active.msg}] ELSE hist
    BY <1>6 DEF TurnEnds
  <2>2. hist'.stops = hist.stops
    BY <1>0, <2>1 DEF History
  <2> QED BY <1>0, <1>6, <2>2, StillAdvances DEF TurnEnds
<1>7. CASE \/ Load \/ ResumeSettled \/ Interrupted \/ PriorityEnds \/ FireWake \/ TurnCloses
           \/ GateMoves \/ BusyBegins \/ BusyEnds \/ AdmissionRefused
  <2>1. generation' = generation /\ hist' = hist
    BY <1>7 DEF Load, ResumeSettled, Interrupted, PriorityEnds, FireWake, TurnCloses, GateMoves,
       BusyBegins, BusyEnds, AdmissionRefused
  <2> QED BY <1>0, <2>1, StillAdvances
<1>8. CASE InterruptFails
  BY <1>1, <1>8 DEF InterruptFails
<1> QED BY <1>1, <1>2, <1>3, <1>4, <1>5, <1>6, <1>7, <1>8 DEF Next, QueueNext, HostNext

\* What is captured now is fresh.
LEMMA CapturedFresh ==
  ASSUME TypeOK
  PROVE  Fresh(Captured.gen, Captured.born, generation, hist.stops) /\ Captured \in Capture
BY CapturedType DEF TypeOK, History, Captured, Fresh

\* The session is deleted behind a gate that nobody opens again.
LEMMA DeletedStep ==
  ASSUME TypeInv, StopInv, Next
  PROVE  /\ host'.deleted => host'.gate = "closed"
         /\ host.deleted => host'.deleted
         /\ ~Delete /\ ~Crash => host'.deleted = host.deleted
<1> USE DEF queueVars, turnVars, dataVars
<1>0. host \in Host /\ (host.deleted => host.gate = "closed")
  BY DEF TypeInv, TypeOK, StopInv
<1>1. CASE Delete
  BY <1>0, <1>1 DEF Delete, Host
<1>2. CASE GateMoves
  <2>1. PICK gate \in {"open", "closed"} : host' = [host EXCEPT !.gate = gate]
    BY <1>2 DEF GateMoves
  <2> QED BY <1>0, <1>2, <2>1 DEF Host, GateMoves
<1>3. CASE Maintain
  <2>1. host' = [host EXCEPT !.gate = "maintenance", !.epoch = @ + 1] /\ ~host.deleted
    BY <1>3 DEF Maintain
  <2> QED BY <1>0, <2>1 DEF Host
<1>4. CASE BusyBegins \/ BusyEnds \/ AdmissionRefused \/ FireWake
  BY <1>0, <1>4 DEF BusyBegins, BusyEnds, AdmissionRefused, FireWake, Host
<1>5. CASE Crash
  BY <1>0, <1>5 DEF Crash, Host
<1>6. CASE UNCHANGED host
  BY <1>0, <1>6
<1>7. CASE HeadStep
  BY <1>6, <1>7 DEF HeadStep, SubmitAdmit, SubmitEnds, SubmitCommit, RemoveItem, Detach, Resume,
     Reacknowledge, Select, Release, Dispatch, Complete
<1>8. CASE UserNext
  BY <1>1, <1>6, <1>8, CallEnqueues DEF Stop
<1>9. CASE \/ Load \/ ResumeSettled \/ Interrupted \/ InterruptFails \/ PriorityEnds
           \/ KeepOutcome \/ TurnCloses \/ TurnEnds
  BY <1>6, <1>9 DEF Load, ResumeSettled, Interrupted, InterruptFails, PriorityEnds,
     KeepOutcome, TurnCloses, TurnEnds
<1> QED BY <1>1, <1>2, <1>3, <1>4, <1>5, <1>7, <1>8, <1>9 DEF Next, QueueNext, HostNext

\* Every operation that waits, and everything that will still join the chain, is fresh.
ChainFresh ==
  /\ \A op \in Range(chain) : OpFresh(op, generation, hist.stops)
  /\ \A cap \in settling : Fresh(cap.gen, cap.born, generation, hist.stops)
  /\ priority.at = "interrupting" => Fresh(priority.epoch, priority.cap.born, generation, hist.stops)

LEMMA FreshStep ==
  ASSUME TypeInv, ChainFresh, Next, ~Delete, ~Crash
  PROVE  ChainFresh'
<1> USE DEF queueVars, turnVars, dataVars
<1>0. /\ TypeOK /\ chain \in Seq(Op) /\ Range(chain) \subseteq Op /\ settling \subseteq Capture
      /\ priority \in [at: {"none", "selecting", "interrupting", "releasing", "ended"},
                       msg: MessageOrNone, epoch: Nat, cap: Capture]
  BY RangeOfSeq DEF TypeInv, TypeOK
<1>1. /\ \A op \in Range(chain) : OpFresh(op, generation', hist'.stops)
      /\ \A cap \in settling : Fresh(cap.gen, cap.born, generation', hist'.stops)
      /\ priority.at = "interrupting" => Fresh(priority.epoch, priority.cap.born, generation', hist'.stops)
  <2>1. priority.epoch \in Nat /\ priority.cap.born \in Nat
    BY <1>0 DEF Capture
  <2> QED BY <1>0, <2>1, AllAdvance, FreshStays DEF ChainFresh
<1>2. ASSUME chain' = chain
      PROVE  \A op \in Range(chain') : OpFresh(op, generation', hist'.stops)
  BY <1>1, <1>2
<1>3. ASSUME NEW op \in Op, OpFresh(op, generation', hist'.stops), Enqueue(op)
      PROVE  \A o \in Range(chain') : OpFresh(o, generation', hist'.stops)
  <2>1. Range(chain') = Range(chain) \cup {op}
    BY <1>0, <1>3, ChainGrows DEF Enqueue
  <2> QED BY <1>1, <1>3, <2>1
<1>4. ASSUME HeadStep, ~SubmitAdmit
      PROVE  \A op \in Range(chain') : OpFresh(op, generation', hist'.stops)
  <2>1. chain # << >> /\ chain' = Tail(chain)
    BY <1>4, HeadLoaded, HeadPops
  <2>2. Range(chain') \subseteq Range(chain)
    BY <1>0, <2>1, ChainShrinks
  <2> QED BY <1>1, <2>2
<1>5. ASSUME UNCHANGED settling
      PROVE  \A cap \in settling' : Fresh(cap.gen, cap.born, generation', hist'.stops)
  BY <1>1, <1>5
<1>6. ASSUME UNCHANGED priority \/ priority'.at # "interrupting"
      PROVE  (priority.at = "interrupting" => Fresh(priority.epoch, priority.cap.born, generation, hist.stops))'
  BY <1>1, <1>6
<1>7. CASE SubmitAdmit
  <2> DEFINE head == Head(chain)
             op == [head EXCEPT !.at = "commit"]
  <2>1. chain # << >> /\ head.kind = "submit" /\ chain' = <<op>> \o Tail(chain)
    BY <1>7 DEF SubmitAdmit, AtHead
  <2>2. /\ head \in Range(chain) /\ head \in Op
        /\ Tail(chain) \in Seq(Op) /\ Range(Tail(chain)) \subseteq Range(chain)
    BY <1>0, <2>1, ChainShrinks
  <2>3. op.kind = "submit" /\ op.cap = head.cap /\ op \in Op
    BY <2>1, <2>2 DEF Op
  <2>4. OpFresh(head, generation', hist'.stops)
    BY <1>1, <2>2
  <2>5. OpFresh(op, generation', hist'.stops)
    <3> HIDE DEF op
    <3> QED BY <2>1, <2>3, <2>4 DEF OpFresh
  <2>6. Range(<<op>> \o Tail(chain)) = Range(<<op>>) \cup Range(Tail(chain))
    <3>1. <<op>> \in Seq(Op)
      BY <2>3
    <3> HIDE DEF op
    <3> QED BY <2>2, <3>1, RangeConcatenation
  <2>7. Range(<<op>>) = {op}
    BY DEF Range
  <2>8. \A o \in Range(chain') : OpFresh(o, generation', hist'.stops)
    <3> HIDE DEF op, head
    <3> QED BY <1>1, <2>1, <2>2, <2>5, <2>6, <2>7
  <2> QED BY <1>5, <1>6, <1>7, <2>8 DEF SubmitAdmit, ChainFresh
<1>8. CASE Reacknowledge
  <2>1. Head(chain) \in Range(chain) /\ Head(chain).kind = "reack"
    BY <1>0, <1>8, ChainShrinks DEF Reacknowledge, AtHead
  <2>2. OpFresh(Head(chain), generation', hist'.stops)
    BY <1>1, <2>1
  <2>3. Fresh(Head(chain).cap.gen, Head(chain).cap.born, generation', hist'.stops)
    BY <2>1, <2>2 DEF OpFresh
  <2>4. settling' \subseteq settling \cup {Head(chain).cap}
    BY <1>8 DEF Reacknowledge
  <2>5. \A cap \in settling' : Fresh(cap.gen, cap.born, generation', hist'.stops)
    BY <1>1, <2>3, <2>4
  <2>6. HeadStep /\ ~SubmitAdmit /\ UNCHANGED priority
    BY <1>8 DEF HeadStep, Reacknowledge, SubmitAdmit, AtHead
  <2> QED BY <1>4, <1>6, <2>5, <2>6 DEF ChainFresh
<1>9. CASE Select
  <2>1. /\ Head(chain) \in Range(chain) /\ Head(chain) \in Op /\ Head(chain).kind = "select"
    BY <1>0, <1>9, ChainShrinks DEF Select, AtHead
  <2>2. OpFresh(Head(chain), generation, hist.stops) /\ Head(chain).cap \in Capture
    BY <2>1, OpFields DEF ChainFresh
  <2>3. \/ priority' = [priority EXCEPT !.at = "ended"]
        \/ /\ Head(chain).cap.gen = generation /\ generation' = generation + 1
           /\ \E x : hist' = [hist EXCEPT !.superseded = x]
           /\ priority' = [priority EXCEPT !.at = "interrupting", !.epoch = generation + 1,
                                           !.cap = Head(chain).cap]
    BY <1>9 DEF Select, Ended
  <2>4. (priority.at = "interrupting" => Fresh(priority.epoch, priority.cap.born, generation, hist.stops))'
    <3>1. CASE priority' = [priority EXCEPT !.at = "ended"]
      <4>1. priority'.at = "ended"
        BY <1>0, <3>1
      <4> QED BY <4>1
    <3>2. CASE /\ Head(chain).cap.gen = generation /\ generation' = generation + 1
               /\ \E x : hist' = [hist EXCEPT !.superseded = x]
               /\ priority' = [priority EXCEPT !.at = "interrupting", !.epoch = generation + 1,
                                               !.cap = Head(chain).cap]
      <4>1. priority'.epoch = generation' /\ priority'.cap.born = Head(chain).cap.born
        BY <1>0, <3>2
      <4>2. hist'.stops = hist.stops /\ hist.stops \in Nat /\ generation \in Nat
        BY <1>0, <3>2 DEF TypeOK, History
      <4>3. Head(chain).cap.born = hist.stops
        BY <2>1, <2>2, <3>2, <4>2 DEF OpFresh, Fresh, Capture
      <4> QED BY <3>2, <4>1, <4>2, <4>3 DEF Fresh
    <3> QED BY <2>3, <3>1, <3>2
  <2>5. HeadStep /\ ~SubmitAdmit /\ UNCHANGED settling
    BY <1>9 DEF HeadStep, Select, SubmitAdmit, AtHead
  <2> QED BY <1>4, <1>5, <2>4, <2>5 DEF ChainFresh
<1>10. CASE HeadStep /\ ~SubmitAdmit /\ ~Reacknowledge /\ ~Select
  <2>1. UNCHANGED settling /\ (UNCHANGED priority \/ priority' = [priority EXCEPT !.at = "ended"])
    BY <1>10 DEF HeadStep, SubmitEnds, SubmitCommit, RemoveItem, Detach, Resume, Release, Ended,
       Dispatch, Complete
  <2>2. UNCHANGED priority \/ priority'.at # "interrupting"
    BY <1>0, <2>1
  <2> QED BY <1>4, <1>5, <1>6, <1>10, <2>1, <2>2 DEF ChainFresh
<1>11. CASE UserNext
  <2>1. CASE Stop
    BY <1>2, <1>5, <1>6, <2>1 DEF Stop, ChainFresh
  <2>2. CASE ~Stop
    <3>1. PICK op \in Op :
            /\ Enqueue(op)
            /\ op.kind \in {"submit", "resume", "reack", "select"} => op.cap = Captured
            /\ op.kind # "release"
            /\ priority' # priority => priority'.at = "selecting"
      BY <1>11, <2>2, CallEnqueues
    <3>2. OpFresh(op, generation, hist.stops)
      BY <1>0, <3>1, CapturedFresh DEF OpFresh
    <3>3. OpFresh(op, generation', hist'.stops)
      BY <1>0, <3>2, AllAdvance, FreshStays
    <3>4. UNCHANGED settling
      BY <1>11, <2>2, CallEnqueues
    <3> QED BY <1>3, <1>5, <1>6, <3>1, <3>3, <3>4 DEF ChainFresh
  <2> QED BY <2>1, <2>2
<1>12. CASE ResumeSettled
  <2>1. PICK cap \in settling : /\ settling' = settling \ {cap}
                                /\ \/ Enqueue([kind |-> "resume", cap |-> cap])
                                   \/ chain' = chain
    BY <1>12 DEF ResumeSettled
  <2> DEFINE op == [kind |-> "resume", cap |-> cap]
  <2>2. op \in Op /\ op.kind = "resume" /\ op.cap = cap
    BY <1>0 DEF Op
  <2>3. OpFresh(op, generation', hist'.stops)
    <3> HIDE DEF op
    <3> QED BY <1>1, <2>2 DEF OpFresh
  <2>4. \A o \in Range(chain') : OpFresh(o, generation', hist'.stops)
    BY <1>2, <1>3, <2>1, <2>2, <2>3
  <2> QED BY <1>1, <1>6, <1>12, <2>1, <2>4 DEF ResumeSettled, ChainFresh
<1>13. CASE Interrupted
  <2> DEFINE op == [kind |-> "release", epoch |-> priority.epoch, cap |-> priority.cap]
  <2>1. /\ op \in Op /\ op.kind = "release" /\ op.epoch = priority.epoch /\ op.cap = priority.cap
    BY <1>0 DEF Op
  <2>2. Fresh(priority.epoch, priority.cap.born, generation', hist'.stops)
    BY <1>1, <1>13 DEF Interrupted
  <2>3. OpFresh(op, generation', hist'.stops)
    <3> HIDE DEF op
    <3> QED BY <2>1, <2>2 DEF OpFresh
  <2>4. priority'.at # "interrupting"
    BY <1>0, <1>13 DEF Interrupted
  <2> QED BY <1>3, <1>5, <1>6, <1>13, <2>1, <2>3, <2>4 DEF Interrupted, ChainFresh
<1>14. CASE FireWake \/ TurnEnds
  <2>1. \E op \in Op : Enqueue(op) /\ op.kind \in {"dispatch", "complete"}
    <3>1. [kind |-> "dispatch"] \in Op /\ [kind |-> "complete"] \in Op
      BY DEF Op
    <3> QED BY <1>14, <3>1 DEF FireWake, TurnEnds
  <2>2. \A o \in Range(chain') : OpFresh(o, generation', hist'.stops)
    BY <1>3, <2>1 DEF OpFresh
  <2> QED BY <1>5, <1>6, <1>14, <2>2 DEF FireWake, TurnEnds, ChainFresh
<1>15. CASE InterruptFails \/ PriorityEnds
  <2>1. UNCHANGED <<chain, settling>> /\ priority'.at # "interrupting"
    <3>1. UNCHANGED <<chain, settling>>
      BY <1>15 DEF InterruptFails, PriorityEnds
    <3>2. priority' = [priority EXCEPT !.at = "ended"] \/ priority' = NoPriority
      BY <1>15 DEF InterruptFails, PriorityEnds, Ended
    <3> QED BY <1>0, <3>1, <3>2 DEF NoPriority
  <2> QED BY <1>2, <1>5, <1>6, <2>1 DEF ChainFresh
<1>16. CASE \/ Load \/ KeepOutcome \/ TurnCloses \/ GateMoves \/ Maintain
            \/ BusyBegins \/ BusyEnds \/ AdmissionRefused
  <2>1. UNCHANGED <<chain, settling, priority>>
    BY <1>16 DEF Load, KeepOutcome, TurnCloses, GateMoves, Maintain, BusyBegins, BusyEnds,
       AdmissionRefused
  <2> QED BY <1>2, <1>5, <1>6, <2>1 DEF ChainFresh
<1> QED BY <1>7, <1>8, <1>9, <1>10, <1>11, <1>12, <1>13, <1>14, <1>15, <1>16
        DEF Next, QueueNext, HostNext

LEMMA StopStep ==
  ASSUME TypeInv, StopInv, [Next]_vars
  PROVE  StopInv'
<1>1. CASE UNCHANGED vars
  <2>1. UNCHANGED <<chain, generation, priority, settling, host, hist>>
    BY <1>1 DEF vars, turnVars
  <2> QED BY <2>1 DEF StopInv, OpFresh, Fresh
<1>2. CASE Next /\ (Delete \/ Crash)
  <2>1. CASE Delete
    <3>1. host'.deleted
      BY <2>1 DEF Delete, TypeInv, TypeOK, Host
    <3> QED BY <1>2, <3>1, DeletedStep DEF StopInv
  <2>2. CASE Crash
    <3>1. Range(chain') = {} /\ settling' = {} /\ priority'.at = "none"
      BY <2>2 DEF Crash, Range, NoPriority
    <3> QED BY <1>2, <3>1, DeletedStep DEF StopInv
  <2> QED BY <1>2, <2>1, <2>2
<1>3. CASE Next /\ ~Delete /\ ~Crash
  <2>1. CASE host.deleted
    BY <1>3, <2>1, DeletedStep DEF StopInv
  <2>2. CASE ~host.deleted
    <3>1. ChainFresh'
      BY <1>3, <2>2, FreshStep DEF StopInv, ChainFresh
    <3> QED BY <1>3, <3>1, DeletedStep DEF StopInv, ChainFresh
  <2> QED BY <2>1, <2>2
<1> QED BY <1>1, <1>2, <1>3

\* The queue starts to run by itself only in three places, each behind its checks.
LEMMA Unpauses ==
  ASSUME TypeInv, Next, loaded, loaded', mem.paused, ~mem'.paused
  PROVE  /\ chain # << >> /\ host.gate = "open" /\ (SubmitCommit \/ Resume \/ Release)
         /\ \/ Head(chain).kind \in {"submit", "resume"} /\ Head(chain).cap.gen = generation
            \/ Head(chain).kind = "release" /\ Head(chain).epoch = generation
<1> USE DEF queueVars, turnVars, dataVars
<1>0. mem \in Queue /\ mem.paused = TRUE
  BY DEF TypeInv, TypeOK, WellFormed, Queue
<1>1. CASE SubmitCommit
  <2>1. PICK kept : mem' = [mem EXCEPT !.items = Append(mem.items, Len(content) + 1),
                                       !.receipts = kept,
                                       !.paused = @ /\ ~Resumes(Head(chain).cap),
                                       !.note = IF Resumes(Head(chain).cap) THEN "none" ELSE @]
    BY <1>1 DEF SubmitCommit, Commit
  <2>2. mem'.paused = (mem.paused /\ ~Resumes(Head(chain).cap))
    BY <1>0, <2>1 DEF Queue
  <2>3. Resumes(Head(chain).cap)
    BY <1>0, <2>2
  <2> QED BY <1>1, <2>3 DEF SubmitCommit, AtHead, Resumes, Admitted
<1>2. CASE Resume
  BY <1>0, <1>2 DEF Resume, AtHead, Admitted, CommitFails
<1>3. CASE Release
  <2>1. CASE PauseWithError
    BY <1>0, <2>1 DEF PauseWithError, Pause, Queue
  <2> QED BY <1>0, <1>3, <2>1 DEF Release, AtHead, Admitted
<1>4. ASSUME UNCHANGED mem \/ PauseWithError
      PROVE  FALSE
  BY <1>0, <1>4 DEF PauseWithError, Pause, Queue
<1>5. ASSUME NEW m, NEW ok, Commit(Completed(m, ok))
      PROVE  FALSE
  BY <1>0, <1>5 DEF Commit, Completed, Queue
<1>6. ASSUME NEW i, NEW r, NEW x, Commit([mem EXCEPT !.items = i]) \/ Commit([mem EXCEPT !.sending = x])
                          \/ Commit([mem EXCEPT !.paused = TRUE, !.items = r])
      PROVE  FALSE
  BY <1>0, <1>6 DEF Commit, Queue
<1>7. CASE HeadStep /\ ~SubmitCommit /\ ~Resume /\ ~Release
  BY <1>4, <1>5, <1>6, <1>7 DEF HeadStep, SubmitAdmit, SubmitEnds, RemoveItem, Detach,
     Reacknowledge, Select, Dispatch, Complete, CommitFails
<1>8. CASE UserNext
  <2>1. CASE Stop
    BY <1>0, <2>1 DEF Stop, Pause, Queue
  <2>2. CASE Delete
    BY <2>2 DEF Delete
  <2> QED BY <1>4, <1>8, <2>1, <2>2, CallEnqueues
<1>9. CASE KeepOutcome \/ Maintain
  BY <1>0, <1>9 DEF KeepOutcome, Still, Maintain, Pause, Queue
<1>10. CASE Load \/ Crash
  BY <1>10 DEF Load, Crash
<1>11. CASE \/ ResumeSettled \/ Interrupted \/ InterruptFails \/ PriorityEnds \/ FireWake
            \/ TurnCloses \/ TurnEnds \/ GateMoves \/ BusyBegins \/ BusyEnds \/ AdmissionRefused
  BY <1>4, <1>11 DEF ResumeSettled, Interrupted, InterruptFails, PriorityEnds, FireWake,
     TurnCloses, TurnEnds, GateMoves, BusyBegins, BusyEnds, AdmissionRefused
<1> QED BY <1>1, <1>2, <1>3, <1>7, <1>8, <1>9, <1>10, <1>11 DEF Next, QueueNext, HostNext

LEMMA StopInit ==
  ASSUME Init
  PROVE  StopInv
BY DEF Init, StopInv, NoPriority, Range

\* A submission, a resume or a sendNow that the user asked for before a stop, an interrupted
\* maintenance or a failed save never lets the queue run after it, whatever it waited for in
\* between and however often.
THEOREM StopsPrevail == Spec => StopWins
<1> DEFINE A == loaded /\ loaded' /\ mem.paused /\ ~mem'.paused => Caller.born = hist.stops
<1>1. TypeInv /\ StopInv /\ [Next]_vars => [A]_vars
  <2> SUFFICES ASSUME TypeInv, StopInv, Next, loaded, loaded', mem.paused, ~mem'.paused
               PROVE  Caller.born = hist.stops
    OBVIOUS
  <2>1. /\ chain # << >> /\ ~host.deleted
        /\ \/ Head(chain).kind \in {"submit", "resume"} /\ Head(chain).cap.gen = generation
           \/ Head(chain).kind = "release" /\ Head(chain).epoch = generation
    BY Unpauses DEF StopInv
  <2>2. /\ Head(chain) \in Range(chain) /\ Head(chain) \in Op /\ generation \in Nat
        /\ hist.stops \in Nat
    BY <2>1, ChainShrinks DEF TypeInv, TypeOK, History
  <2>3. OpFresh(Head(chain), generation, hist.stops) /\ Head(chain).cap.born \in Nat
    BY <2>1, <2>2, OpFields DEF StopInv, Capture
  <2> QED BY <2>1, <2>2, <2>3 DEF OpFresh, Fresh, Caller
<1>2. Spec => []StopInv
  BY StopInit, StopStep, TypeInvariant, PTL DEF Spec
<1>3. [][A]_vars => StopWins
  BY PTL DEF StopWins
<1> QED BY <1>1, <1>2, <1>3, TypeInvariant, PTL DEF Spec

-----------------------------------------------------------------------------
\* What the queue keeps.  First the sequences: no message is in one of them twice, so that
\* removing a position removes its message and nothing else.

LEMMA RemoveAtElements ==
  ASSUME NEW S, NEW s \in Seq(S), NEW i \in 1..Len(s)
  PROVE  /\ DOMAIN RemoveAt(s, i) = 1..(Len(s) - 1)
         /\ \A j \in 1..(Len(s) - 1) : RemoveAt(s, i)[j] = IF j < i THEN s[j] ELSE s[j + 1]
<1> DEFINE a == SubSeq(s, 1, i - 1)
           b == SubSeq(s, i + 1, Len(s))
<1>0. i \in Int /\ Len(s) \in Nat /\ \A j \in 1..Len(s) : s[j] \in S
  BY ElementOfSeq, LenProperties
<1>1. a \in Seq(S) /\ Len(a) = i - 1 /\ \A j \in 1..(i - 1) : a[j] = s[j]
  BY <1>0, SubSeqProperties
<1>2. b \in Seq(S) /\ Len(b) = Len(s) - i /\ \A j \in 1..(Len(s) - i) : b[j] = s[i + j]
  BY <1>0, SubSeqProperties
<1> HIDE DEF a, b
<1>3. /\ Len(a \o b) = Len(s) - 1 /\ a \o b \in Seq(S)
      /\ \A j \in 1..(Len(s) - 1) : (a \o b)[j] = IF j <= i - 1 THEN a[j] ELSE b[j - (i - 1)]
  <2>1. /\ a \o b \in Seq(S) /\ Len(a \o b) = Len(a) + Len(b)
        /\ \A j \in 1..(Len(a) + Len(b)) :
             (a \o b)[j] = IF j <= Len(a) THEN a[j] ELSE b[j - Len(a)]
    BY <1>1, <1>2, ConcatProperties
  <2>2. Len(a) + Len(b) = Len(s) - 1
    BY <1>0, <1>1, <1>2
  <2> QED BY <1>1, <2>1, <2>2
<1>4. ASSUME NEW j \in 1..(Len(s) - 1)
      PROVE  (a \o b)[j] = IF j < i THEN s[j] ELSE s[j + 1]
  <2>1. CASE j < i
    BY <1>0, <1>1, <1>3, <2>1
  <2>2. CASE ~(j < i)
    <3>1. j - (i - 1) \in 1..(Len(s) - i) /\ i + (j - (i - 1)) = j + 1 /\ ~(j <= i - 1)
      BY <1>0, <2>2
    <3> QED BY <1>2, <1>3, <2>2, <3>1
  <2> QED BY <2>1, <2>2
<1>5. RemoveAt(s, i) = a \o b
  BY DEF RemoveAt, a, b
<1> QED BY <1>3, <1>4, <1>5, LenProperties

LEMMA RemoveAtRange ==
  ASSUME NEW S, NEW s \in Seq(S), NEW i \in 1..Len(s)
  PROVE  /\ Range(RemoveAt(s, i)) \subseteq Range(s)
         /\ Range(s) \ {s[i]} \subseteq Range(RemoveAt(s, i))
         /\ IsInjective(s) => /\ IsInjective(RemoveAt(s, i))
                              /\ Range(RemoveAt(s, i)) = Range(s) \ {s[i]}
<1> DEFINE r == RemoveAt(s, i)
           n == Len(s) - 1
<1>0. Len(s) \in Nat /\ DOMAIN s = 1..Len(s) /\ i \in Int /\ n \in Int
  BY LenProperties
<1>1. DOMAIN r = 1..n /\ \A j \in 1..n : r[j] = IF j < i THEN s[j] ELSE s[j + 1]
  BY RemoveAtElements
<1> HIDE DEF r
<1>2. \A j \in 1..n : \E l \in 1..Len(s) : /\ r[j] = s[l] /\ l # i
                                           /\ l = IF j < i THEN j ELSE j + 1
  <2> SUFFICES ASSUME NEW j \in 1..n
               PROVE  \E l \in 1..Len(s) : /\ r[j] = s[l] /\ l # i
                                           /\ l = IF j < i THEN j ELSE j + 1
    OBVIOUS
  <2> WITNESS (IF j < i THEN j ELSE j + 1) \in 1..Len(s)
  <2> QED BY <1>0, <1>1
<1>3. Range(r) \subseteq Range(s)
  BY <1>0, <1>1, <1>2 DEF Range
<1>4. ASSUME NEW x \in Range(s), x # s[i]
      PROVE  x \in Range(r)
  <2>1. PICK l \in 1..Len(s) : x = s[l]
    BY <1>0 DEF Range
  <2>2. l < i \/ l > i
    BY <1>0, <1>4, <2>1
  <2>3. CASE l < i
    <3>1. l \in 1..n /\ r[l] = s[l]
      BY <1>0, <1>1, <2>3
    <3> QED BY <1>1, <2>1, <3>1 DEF Range
  <2>4. CASE l > i
    <3>1. l - 1 \in 1..n /\ ~(l - 1 < i) /\ (l - 1) + 1 = l
      BY <1>0, <2>4
    <3>2. r[l - 1] = s[l]
      BY <1>1, <3>1
    <3> QED BY <1>1, <2>1, <3>1, <3>2 DEF Range
  <2> QED BY <2>2, <2>3, <2>4
<1>5. ASSUME IsInjective(s)
      PROVE  IsInjective(r) /\ s[i] \notin Range(r)
  <2>1. \A j, l \in 1..Len(s) : s[j] = s[l] => j = l
    BY <1>0, <1>5 DEF IsInjective
  <2>2. s[i] \notin Range(r)
    BY <1>1, <1>2, <2>1 DEF Range
  <2>3. ASSUME NEW j \in 1..n, NEW k \in 1..n, r[j] = r[k]
        PROVE  j = k
    <3>1. PICK l \in 1..Len(s) : r[j] = s[l] /\ l = IF j < i THEN j ELSE j + 1
      BY <1>2
    <3>2. PICK m \in 1..Len(s) : r[k] = s[m] /\ m = IF k < i THEN k ELSE k + 1
      BY <1>2
    <3>3. l = m
      BY <2>1, <2>3, <3>1, <3>2
    <3> QED BY <1>0, <3>1, <3>2, <3>3
  <2> QED BY <1>1, <2>2, <2>3 DEF IsInjective
<1> QED BY <1>3, <1>4, <1>5 DEF r

\* Taking a message out leaves the others (items.filter), moving it to the front keeps all.
LEMMA WithoutRange ==
  ASSUME NEW S, NEW s \in Seq(S), IsInjective(s), NEW m
  PROVE  IsInjective(Without(s, m)) /\ Range(Without(s, m)) = Range(s) \ {m}
<1>1. CASE m \in Range(s)
  <2>1. Position(s, m) \in 1..Len(s) /\ s[Position(s, m)] = m
    <3>1. \E i \in DOMAIN s : s[i] = m
      BY <1>1 DEF Range
    <3> QED BY <1>1, <3>1, PositionType DEF Position
  <2> QED BY <1>1, <2>1, RemoveAtRange DEF Without
<1>2. CASE m \notin Range(s)
  BY <1>2 DEF Without
<1> QED BY <1>1, <1>2

LEMMA ToFrontRange ==
  ASSUME NEW S, NEW s \in Seq(S), IsInjective(s), NEW m \in Range(s)
  PROVE  IsInjective(ToFront(s, m)) /\ Range(ToFront(s, m)) = Range(s)
<1> DEFINE r == RemoveAt(s, Position(s, m))
<1>1. Position(s, m) \in 1..Len(s) /\ s[Position(s, m)] = m
  <2>1. \E i \in DOMAIN s : s[i] = m
    BY DEF Range
  <2> QED BY <2>1, PositionType DEF Position
<1>2. r \in Seq(S) /\ IsInjective(r) /\ Range(r) = Range(s) \ {m}
  BY <1>1, RemoveAtType, RemoveAtRange
<1>3. m \in S
  BY RangeOfSeq
<1> HIDE DEF r
<1>4. <<m>> \in Seq(S) /\ Range(<<m>>) = {m} /\ Len(<<m>>) = 1 /\ <<m>>[1] = m
  BY <1>3 DEF Range
<1>5. /\ <<m>> \o r \in Seq(S) /\ Len(<<m>> \o r) = 1 + Len(r)
      /\ (<<m>> \o r)[1] = m
      /\ \A i \in 2..(1 + Len(r)) : (<<m>> \o r)[i] = r[i - 1]
  <2> DEFINE one == <<m>>
  <2>1. one \in Seq(S) /\ Len(one) = 1 /\ one[1] = m /\ Len(r) \in Nat
    BY <1>2, <1>4, LenProperties
  <2> HIDE DEF one
  <2>2. /\ one \o r \in Seq(S) /\ Len(one \o r) = 1 + Len(r)
        /\ \A i \in 1..(1 + Len(r)) : (one \o r)[i] = IF i <= 1 THEN one[i] ELSE r[i - 1]
    <3>1. /\ one \o r \in Seq(S) /\ Len(one \o r) = Len(one) + Len(r)
          /\ \A i \in 1..(Len(one) + Len(r)) :
               (one \o r)[i] = IF i <= Len(one) THEN one[i] ELSE r[i - Len(one)]
      <4>1. one \in Seq(S) /\ r \in Seq(S)
        BY <1>2, <2>1
      <4> QED BY ONLY <4>1, ConcatProperties
    <3> QED BY <2>1, <3>1
  <2>3. (one \o r)[1] = m
    BY <2>1, <2>2
  <2>4. \A i \in 2..(1 + Len(r)) : (one \o r)[i] = r[i - 1]
    BY <2>1, <2>2
  <2> QED BY <2>2, <2>3, <2>4 DEF one
<1>6. Range(<<m>> \o r) = Range(s)
  <2>1. Range(<<m>> \o r) = Range(<<m>>) \cup Range(r)
    <3>1. <<m>> \in Seq(S) /\ r \in Seq(S)
      BY <1>2, <1>4
    <3> QED BY ONLY <3>1, RangeConcatenation
  <2> QED BY <1>2, <1>4, <2>1
<1>7. IsInjective(<<m>> \o r)
  <2> DEFINE t == <<m>> \o r
  <2>1. Len(r) \in Nat /\ DOMAIN t = 1..(1 + Len(r)) /\ DOMAIN r = 1..Len(r)
    BY <1>2, <1>5, LenProperties
  <2>2. \A i \in 2..(1 + Len(r)) : t[i] = r[i - 1] /\ i - 1 \in DOMAIN r /\ t[i] # m
    <3> SUFFICES ASSUME NEW i \in 2..(1 + Len(r))
                 PROVE  t[i] = r[i - 1] /\ i - 1 \in DOMAIN r /\ t[i] # m
      OBVIOUS
    <3>1. i - 1 \in DOMAIN r
      BY <2>1
    <3>2. r[i - 1] \in Range(r)
      BY <3>1 DEF Range
    <3> QED BY <1>2, <1>5, <3>1, <3>2
  <2>3. t[1] = m
    BY <1>5
  <2> HIDE DEF t
  <2>4. ASSUME NEW i \in DOMAIN t, NEW j \in DOMAIN t, t[i] = t[j]
        PROVE  i = j
    <3>1. i = 1 \/ i \in 2..(1 + Len(r))
      BY <2>1
    <3>2. j = 1 \/ j \in 2..(1 + Len(r))
      BY <2>1
    <3>3. CASE i = 1 \/ j = 1
      BY <2>2, <2>3, <2>4, <3>1, <3>2, <3>3
    <3>4. CASE i \in 2..(1 + Len(r)) /\ j \in 2..(1 + Len(r))
      <4>1. r[i - 1] = r[j - 1] /\ i - 1 \in DOMAIN r /\ j - 1 \in DOMAIN r
        BY <2>2, <2>4, <3>4
      <4>2. i - 1 = j - 1
        BY <1>2, <4>1 DEF IsInjective
      <4> QED BY <3>4, <4>2
    <3> QED BY <3>1, <3>2, <3>3, <3>4
  <2>5. IsInjective(t)
    BY <2>4 DEF IsInjective
  <2> QED BY <2>5 DEF t
<1> QED BY <1>6, <1>7 DEF ToFront, r

LEMMA AppendRange ==
  ASSUME NEW S, NEW s \in Seq(S), NEW e \in S
  PROVE  /\ Range(Append(s, e)) = Range(s) \cup {e}
         /\ IsInjective(s) /\ e \notin Range(s) => IsInjective(Append(s, e))
<1>1. Range(Append(s, e)) = Range(s) \cup {e}
  BY ChainGrows
<1>2. ASSUME IsInjective(s), e \notin Range(s)
      PROVE  IsInjective(Append(s, e))
  <2>1. /\ DOMAIN Append(s, e) = 1..(Len(s) + 1) /\ Len(s) \in Nat /\ DOMAIN s = 1..Len(s)
        /\ Append(s, e)[Len(s) + 1] = e
        /\ \A i \in 1..Len(s) : Append(s, e)[i] = s[i]
    BY AppendProperties, LenProperties
  <2>2. \A i \in 1..Len(s) : s[i] # e
    BY <1>2, <2>1 DEF Range
  <2>3. \A i, j \in 1..Len(s) : s[i] = s[j] => i = j
    BY <1>2, <2>1 DEF IsInjective
  <2>4. ASSUME NEW i \in 1..(Len(s) + 1), NEW j \in 1..(Len(s) + 1),
               Append(s, e)[i] = Append(s, e)[j]
        PROVE  i = j
    <3>1. (i = Len(s) + 1 \/ i \in 1..Len(s)) /\ (j = Len(s) + 1 \/ j \in 1..Len(s))
      BY <2>1
    <3> QED BY <2>1, <2>2, <2>3, <2>4, <3>1
  <2> QED BY <2>1, <2>4 DEF IsInjective
<1> QED BY <1>1, <1>2

\* A sequence without repetitions is no longer than one that has all its elements.
LEMMA NoLonger ==
  ASSUME NEW S, NEW s \in Seq(S), NEW t \in Seq(S), IsInjective(s), Range(s) \subseteq Range(t)
  PROVE  Len(s) <= Len(t)
<1> DEFINE T == Range(t)
           f == [i \in 1..Len(s) |-> s[i]]
           g == [i \in 1..Len(t) |-> t[i]]
<1>0. /\ Len(s) \in Nat /\ Len(t) \in Nat
      /\ DOMAIN s = 1..Len(s) /\ DOMAIN t = 1..Len(t)
  BY LenProperties
<1>1. /\ f \in [1..Len(s) -> T] /\ \A i, j \in 1..Len(s) : f[i] = f[j] => i = j
      /\ g \in [1..Len(t) -> T] /\ \A x \in T : \E i \in 1..Len(t) : g[i] = x
  <2>1. \A i \in 1..Len(s) : s[i] \in T
    BY <1>0 DEF Range
  <2>2. \A i, j \in 1..Len(s) : s[i] = s[j] => i = j
    BY <1>0 DEF IsInjective
  <2>3. /\ \A i \in 1..Len(t) : t[i] \in T
        /\ \A x \in T : \E i \in 1..Len(t) : t[i] = x
    BY <1>0 DEF Range
  <2> QED BY <2>1, <2>2, <2>3
<1> HIDE DEF f, g
<1>2. IsFiniteSet(1..Len(s)) /\ Cardinality(1..Len(s)) = Len(s)
  <2>1. 1 \in Int /\ Len(s) \in Int
    BY <1>0
  <2>2. Cardinality(1..Len(s)) = IF 1 > Len(s) THEN 0 ELSE Len(s) - 1 + 1
    BY <2>1, FS_Interval
  <2>3. IsFiniteSet(1..Len(s))
    BY <2>1, FS_Interval
  <2>4. (IF 1 > Len(s) THEN 0 ELSE Len(s) - 1 + 1) = Len(s)
    BY <1>0
  <2> QED BY <2>2, <2>3, <2>4
<1>3. IsFiniteSet(1..Len(t)) /\ Cardinality(1..Len(t)) = Len(t)
  <2>1. 1 \in Int /\ Len(t) \in Int
    BY <1>0
  <2>2. Cardinality(1..Len(t)) = IF 1 > Len(t) THEN 0 ELSE Len(t) - 1 + 1
    BY <2>1, FS_Interval
  <2>3. IsFiniteSet(1..Len(t))
    BY <2>1, FS_Interval
  <2>4. (IF 1 > Len(t) THEN 0 ELSE Len(t) - 1 + 1) = Len(t)
    BY <1>0
  <2> QED BY <2>2, <2>3, <2>4
<1>4. g \in Surjection(1..Len(t), T)
  BY <1>1 DEF Surjection
<1>5. f \in Injection(1..Len(s), T)
  BY <1>1 DEF Injection, IsInjective
<1> HIDE DEF T
<1>6. IsFiniteSet(T) /\ Cardinality(T) <= Len(t)
  BY <1>3, <1>4, FS_Surjection
<1>7. Len(s) <= Cardinality(T)
  BY <1>2, <1>5, <1>6, FS_Injection
<1>8. Cardinality(T) \in Nat
  BY <1>6, FS_CardinalityType
<1> QED BY <1>0, <1>6, <1>7, <1>8

\* The receipt that is evicted is never the one of a queued message: as the queue is capped
\* below the receipts, one of them is of no use any more, and splice(-1, 1) is never reached.
LEMMA TrimmedKeepsLive ==
  ASSUME NEW S, NEW s \in Seq(S), IsInjective(s), NEW items \in Seq(S), Len(items) <= ItemCap,
         Range(items) \subseteq Range(s), NEW t \in Trimmed(s, Range(items))
  PROVE  IsInjective(t) /\ Range(t) \subseteq Range(s) /\ Range(items) \subseteq Range(t)
<1> DEFINE dead == {k \in DOMAIN s : s[k] \notin Range(items)}
<1>0. /\ Len(s) \in Nat /\ DOMAIN s = 1..Len(s) /\ Len(items) \in Nat
      /\ ItemCap \in Nat /\ ReceiptCap \in Nat /\ ItemCap <= ReceiptCap
  BY CapsAssumption, LenProperties
<1>1. CASE Len(s) <= ReceiptCap
  BY <1>1 DEF Trimmed
<1>2. CASE ~(Len(s) <= ReceiptCap)
  <2>1. dead # {}
    <3> SUFFICES ASSUME dead = {} PROVE FALSE
      OBVIOUS
    <3>1. Range(s) \subseteq Range(items)
      BY DEF Range
    <3>2. Len(s) <= Len(items)
      BY <3>1, NoLonger
    <3> QED BY <1>0, <1>2, <3>2
  <2>2. PICK k \in dead : t = RemoveAt(s, k)
    BY <1>2, <2>1 DEF Trimmed
  <2>3. k \in 1..Len(s) /\ s[k] \notin Range(items)
    BY <1>0, <2>2
  <2>4. IsInjective(RemoveAt(s, k)) /\ Range(RemoveAt(s, k)) = Range(s) \ {s[k]}
    BY <2>3, RemoveAtRange
  <2> QED BY <2>2, <2>3, <2>4
<1> QED BY <1>1, <1>2

\* Memory and file name the same messages, in the same order: what can differ until the next
\* save is that the queue is paused, why, and what is being sent.
Mirrored ==
  /\ loaded => mem.items = disk.items /\ mem.receipts = disk.receipts
  /\ ~loaded => mem = EmptyQueue

\* Nothing runs in a queue that is not in memory.
Present == ~loaded => ~HasActive

\* Every queued message has its receipt, and whatever the queue names was accepted.
Numbered ==
  /\ Live(disk) \subseteq Range(disk.receipts) /\ Range(disk.receipts) \subseteq DOMAIN content
  /\ disk.sending \cup mem.sending \cup hist.tainted \subseteq DOMAIN content
  /\ IsInjective(disk.items) /\ IsInjective(disk.receipts)

\* Queued messages answer different requests and share no file, and their files exist.
Apart ==
  \A m, n \in Live(disk) :
    /\ \A f \in FilesOf(m) : files[f] # "gone"
    /\ m # n => content[m].req # content[n].req /\ FilesOf(m) \cap FilesOf(n) = {}

\* What an admitted submission was admitted for still holds when it is committed: nobody else
\* answers its request, or carries its files.
Clear(op) ==
  op.kind = "submit" /\ op.at = "commit" =>
    /\ \A m \in Range(disk.receipts) : content[m].req # op.req
    /\ \A m \in Live(disk) : FilesOf(m) \cap Attached[op.body] = {}
HeadClear == chain # << >> => Clear(Head(chain))

\* An outcome that is on its way to the file says what the turn came to.
Honest ==
  /\ active.ok => active.msg \in hist.succeeded
  /\ failedAck.ok => failedAck.msg \in hist.succeeded
  /\ \A op \in Range(chain) : op.kind = "reack" /\ op.ok => op.msg \in hist.succeeded
  /\ replaced \subseteq hist.superseded

KeepInv ==
  /\ Mirrored /\ Present /\ Numbered /\ Apart /\ HeadClear /\ Honest
  /\ AcceptedNotLost /\ NothingReplayedUnasked

\* The ways a message may leave the queue.
Accounted(m) ==
  \/ host'.deleted
  \/ m \in hist'.succeeded \cup hist'.superseded \cup hist'.withdrawn

\* All steps but the commit of a submission: they take messages out, each for a reason, and a
\* queue that goes on by itself has none that may have been executed.
Narrows ==
  /\ Mirrored' /\ content' = content
  /\ IsInjective(disk'.items) /\ IsInjective(disk'.receipts)
  /\ Range(disk'.items) \subseteq Range(disk.items)
  /\ Range(disk'.items) \subseteq Range(disk'.receipts)
  /\ Range(disk'.receipts) \subseteq Range(disk.receipts)
  /\ disk'.sending \cup mem'.sending \cup hist'.tainted \subseteq DOMAIN content
  /\ \A m \in Range(disk.items) \ Range(disk'.items) : Accounted(m)
  /\ NothingReplayedUnasked'

LEMMA QueueTypes ==
  ASSUME TypeInv, KeepInv
  PROVE  /\ disk \in Queue /\ mem \in Queue /\ hist \in History /\ content \in Seq(Content)
         /\ disk.items \in Seq(Messages) /\ disk.receipts \in Seq(Messages)
         /\ mem.items \in Seq(Messages) /\ mem.receipts \in Seq(Messages)
         /\ DOMAIN content = 1..Len(content) /\ Len(content) \in Nat
         /\ Live(mem) \subseteq Live(disk) /\ Live(disk) \subseteq DOMAIN content
         /\ loaded => Live(mem) = Live(disk)
<1>1. /\ disk \in Queue /\ mem \in Queue /\ hist \in History /\ content \in Seq(Content)
  BY DEF TypeInv, TypeOK, WellFormed
<1>2. /\ disk.items \in Seq(Messages) /\ disk.receipts \in Seq(Messages)
      /\ mem.items \in Seq(Messages) /\ mem.receipts \in Seq(Messages)
  BY <1>1 DEF Queue
<1>3. Live(mem) \subseteq Live(disk) /\ (loaded => Live(mem) = Live(disk))
  <2>1. CASE loaded
    BY <2>1 DEF KeepInv, Mirrored, Live
  <2>2. CASE ~loaded
    BY <2>2 DEF KeepInv, Mirrored, Live, EmptyQueue, Range
  <2> QED BY <2>1, <2>2
<1>4. Live(disk) \subseteq DOMAIN content
  BY DEF KeepInv, Numbered
<1> QED BY <1>1, <1>2, <1>3, <1>4, LenProperties

\* A step that leaves the messages in their places.
LEMMA SameNarrows ==
  ASSUME TypeInv, KeepInv, loaded, loaded', content' = content,
         mem'.items = mem.items, mem'.receipts = mem.receipts, disk' = mem' \/ disk' = disk,
         mem'.sending \subseteq DOMAIN content, hist'.tainted \subseteq DOMAIN content,
         mem'.paused \/ (Live(mem) \ mem'.sending) \cap hist'.tainted = {}
  PROVE  Narrows
<1>1. mem.items = disk.items /\ mem.receipts = disk.receipts
  BY DEF KeepInv, Mirrored
<1>2. disk'.items = disk.items /\ disk'.receipts = disk.receipts
  BY <1>1
<1>3. Mirrored'
  BY <1>1, <1>2 DEF Mirrored
<1>4. disk.sending \subseteq DOMAIN content /\ disk'.sending \subseteq DOMAIN content
  BY DEF KeepInv, Numbered
<1>5. NothingReplayedUnasked'
  BY DEF NothingReplayedUnasked, Live
<1> QED BY <1>2, <1>3, <1>4, <1>5 DEF Narrows, KeepInv, Numbered, Live

\* A step that takes one message out.
LEMMA TakenNarrows ==
  ASSUME TypeInv, KeepInv, loaded, loaded', content' = content, disk' = mem',
         NEW m, Accounted(m),
         mem'.items = Without(mem.items, m), mem'.receipts = mem.receipts,
         mem'.sending \subseteq mem.sending, mem.sending \ {m} \subseteq mem'.sending,
         mem'.paused = mem.paused, hist'.tainted = hist.tainted
  PROVE  Narrows
<1>1. mem.items = disk.items /\ mem.receipts = disk.receipts
  BY DEF KeepInv, Mirrored
<1>2. IsInjective(disk'.items) /\ Range(disk'.items) = Range(disk.items) \ {m}
  <2>1. disk.items \in Seq(Messages) /\ IsInjective(disk.items)
    BY QueueTypes DEF KeepInv, Numbered
  <2>2. disk'.items = Without(disk.items, m)
    BY <1>1
  <2> QED BY ONLY <2>1, <2>2, WithoutRange
<1>3. Mirrored'
  BY DEF Mirrored
<1>4. disk'.receipts = disk.receipts
  BY <1>1
<1>5. NothingReplayedUnasked'
  BY <1>1, <1>2 DEF NothingReplayedUnasked, Live, KeepInv
<1> QED BY <1>2, <1>3, <1>4, <1>5 DEF Narrows, KeepInv, Numbered, Live

\* A step that leaves the queue alone.
LEMMA IdleNarrows ==
  ASSUME TypeInv, KeepInv, UNCHANGED queueVars, content' = content, hist'.tainted = hist.tainted
  PROVE  Narrows
<1>1. /\ Mirrored' /\ disk' = disk /\ mem' = mem
  BY DEF KeepInv, Mirrored, queueVars
<1>2. NothingReplayedUnasked'
  BY DEF KeepInv, NothingReplayedUnasked, queueVars, Live
<1> QED BY <1>1, <1>2 DEF Narrows, KeepInv, Numbered, Live

\* A stop, or a save that failed.
LEMMA PauseNarrows ==
  ASSUME TypeInv, KeepInv, loaded, content' = content,
         NEW q \in Queue, NEW h \in History, Pause(q, h),
         q.items = mem.items, q.receipts = mem.receipts, q.sending = mem.sending,
         h.tainted = hist.tainted
  PROVE  Narrows
<1>1. /\ mem'.items = mem.items /\ mem'.receipts = mem.receipts /\ mem'.sending = mem.sending
      /\ mem'.paused = TRUE /\ hist'.tainted = hist.tainted /\ loaded' = loaded
  BY DEF Pause, Queue, History
<1>2. disk' = mem' \/ disk' = disk
  BY DEF Pause
<1> QED BY <1>1, <1>2, SameNarrows DEF KeepInv, Numbered

LEMMA ErrorNarrows ==
  ASSUME TypeInv, KeepInv, loaded, content' = content, PauseWithError
  PROVE  Narrows
<1> DEFINE q == [mem EXCEPT !.note = "other"]
<1>1. /\ q \in Queue /\ q.items = mem.items /\ q.receipts = mem.receipts
      /\ q.sending = mem.sending /\ hist \in History
  BY QueueTypes DEF Queue
<1>2. Pause(q, hist)
  BY DEF PauseWithError
<1> HIDE DEF q
<1> QED BY <1>1, <1>2, PauseNarrows

\* The user lets the queue run: what was sent before counts as released.
LEMMA RunningNarrows ==
  ASSUME TypeInv, KeepInv, loaded, content' = content, Commit(Running), hist' = Released
  PROVE  Narrows
<1>1. /\ mem'.items = mem.items /\ mem'.receipts = mem.receipts /\ mem'.sending = mem.sending
      /\ disk' = mem' /\ loaded'
  BY QueueTypes DEF Commit, Running, Queue
<1>2. hist'.tainted = mem.sending
  BY QueueTypes DEF Released, History
<1> QED BY <1>1, <1>2, SameNarrows DEF KeepInv, Numbered

\* The outcome of a turn: it takes its message out, or pauses the queue.
LEMMA CompletedNarrows ==
  ASSUME TypeInv, KeepInv, loaded, content' = content, hist' = hist, NEW m, NEW ok \in BOOLEAN,
         ok => m \in hist.succeeded, Commit(Completed(m, ok))
  PROVE  Narrows
<1>1. disk' = mem' /\ loaded' /\ mem' = Completed(m, ok)
  BY DEF Commit
<1>2. CASE ok \/ m \in replaced
  <2>1. /\ mem'.items = Without(mem.items, m) /\ mem'.receipts = mem.receipts
        /\ mem'.sending = mem.sending \ {m} /\ mem'.paused = mem.paused
    BY <1>1, <1>2, QueueTypes DEF Completed, Queue
  <2>2. Accounted(m)
    BY <1>2 DEF Accounted, KeepInv, Honest
  <2> QED BY <1>1, <2>1, <2>2, TakenNarrows
<1>3. CASE ~(ok \/ m \in replaced)
  <2>1. /\ mem'.items = mem.items /\ mem'.receipts = mem.receipts
        /\ mem'.sending = mem.sending \ {m} /\ mem'.paused = TRUE
    BY <1>1, <1>3, QueueTypes DEF Completed, Queue
  <2> QED BY <1>1, <2>1, SameNarrows DEF KeepInv, Numbered
<1> QED BY <1>2, <1>3

\* The actions that run at the head of the chain, one by one.
LEMMA RemoveNarrows ==
  ASSUME TypeInv, KeepInv, RemoveItem
  PROVE  Narrows
<1> DEFINE m == Head(chain).msg
<1>0. loaded /\ content' = content
  BY DEF RemoveItem, AtHead, dataVars
<1>1. CASE UNCHANGED queueVars /\ hist' = hist
  BY <1>0, <1>1, IdleNarrows
<1>2. CASE /\ Commit([mem EXCEPT !.items = Without(@, m)])
           /\ hist' = [hist EXCEPT !.withdrawn = @ \cup {m}]
  <2>1. /\ mem'.items = Without(mem.items, m) /\ mem'.receipts = mem.receipts
        /\ mem'.sending = mem.sending /\ mem'.paused = mem.paused /\ disk' = mem' /\ loaded'
    BY <1>0, <1>2, QueueTypes DEF Commit, Queue
  <2>2. hist'.tainted = hist.tainted /\ Accounted(m)
    BY <1>2, QueueTypes DEF Accounted, History
  <2> QED BY <1>0, <2>1, <2>2, TakenNarrows
<1> QED BY <1>1, <1>2 DEF RemoveItem, CommitFails, queueVars

LEMMA SelectNarrows ==
  ASSUME TypeInv, KeepInv, Select
  PROVE  Narrows
<1> DEFINE m == priority.msg
<1>0. loaded /\ content' = content
  BY DEF Select, AtHead, dataVars
<1>1. CASE UNCHANGED queueVars /\ hist' = hist
  BY <1>0, <1>1, IdleNarrows
<1>2. CASE /\ m \in Live(mem) /\ Commit([mem EXCEPT !.paused = TRUE, !.items = ToFront(@, m)])
           /\ \E x : hist' = [hist EXCEPT !.superseded = x]
  <2>1. /\ mem'.items = ToFront(mem.items, m) /\ mem'.receipts = mem.receipts
        /\ mem'.sending = mem.sending /\ mem'.paused = TRUE /\ disk' = mem' /\ loaded'
    BY <1>0, <1>2, QueueTypes DEF Commit, Queue
  <2>2. hist'.tainted = hist.tainted
    BY <1>2, QueueTypes DEF History
  <2>3. mem.items = disk.items /\ mem.receipts = disk.receipts
    BY <1>0 DEF KeepInv, Mirrored
  <2>4. IsInjective(disk'.items) /\ Range(disk'.items) = Range(disk.items)
    <3>1. disk.items \in Seq(Messages) /\ IsInjective(disk.items) /\ m \in Range(disk.items)
      BY <1>2, <2>3, QueueTypes DEF KeepInv, Numbered, Live
    <3>2. disk'.items = ToFront(disk.items, m)
      BY <2>1, <2>3
    <3> QED BY ONLY <3>1, <3>2, ToFrontRange
  <2>5. Mirrored' /\ disk'.receipts = disk.receipts
    BY <2>1, <2>3 DEF Mirrored
  <2>6. NothingReplayedUnasked'
    BY <2>1 DEF NothingReplayedUnasked
  <2> QED BY <1>0, <2>1, <2>2, <2>4, <2>5, <2>6 DEF Narrows, KeepInv, Numbered, Live
<1> QED BY <1>1, <1>2 DEF Select, CommitFails, queueVars

LEMMA DispatchNarrows ==
  ASSUME TypeInv, KeepInv, Dispatch
  PROVE  Narrows
<1>0. loaded /\ content' = content
  BY DEF Dispatch, AtHead, dataVars
<1>1. CASE UNCHANGED queueVars /\ hist' = hist
  BY <1>0, <1>1, IdleNarrows
<1>2. CASE \E m \in Live(mem) : /\ Commit([mem EXCEPT !.sending = @ \cup {m}])
                                /\ hist' = [hist EXCEPT !.tainted = @ \cup {m}]
                                /\ Dispatchable
  <2>1. PICK m \in Live(mem) : /\ Commit([mem EXCEPT !.sending = @ \cup {m}])
                               /\ hist' = [hist EXCEPT !.tainted = @ \cup {m}]
                               /\ Dispatchable
    BY <1>2
  <2>2. /\ mem'.items = mem.items /\ mem'.receipts = mem.receipts
        /\ mem'.sending = mem.sending \cup {m} /\ disk' = mem' /\ loaded'
    BY <1>0, <2>1, QueueTypes DEF Commit, Queue
  <2>3. hist'.tainted = hist.tainted \cup {m}
    BY <2>1, QueueTypes DEF History
  <2>4. (Live(mem) \ mem.sending) \cap hist.tainted = {}
    BY <1>0, <2>1 DEF KeepInv, NothingReplayedUnasked, Dispatchable
  <2>5. (Live(mem) \ mem'.sending) \cap hist'.tainted = {}
    BY <2>2, <2>3, <2>4
  <2>6. m \in DOMAIN content
    BY QueueTypes
  <2> QED BY <1>0, <2>2, <2>3, <2>5, <2>6, SameNarrows DEF KeepInv, Numbered
<1>3. CASE PauseWithError
  BY <1>0, <1>3, ErrorNarrows
<1> QED BY <1>1, <1>2, <1>3 DEF Dispatch, queueVars

LEMMA HeadNarrows ==
  ASSUME TypeInv, KeepInv, HeadStep, ~SubmitCommit
  PROVE  Narrows
<1> USE DEF queueVars, turnVars, dataVars
<1>0. loaded /\ active.ok \in BOOLEAN
  BY HeadLoaded DEF TypeInv, TypeOK
<1>1. CASE SubmitAdmit \/ SubmitEnds \/ Detach
  <2>1. UNCHANGED queueVars /\ content' = content /\ hist' = hist
    BY <1>1 DEF SubmitAdmit, SubmitEnds, Detach
  <2> QED BY <2>1, IdleNarrows
<1>2. CASE Resume
  <2>1. content' = content
    BY <1>2 DEF Resume
  <2>2. \/ Commit(Running) /\ hist' = Released
        \/ UNCHANGED queueVars /\ hist' = hist
    BY <1>2 DEF Resume, CommitFails
  <2> QED BY <1>0, <2>1, <2>2, RunningNarrows, IdleNarrows
<1>3. CASE Release
  <2>1. content' = content
    BY <1>3 DEF Release
  <2>2. \/ Commit(Running) /\ hist' = Released
        \/ UNCHANGED queueVars /\ hist' = hist
        \/ PauseWithError
    BY <1>3 DEF Release
  <2> QED BY <1>0, <2>1, <2>2, RunningNarrows, IdleNarrows, ErrorNarrows
<1>4. CASE Reacknowledge
  <2> DEFINE op == Head(chain)
  <2>1. content' = content /\ hist' = hist
    BY <1>4 DEF Reacknowledge
  <2>2. Commit(Completed(op.msg, op.ok)) \/ UNCHANGED queueVars
    BY <1>4 DEF Reacknowledge, CommitFails
  <2>3. op \in Range(chain) /\ op \in Op /\ op.kind = "reack"
    BY <1>4, ChainShrinks DEF Reacknowledge, AtHead, TypeInv, TypeOK
  <2>4. op.ok \in BOOLEAN /\ (op.ok => op.msg \in hist.succeeded)
    BY <2>3, OpFields DEF KeepInv, Honest
  <2> HIDE DEF op
  <2> QED BY <1>0, <2>1, <2>2, <2>4, CompletedNarrows, IdleNarrows
<1>5. CASE Complete
  <2>1. content' = content /\ hist' = hist
    BY <1>5 DEF Complete
  <2>2. Commit(Completed(active.msg, active.ok)) \/ UNCHANGED queueVars
    BY <1>5 DEF Complete, CommitFails
  <2>3. active.ok => active.msg \in hist.succeeded
    BY DEF KeepInv, Honest
  <2> QED BY <1>0, <2>1, <2>2, <2>3, CompletedNarrows, IdleNarrows
<1> QED BY <1>1, <1>2, <1>3, <1>4, <1>5, RemoveNarrows, SelectNarrows, DispatchNarrows DEF HeadStep

\* The first use after a start: an unfinished queue comes back paused.
LEMMA LoadNarrows ==
  ASSUME TypeInv, KeepInv, Load
  PROVE  Narrows
<1>1. /\ loaded' /\ disk' = mem' /\ mem' = Restored(disk)
      /\ content' = content /\ hist' = hist
  BY DEF Load, dataVars
<1>2. /\ disk'.items = disk.items /\ disk'.receipts = disk.receipts
      /\ mem'.sending \subseteq disk.sending /\ (mem'.paused \/ mem'.items = << >>)
  BY <1>1, QueueTypes DEF Restored, Queue
<1>3. Mirrored'
  BY <1>1 DEF Mirrored
<1>4. NothingReplayedUnasked'
  <2>1. Range(<< >>) = {}
    BY DEF Range
  <2> QED BY <1>2, <2>1 DEF NothingReplayedUnasked, Live
<1> QED BY <1>1, <1>2, <1>3, <1>4 DEF Narrows, KeepInv, Numbered, Live

LEMMA StillNarrows ==
  ASSUME TypeInv, KeepInv, KeepOutcome
  PROVE  Narrows
<1>1. /\ mem'.items = mem.items /\ mem'.receipts = mem.receipts /\ mem'.sending = {}
      /\ mem'.paused = TRUE /\ disk' = disk /\ loaded' = loaded /\ content' = content
  BY QueueTypes DEF KeepOutcome, Still, Queue, dataVars
<1>2. hist'.tainted = hist.tainted
  BY QueueTypes DEF KeepOutcome, History
<1>3. loaded
  BY DEF KeepOutcome, KeepInv, Present, HasActive, Idle
<1> QED BY <1>1, <1>2, <1>3, SameNarrows DEF KeepInv, Numbered

LEMMA AwayNarrows ==
  ASSUME TypeInv, KeepInv, Delete \/ Crash
  PROVE  Narrows
<1>0. Range(<< >>) = {}
  BY DEF Range
<1>1. /\ mem' = EmptyQueue /\ ~loaded' /\ content' = content
  BY DEF Delete, Crash, dataVars
<1>2. Mirrored' /\ NothingReplayedUnasked' /\ mem'.sending = {}
  BY <1>1 DEF Mirrored, NothingReplayedUnasked, EmptyQueue
<1>3. CASE Delete
  <2>1. disk'.items = << >> /\ disk'.receipts = << >> /\ disk'.sending = {} /\ hist' = hist
    BY <1>3 DEF Delete, EmptyQueue
  <2>2. host'.deleted
    BY <1>3 DEF Delete, Host, TypeInv, TypeOK
  <2>3. IsInjective(<< >>)
    BY DEF IsInjective
  <2> QED BY <1>0, <1>1, <1>2, <2>1, <2>2, <2>3 DEF Narrows, KeepInv, Numbered, Accounted
<1>4. CASE Crash
  <2>1. disk' = disk
    BY <1>4 DEF Crash
  <2>2. hist'.tainted = hist.tainted
    BY <1>4, QueueTypes DEF Crash, History
  <2> QED BY <1>1, <1>2, <2>1, <2>2 DEF Narrows, KeepInv, Numbered, Live
<1> QED BY <1>3, <1>4

LEMMA NarrowStep ==
  ASSUME TypeInv, KeepInv, Next, ~SubmitCommit
  PROVE  Narrows
<1> USE DEF queueVars, turnVars, dataVars
<1>0. mem \in Queue /\ hist \in History
  BY QueueTypes
<1>1. CASE HeadStep
  BY <1>1, HeadNarrows
<1>2. CASE UserNext
  <2>1. CASE Stop
    <3>1. loaded /\ Pause(mem, hist) /\ content' = content
      BY <2>1 DEF Stop
    <3> QED BY <1>0, <3>1, PauseNarrows
  <2>2. CASE ~Stop /\ ~Delete
    <3>1. UNCHANGED queueVars /\ content' = content /\ hist' = hist
      BY <1>2, <2>2, CallEnqueues
    <3> QED BY <3>1, IdleNarrows
  <2> QED BY <2>1, <2>2, AwayNarrows
<1>3. CASE InterruptFails
  <2>1. loaded /\ PauseWithError /\ content' = content
    BY <1>3 DEF InterruptFails, KeepInv, Present, HasActive, NoPriority
  <2> QED BY <2>1, ErrorNarrows
<1>4. CASE Maintain
  <2> DEFINE h == [hist EXCEPT !.fence = hist.stops + 1]
  <2>1. loaded /\ Pause(mem, h) /\ content' = content
    BY <1>4 DEF Maintain
  <2>2. h \in History /\ h.tainted = hist.tainted
    <3>1. hist.stops + 1 \in Nat
      BY <1>0 DEF History
    <3> QED BY <1>0, <3>1 DEF History
  <2> HIDE DEF h
  <2> QED BY <1>0, <2>1, <2>2, PauseNarrows
<1>5. CASE TurnEnds
  <2>1. UNCHANGED queueVars /\ content' = content
    BY <1>5 DEF TurnEnds
  <2>2. hist' = hist \/ \E x : hist' = [hist EXCEPT !.succeeded = x]
    BY <1>5 DEF TurnEnds
  <2>3. hist'.tainted = hist.tainted
    BY <1>0, <2>2 DEF History
  <2> QED BY <2>1, <2>3, IdleNarrows
<1>6. CASE \/ ResumeSettled \/ Interrupted \/ PriorityEnds \/ FireWake \/ TurnCloses
           \/ GateMoves \/ BusyBegins \/ BusyEnds \/ AdmissionRefused
  <2>1. UNCHANGED queueVars /\ content' = content /\ hist' = hist
    BY <1>6 DEF ResumeSettled, Interrupted, PriorityEnds, FireWake, TurnCloses, GateMoves,
       BusyBegins, BusyEnds, AdmissionRefused
  <2> QED BY <2>1, IdleNarrows
<1> QED BY <1>1, <1>2, <1>3, <1>4, <1>5, <1>6, LoadNarrows, StillNarrows, AwayNarrows
        DEF Next, QueueNext, HostNext

\* Only deleting the session and leaving the application take the queue out of memory, and
\* neither while anything is running.
LEMMA PresentStep ==
  ASSUME TypeInv, KeepInv, Next
  PROVE  Present'
<1> USE DEF queueVars, turnVars, dataVars
<1>0. Present
  BY DEF KeepInv
<1>1. ASSUME loaded' = loaded, UNCHANGED <<active, priority, failedAck>> \/ loaded
      PROVE  Present'
  BY <1>0, <1>1 DEF Present, HasActive
<1>2. \A q, h : Pause(q, h) => loaded' = loaded
  BY DEF Pause
<1>3. CASE HeadStep
  <2>1. \A q : Commit(q) \/ CommitFails \/ PauseWithError => loaded' = loaded
    BY <1>2 DEF Commit, CommitFails, PauseWithError
  <2>2. CASE SubmitCommit
    BY <2>1, <2>2, <1>1, <1>3, HeadLoaded DEF SubmitCommit
  <2>3. CASE ~SubmitCommit
    <3>1. loaded' = loaded
      BY <1>3, <2>1, <2>3 DEF HeadStep, SubmitAdmit, SubmitEnds, RemoveItem, Detach, Resume,
         Reacknowledge, Select, Release, Dispatch, Complete
    <3> QED BY <3>1, <1>1, <1>3, HeadLoaded
  <2> QED BY <2>2, <2>3
<1>4. CASE UserNext
  <2>1. CASE Stop
    BY <1>1, <1>2, <2>1 DEF Stop
  <2>2. CASE Delete
    BY <2>2 DEF Delete, Present, HasActive
  <2>3. CASE ~Stop /\ ~Delete
    <3>1. loaded' = loaded /\ loaded
      <4>1. \A op : Call(op) => loaded' = loaded /\ loaded
        BY DEF Call
      <4>2. ASSUME NEW m \in Messages, RemoveCall(m) \/ SendNowCall(m)
            PROVE  \E op : Call(op)
        BY <4>2 DEF RemoveCall, SendNowCall
      <4>3. ASSUME NEW req \in Requests, NEW body \in Bodies, SubmitCall(req, body)
            PROVE  \E op : Call(op)
        BY <4>3 DEF SubmitCall
      <4>4. ASSUME NEW f \in Files, DetachCall(f)
            PROVE  \E op : Call(op)
        BY <4>4 DEF DetachCall
      <4>5. CASE ResumeCall
        BY <4>1, <4>5 DEF ResumeCall
      <4> QED BY <1>4, <2>3, <4>1, <4>2, <4>3, <4>4, <4>5 DEF UserNext
    <3> QED BY <1>1, <3>1
  <2> QED BY <2>1, <2>2, <2>3
<1>5. CASE Load
  BY <1>5 DEF Load, Present
<1>6. CASE Crash
  BY <1>6 DEF Crash, Present, HasActive
<1>7. CASE Maintain
  BY <1>1, <1>2, <1>7 DEF Maintain
<1>8. CASE KeepOutcome \/ InterruptFails \/ Interrupted \/ PriorityEnds
  <2>1. active.at = "unacked" \/ priority.at \in {"interrupting", "ended"}
    BY <1>8 DEF KeepOutcome, InterruptFails, Interrupted, PriorityEnds
  <2>3. loaded
    BY <1>0, <2>1 DEF Present, HasActive, Idle, NoPriority
  <2>2. loaded' = loaded
    BY <1>2, <1>8 DEF KeepOutcome, InterruptFails, Interrupted, PriorityEnds, PauseWithError
  <2> QED BY <1>1, <2>2, <2>3
<1>9. CASE TurnCloses \/ TurnEnds
  <2>1. active.at \in {"running", "acked", "closing"} /\ loaded' = loaded
    <3>1. CASE TurnCloses
      BY <3>1 DEF TurnCloses
    <3>2. CASE TurnEnds
      BY <3>2 DEF TurnEnds
    <3> QED BY <1>9, <3>1, <3>2
  <2>2. loaded
    BY <1>0, <2>1 DEF Present, HasActive, Idle
  <2> QED BY <1>1, <2>1, <2>2
<1>10. CASE ResumeSettled \/ FireWake \/ GateMoves \/ BusyBegins \/ BusyEnds \/ AdmissionRefused
  BY <1>1, <1>10 DEF ResumeSettled, FireWake, GateMoves, BusyBegins, BusyEnds, AdmissionRefused
<1> QED BY <1>3, <1>4, <1>5, <1>6, <1>7, <1>8, <1>9, <1>10 DEF Next, QueueNext, HostNext

\* What a turn, a sendNow or the user did with a message is never undone.
Grows ==
  /\ hist.succeeded \subseteq hist'.succeeded /\ hist.superseded \subseteq hist'.superseded
  /\ hist.withdrawn \subseteq hist'.withdrawn

LEMMA HistoryGrows ==
  ASSUME TypeInv, Next
  PROVE  Grows
<1> USE DEF queueVars, turnVars, dataVars
<1>0. hist \in History
  BY DEF TypeInv, TypeOK
<1>1. ASSUME UNCHANGED hist
      PROVE  Grows
  BY <1>1 DEF Grows
<1>2. ASSUME NEW q, NEW h \in History, Pause(q, h), h.succeeded = hist.succeeded,
             h.superseded = hist.superseded, h.withdrawn = hist.withdrawn
      PROVE  Grows
  BY <1>2 DEF Pause, History, Grows
<1>3. ASSUME PauseWithError
      PROVE  Grows
  <2>1. Pause([mem EXCEPT !.note = "other"], hist)
    BY <1>3 DEF PauseWithError
  <2> QED BY <1>0, <1>2, <2>1
<1>4. ASSUME NEW t, hist' = [hist EXCEPT !.tainted = t]
      PROVE  Grows
  BY <1>0, <1>4 DEF History, Grows
<1>5. CASE SubmitAdmit \/ SubmitEnds \/ SubmitCommit \/ Detach \/ Reacknowledge \/ Complete
  <2>1. CASE SubmitCommit
    BY <1>1, <2>1, Zenon DEF SubmitCommit
  <2> QED BY <1>1, <1>5, <2>1 DEF SubmitAdmit, SubmitEnds, Detach, Reacknowledge, Complete
<1>6. CASE Resume \/ Release \/ Dispatch
  BY <1>1, <1>3, <1>4, <1>6 DEF Resume, Release, Dispatch, Released
<1>7. CASE RemoveItem
  <2>1. UNCHANGED hist \/ \E x : hist' = [hist EXCEPT !.withdrawn = @ \cup x]
    BY <1>7 DEF RemoveItem
  <2> QED BY <1>0, <1>1, <2>1 DEF History, Grows
<1>8. CASE Select
  <2>1. UNCHANGED hist \/ \E x : hist' = [hist EXCEPT !.superseded = @ \cup x]
    BY <1>8 DEF Select
  <2> QED BY <1>0, <1>1, <2>1 DEF History, Grows
<1>9. CASE Stop
  BY <1>0, <1>2, <1>9 DEF Stop
<1>10. CASE UserNext /\ ~Stop
  BY <1>1, <1>10, CallEnqueues DEF Delete
<1>11. CASE InterruptFails
  BY <1>3, <1>11 DEF InterruptFails
<1>12. CASE KeepOutcome
  BY <1>0, <1>12 DEF KeepOutcome, History, Grows
<1>13. CASE Maintain
  <2> DEFINE h == [hist EXCEPT !.fence = hist.stops + 1]
  <2>1. Pause(mem, h)
    BY <1>13 DEF Maintain
  <2>2. /\ h \in History /\ h.succeeded = hist.succeeded
        /\ h.superseded = hist.superseded /\ h.withdrawn = hist.withdrawn
    <3>1. hist.stops + 1 \in Nat
      BY <1>0 DEF History
    <3> QED BY <1>0, <3>1 DEF History
  <2> HIDE DEF h
  <2> QED BY <1>2, <2>1, <2>2
<1>14. CASE TurnEnds
  <2>1. UNCHANGED hist \/ hist' = [hist EXCEPT !.succeeded = @ \cup {active.msg}]
    BY <1>14 DEF TurnEnds
  <2> QED BY <1>0, <1>1, <2>1 DEF History, Grows
<1>15. CASE Crash
  BY <1>0, <1>15 DEF Crash, History, Grows
<1>16. CASE \/ Load \/ ResumeSettled \/ Interrupted \/ PriorityEnds \/ FireWake \/ TurnCloses
            \/ GateMoves \/ BusyBegins \/ BusyEnds \/ AdmissionRefused
  BY <1>1, <1>16 DEF Load, ResumeSettled, Interrupted, PriorityEnds, FireWake, TurnCloses,
     GateMoves, BusyBegins, BusyEnds, AdmissionRefused
<1> QED BY <1>5, <1>6, <1>7, <1>8, <1>9, <1>10, <1>11, <1>12, <1>13, <1>14, <1>15, <1>16
        DEF Next, HeadStep, QueueNext, HostNext

\* The files of an accepted message are files of the session.
LEMMA FilesType ==
  ASSUME TypeInv, KeepInv, NEW m \in DOMAIN content
  PROVE  FilesOf(m) \subseteq Files /\ content[m] \in Content
<1>1. content[m] \in Content
  BY QueueTypes, ElementOfSeq
<1>2. content[m].body \in Bodies
  BY <1>1 DEF Content
<1> QED BY <1>1, <1>2, DataAssumption DEF FilesOf

\* Only removeAttachment lets a file go, and not the file of a queued message.
LEMMA FilesStep ==
  ASSUME TypeInv, KeepInv, Next, NEW m \in Live(disk), NEW f \in FilesOf(m)
  PROVE  files'[f] # "gone"
<1> USE DEF queueVars, turnVars, dataVars
<1>0. f \in Files /\ files[f] # "gone" /\ files \in [Files -> {"draft", "pinned", "held", "gone"}]
  BY QueueTypes, FilesType DEF KeepInv, Apart, TypeInv, TypeOK
<1>1. CASE files' = files
  BY <1>0, <1>1
<1>2. CASE SubmitEnds
  <2>1. PICK pin : /\ pin \in [Files -> {"pinned"} \cup {files[g] : g \in Files}]
                   /\ \A g \in Files : pin[g] \in {"pinned", files[g]}
                   /\ files' \in {files, pin}
    <3> DEFINE pin == [g \in Files |-> IF g \in Attached[Head(chain).body] /\ files[g] = "draft"
                                       THEN "pinned" ELSE files[g]]
    <3>1. files' \in {files, pin}
      BY <1>2 DEF SubmitEnds
    <3>2. pin \in [Files -> {"pinned"} \cup {files[g] : g \in Files}]
      OBVIOUS
    <3>3. \A g \in Files : pin[g] \in {"pinned", files[g]}
      OBVIOUS
    <3> HIDE DEF pin
    <3> QED BY <3>1, <3>2, <3>3
  <2> QED BY <1>0, <2>1
<1>3. CASE SubmitCommit
  <2>1. PICK mark \in {"held", "pinned"} :
          files' = [g \in Files |-> IF g \in Attached[Head(chain).body] THEN mark ELSE files[g]]
    BY <1>3 DEF SubmitCommit
  <2> QED BY <1>0, <2>1
<1>4. CASE Detach
  <2> DEFINE g == Head(chain).file
  <2>1. loaded
    BY <1>4 DEF Detach, AtHead
  <2>2. \/ files' = files
        \/ /\ Unreferenced(g)
           /\ files' = [files EXCEPT ![g] = IF @ \in {"draft", "gone"} THEN "gone" ELSE "held"]
    BY <1>4 DEF Detach
  <2> HIDE DEF g
  <2>3. Unreferenced(g) => f # g
    BY <2>1, QueueTypes DEF Unreferenced
  <2> QED BY <1>0, <2>2, <2>3
<1>5. CASE TurnEnds
  <2>1. files' = files \/ files' = [g \in Files |-> IF g \in FilesOf(active.msg) THEN "held"
                                                    ELSE files[g]]
    BY <1>5 DEF TurnEnds
  <2> QED BY <1>0, <2>1
<1>6. CASE UserNext
  <2>1. CASE Stop \/ Delete
    BY <1>1, <2>1 DEF Stop, Delete
  <2> QED BY <1>1, <1>6, <2>1, CallEnqueues
<1>7. CASE HeadStep /\ ~SubmitEnds /\ ~SubmitCommit /\ ~Detach
  <2>1. files' = files
    BY <1>7 DEF HeadStep, SubmitAdmit, RemoveItem, Resume, Reacknowledge, Select, Release,
                Dispatch, Complete
  <2> QED BY <1>1, <2>1
<1>8. CASE \/ Load \/ ResumeSettled \/ Interrupted \/ InterruptFails \/ PriorityEnds \/ FireWake
           \/ KeepOutcome \/ TurnCloses \/ GateMoves \/ Maintain \/ BusyBegins \/ BusyEnds
           \/ AdmissionRefused \/ Crash
  <2>1. files' = files
    BY <1>8 DEF Load, ResumeSettled, Interrupted, InterruptFails, PriorityEnds, FireWake,
       KeepOutcome, TurnCloses, GateMoves, Maintain, BusyBegins, BusyEnds, AdmissionRefused, Crash
  <2> QED BY <1>1, <2>1
<1> QED BY <1>2, <1>3, <1>4, <1>5, <1>6, <1>7, <1>8 DEF Next, QueueNext, HostNext

\* Nobody but submit() itself puts an admitted submission at the head of the chain.
LEMMA HeadStays ==
  ASSUME TypeInv, Next, ~SubmitAdmit, chain' # << >>,
         Head(chain').kind = "submit", Head(chain').at = "commit"
  PROVE  chain # << >> /\ Head(chain') = Head(chain)
<1> USE DEF queueVars, turnVars, dataVars
<1>0. chain \in Seq(Op)
  BY DEF TypeInv, TypeOK
<1>1. ASSUME NEW op \in Op, op.kind = "submit" => op.at = "admit", Enqueue(op)
      PROVE  chain # << >> /\ Head(chain') = Head(chain)
  <2>1. chain' = Append(chain, op)
    BY <1>1 DEF Enqueue
  <2>2. Head(chain') = IF chain = << >> THEN op ELSE Head(chain)
    BY <1>0, <2>1, HeadTailAppend
  <2> QED BY <1>1, <2>2
<1>2. CASE HeadStep
  <2>1. chain # << >> /\ chain' = Tail(chain)
    BY <1>2, HeadLoaded, HeadPops
  <2>2. chain' \in Seq(Op) /\ Head(chain') \in Range(chain') /\ NoCommit(chain')
    <3>1. chain' \in Seq(Op) /\ NoCommit(chain')
      BY <1>0, <2>1, HeadType DEF TypeInv, RoomKept
    <3> QED BY <3>1, ChainShrinks
  <2> QED BY <2>2 DEF NoCommit
<1>3. CASE UserNext
  <2>1. CASE Stop \/ Delete
    BY <2>1 DEF Stop, Delete
  <2>2. CASE ~Stop /\ ~Delete
    <3>1. PICK op \in Op : Enqueue(op) /\ (op.kind = "submit" => op.at = "admit")
      BY <1>3, <2>2, CallEnqueues
    <3> QED BY <1>1, <3>1
  <2> QED BY <2>1, <2>2
<1>4. CASE ResumeSettled
  <2>1. PICK cap \in settling : Enqueue([kind |-> "resume", cap |-> cap]) \/ chain' = chain
    BY <1>4 DEF ResumeSettled
  <2>2. [kind |-> "resume", cap |-> cap] \in Op
    BY DEF Op, TypeInv, TypeOK
  <2> QED BY <1>1, <2>1, <2>2
<1>5. CASE Interrupted
  <2>1. [kind |-> "release", epoch |-> priority.epoch, cap |-> priority.cap] \in Op
    BY DEF Op, TypeInv, TypeOK
  <2> QED BY <1>1, <1>5, <2>1 DEF Interrupted
<1>6. CASE FireWake \/ TurnEnds
  <2>1. [kind |-> "dispatch"] \in Op /\ [kind |-> "complete"] \in Op
    BY DEF Op
  <2>2. Enqueue([kind |-> "dispatch"]) \/ Enqueue([kind |-> "complete"])
    <3>1. CASE FireWake
      BY <3>1 DEF FireWake
    <3>2. CASE TurnEnds
      BY <3>2, Zenon DEF TurnEnds
    <3> QED BY <1>6, <3>1, <3>2
  <2> QED BY <1>1, <2>1, <2>2
<1>7. CASE Crash
  BY <1>7 DEF Crash
<1>8. CASE \/ Load \/ InterruptFails \/ PriorityEnds \/ KeepOutcome \/ TurnCloses
           \/ GateMoves \/ Maintain \/ BusyBegins \/ BusyEnds \/ AdmissionRefused
  <2>1. chain' = chain
    BY <1>8 DEF Load, InterruptFails, PriorityEnds, KeepOutcome, TurnCloses, GateMoves, Maintain,
       BusyBegins, BusyEnds, AdmissionRefused
  <2> QED BY <2>1
<1> QED BY <1>2, <1>3, <1>4, <1>5, <1>6, <1>7, <1>8 DEF Next, QueueNext, HostNext

\* The outcomes that wait in the chain are kept outcomes of turns.
LEMMA ReackStep ==
  ASSUME TypeInv, KeepInv, Next, NEW op \in Range(chain'), op.kind = "reack", op.ok
  PROVE  op.msg \in hist.succeeded
<1> USE DEF queueVars, turnVars, dataVars
<1>0. chain \in Seq(Op)
  BY DEF TypeInv, TypeOK
<1>1. ASSUME op \in Range(chain)
      PROVE  op.msg \in hist.succeeded
  BY <1>1 DEF KeepInv, Honest
<1>2. ASSUME NEW new \in Op, Enqueue(new),
             new.kind = "reack" => new.msg = failedAck.msg /\ new.ok = failedAck.ok
      PROVE  op.msg \in hist.succeeded
  <2>1. op \in Range(chain) \/ op = new
    BY <1>0, <1>2, ChainGrows DEF Enqueue
  <2> QED BY <1>1, <1>2, <2>1 DEF KeepInv, Honest
<1>3. CASE SubmitAdmit
  <2> DEFINE new == [Head(chain) EXCEPT !.at = "commit"]
  <2>1. chain # << >> /\ Head(chain).kind = "submit" /\ chain' = <<new>> \o Tail(chain)
    BY <1>3 DEF SubmitAdmit, AtHead
  <2>4. /\ Head(chain) \in Op /\ Tail(chain) \in Seq(Op)
        /\ Range(Tail(chain)) \subseteq Range(chain)
    BY <1>0, <2>1, ChainShrinks
  <2>2. new.kind = "submit" /\ new \in Op
    BY <2>1, <2>4 DEF Op
  <2> HIDE DEF new
  <2>3. Range(chain') = {new} \cup Range(Tail(chain))
    <3>1. <<new>> \in Seq(Op)
      BY <2>2
    <3>3. Range(<<new>>) = {new}
      BY OneRange
    <3>2. Range(<<new>> \o Tail(chain)) = Range(<<new>>) \cup Range(Tail(chain))
      <4> DEFINE rest == Tail(chain)
      <4>1. rest \in Seq(Op)
        BY <2>4
      <4> HIDE DEF rest
      <4>2. Range(<<new>> \o rest) = Range(<<new>>) \cup Range(rest)
        BY ONLY <3>1, <4>1, RangeConcatenation
      <4> QED BY <4>2 DEF rest
    <3> QED BY <2>1, <3>2, <3>3
  <2> QED BY <1>1, <2>2, <2>3, <2>4
<1>4. CASE HeadStep /\ ~SubmitAdmit
  <2>1. Range(chain') \subseteq Range(chain)
    BY <1>0, <1>4, HeadLoaded, HeadPops, ChainShrinks
  <2> QED BY <1>1, <2>1
<1>5. CASE UserNext
  <2>1. CASE Stop \/ Delete
    BY <1>1, <2>1 DEF Stop, Delete
  <2>2. CASE ~Stop /\ ~Delete
    <3>1. PICK new \in Op :
            Enqueue(new) /\ (new.kind = "reack" => new.msg = failedAck.msg /\ new.ok = failedAck.ok)
      BY <1>5, <2>2, CallEnqueues
    <3> QED BY <1>2, <3>1
  <2> QED BY <2>1, <2>2
<1>6. CASE ResumeSettled
  <2>1. PICK cap \in settling : Enqueue([kind |-> "resume", cap |-> cap]) \/ chain' = chain
    BY <1>6 DEF ResumeSettled
  <2>2. [kind |-> "resume", cap |-> cap] \in Op
    BY DEF Op, TypeInv, TypeOK
  <2> QED BY <1>1, <1>2, <2>1, <2>2
<1>7. CASE Interrupted
  <2>1. [kind |-> "release", epoch |-> priority.epoch, cap |-> priority.cap] \in Op
    BY DEF Op, TypeInv, TypeOK
  <2> QED BY <1>2, <1>7, <2>1 DEF Interrupted
<1>8. CASE FireWake \/ TurnEnds
  <2>1. [kind |-> "dispatch"] \in Op /\ [kind |-> "complete"] \in Op
    BY DEF Op
  <2>2. Enqueue([kind |-> "dispatch"]) \/ Enqueue([kind |-> "complete"])
    <3>1. CASE FireWake
      BY <3>1 DEF FireWake
    <3>2. CASE TurnEnds
      BY <3>2, Zenon DEF TurnEnds
    <3> QED BY <1>8, <3>1, <3>2
  <2> QED BY <1>2, <2>1, <2>2
<1>9. CASE Crash
  BY <1>9 DEF Crash, Range
<1>10. CASE \/ Load \/ InterruptFails \/ PriorityEnds \/ KeepOutcome \/ TurnCloses
            \/ GateMoves \/ Maintain \/ BusyBegins \/ BusyEnds \/ AdmissionRefused
  <2>1. chain' = chain
    BY <1>10 DEF Load, InterruptFails, PriorityEnds, KeepOutcome, TurnCloses, GateMoves, Maintain,
       BusyBegins, BusyEnds, AdmissionRefused
  <2> QED BY <1>1, <2>1
<1> QED BY <1>3, <1>4, <1>5, <1>6, <1>7, <1>8, <1>9, <1>10 DEF Next, QueueNext, HostNext

\* The turn, the kept outcome and the superseded turns.
TurnsHonest ==
  /\ active.ok => active.msg \in hist.succeeded
  /\ failedAck.ok => failedAck.msg \in hist.succeeded
  /\ replaced \subseteq hist.superseded

LEMMA TurnsStep ==
  ASSUME TypeInv, TurnsHonest, Next
  PROVE  TurnsHonest'
<1> USE DEF queueVars, turnVars, dataVars
<1>0. /\ hist \in History /\ Grows
      /\ active \in [at: {"idle", "running", "acking", "acked", "unacked", "closing"},
                     msg: MessageOrNone, ok: BOOLEAN]
  BY HistoryGrows DEF TypeInv, TypeOK
<1>1. ASSUME ~active'.ok \/ (active'.ok = active.ok /\ active'.msg = active.msg),
             failedAck' = failedAck \/ ~failedAck'.ok, replaced' \subseteq replaced
      PROVE  TurnsHonest'
  BY <1>0, <1>1 DEF TurnsHonest, Grows
<1>2. CASE TurnEnds
  <2>1. PICK ok \in BOOLEAN :
          /\ active' = [active EXCEPT !.at = "acking", !.ok = ok]
          /\ hist' = IF ok THEN [hist EXCEPT !.succeeded = @ \cup {active.msg}] ELSE hist
    BY <1>2, Zenon DEF TurnEnds
  <2>2. active'.ok = ok /\ active'.msg = active.msg
    BY <1>0, <2>1
  <2>3. ok => active.msg \in hist'.succeeded
    BY <1>0, <2>1 DEF History
  <2>4. failedAck' = failedAck /\ replaced' = replaced
    BY <1>2 DEF TurnEnds
  <2> QED BY <1>0, <2>2, <2>3, <2>4 DEF TurnsHonest, Grows
<1>3. CASE KeepOutcome
  <2>1. /\ failedAck' = [msg |-> active.msg, ok |-> active.ok] /\ replaced' = replaced
        /\ active' = [active EXCEPT !.at = "closing"]
    BY <1>3 DEF KeepOutcome
  <2>2. active'.ok = active.ok /\ active'.msg = active.msg
    BY <1>0, <2>1
  <2> QED BY <1>0, <2>1, <2>2 DEF TurnsHonest, Grows
<1>4. CASE Select
  <2>1. /\ active' = active /\ failedAck' = failedAck
        /\ \/ replaced' = replaced
           \/ /\ replaced' = replaced \cup mem.sending
              /\ hist' = [hist EXCEPT !.superseded = @ \cup mem.sending]
    BY <1>4 DEF Select
  <2>2. replaced' = replaced \/ mem.sending \subseteq hist'.superseded
    BY <1>0, <2>1 DEF History
  <2> QED BY <1>0, <2>1, <2>2 DEF TurnsHonest, Grows
<1>5. CASE Dispatch
  <2>1. failedAck' = failedAck /\ replaced' = replaced
    BY <1>5 DEF Dispatch
  <2>2. active' = active \/ \E m : active' = [at |-> "running", msg |-> m, ok |-> FALSE]
    BY <1>5 DEF Dispatch
  <2>3. ~active'.ok \/ active' = active
    BY <2>2
  <2> QED BY <1>1, <2>1, <2>3
<1>6. CASE Complete
  <2>1. failedAck' = failedAck /\ replaced' \subseteq replaced
    BY <1>6 DEF Complete
  <2>2. active' \in {[active EXCEPT !.at = "acked"], [active EXCEPT !.at = "unacked"]}
    BY <1>6 DEF Complete
  <2>3. active'.ok = active.ok /\ active'.msg = active.msg
    BY <1>0, <2>2
  <2> QED BY <1>1, <2>1, <2>3
<1>7. CASE Reacknowledge
  <2>1. /\ active' = active /\ replaced' \subseteq replaced
        /\ failedAck' = failedAck \/ failedAck' = NoAck
    BY <1>7 DEF Reacknowledge
  <2> QED BY <1>1, <2>1 DEF NoAck
<1>8. CASE TurnCloses
  BY <1>1, <1>8 DEF TurnCloses, Idle
<1>9. CASE Crash
  BY <1>1, <1>9 DEF Crash, Idle, NoAck
<1>10. CASE UserNext
  <2>1. CASE Stop \/ Delete
    BY <1>1, <2>1 DEF Stop, Delete
  <2> QED BY <1>1, <1>10, <2>1, CallEnqueues
<1>11. ASSUME UNCHANGED <<active, failedAck, replaced>>
       PROVE  TurnsHonest'
  BY <1>1, <1>11
<1>12. CASE SubmitCommit
  BY <1>11, <1>12, Zenon DEF SubmitCommit
<1>13. CASE \/ SubmitAdmit \/ SubmitEnds \/ RemoveItem \/ Detach \/ Resume \/ Release
            \/ Load \/ ResumeSettled \/ Interrupted \/ InterruptFails \/ PriorityEnds \/ FireWake
            \/ GateMoves \/ Maintain \/ BusyBegins \/ BusyEnds \/ AdmissionRefused
  <2>1. UNCHANGED <<active, failedAck, replaced>>
    BY <1>13 DEF SubmitAdmit, SubmitEnds, RemoveItem, Detach, Resume, Release, Load, ResumeSettled,
       Interrupted, InterruptFails, PriorityEnds, FireWake, GateMoves, Maintain, BusyBegins, BusyEnds,
       AdmissionRefused
  <2> QED BY <1>11, <2>1
<1> QED BY <1>2, <1>3, <1>4, <1>5, <1>6, <1>7, <1>8, <1>9, <1>10, <1>12, <1>13
        DEF Next, HeadStep, QueueNext, HostNext

LEMMA HonestStep ==
  ASSUME TypeInv, KeepInv, Next
  PROVE  Honest'
<1>1. TurnsHonest
  BY DEF KeepInv, Honest, TurnsHonest
<1>2. TurnsHonest' /\ Grows
  BY <1>1, TurnsStep, HistoryGrows
<1>3. \A op \in Range(chain') : op.kind = "reack" /\ op.ok => op.msg \in hist'.succeeded
  BY <1>2, ReackStep DEF Grows
<1> QED BY <1>2, <1>3 DEF Honest, TurnsHonest

\* The commit of a submission: one message joins the queue, with its receipt.
LEMMA CommitEffect ==
  ASSUME TypeInv, KeepInv, SubmitCommit, Next
  PROVE  LET op == Head(chain)
             m == Len(content) + 1
         IN  /\ Mirrored' /\ loaded /\ loaded' /\ m \notin DOMAIN content
             /\ IsInjective(disk'.items) /\ IsInjective(disk'.receipts)
             /\ Live(disk') = Live(disk) \cup {m}
             /\ Live(disk') \subseteq Range(disk'.receipts)
             /\ Range(disk'.receipts) \subseteq Range(disk.receipts) \cup {m}
             /\ disk' = mem' /\ mem'.sending = mem.sending
             /\ mem'.paused = (mem.paused /\ ~Resumes(op.cap))
             /\ DOMAIN content' = DOMAIN content \cup {m}
             /\ \A k \in DOMAIN content : content'[k] = content[k]
             /\ content'[m] = [req |-> op.req, body |-> op.body]
<1> DEFINE op == Head(chain)
           m == Len(content) + 1
           items == Append(mem.items, m)
           receipts == Append(mem.receipts, m)
           new == [req |-> op.req, body |-> op.body]
<1>0. /\ loaded /\ mem.items = disk.items /\ mem.receipts = disk.receipts
      /\ disk.items \in Seq(Messages) /\ disk.receipts \in Seq(Messages)
      /\ Len(content) \in Nat /\ DOMAIN content = 1..Len(content) /\ mem \in Queue
      /\ content \in Seq(Content)
  <2>1. loaded
    BY HeadLoaded DEF HeadStep
  <2> QED BY <2>1, QueueTypes DEF KeepInv, Mirrored
<1>1. PICK kept \in Trimmed(receipts, Range(items)) :
        /\ Commit([mem EXCEPT !.items = items, !.receipts = kept,
                              !.paused = @ /\ ~Resumes(op.cap),
                              !.note = IF Resumes(op.cap) THEN "none" ELSE @])
        /\ content' = Append(content, new)
        /\ m \in Messages
  BY Zenon DEF SubmitCommit
<1>2. /\ disk' = mem' /\ loaded' /\ mem'.items = items /\ mem'.receipts = kept
      /\ mem'.sending = mem.sending /\ mem'.paused = (mem.paused /\ ~Resumes(op.cap))
  BY <1>0, <1>1 DEF Commit, Queue
<1>3. /\ DOMAIN content' = DOMAIN content \cup {m} /\ m \notin DOMAIN content
      /\ \A k \in DOMAIN content : content'[k] = content[k]
      /\ content'[m] = new
  <2>1. new \in Content
    <3>1. op \in Op /\ op.kind = "submit"
      <4>1. chain # << >> /\ op.kind = "submit"
        BY Zenon DEF SubmitCommit, AtHead
      <4> QED BY <4>1, HeadType DEF TypeInv, TypeOK
    <3> QED BY <3>1, OpFields DEF Content
  <2> HIDE DEF new
  <2>2. /\ Len(Append(content, new)) = Len(content) + 1
        /\ DOMAIN Append(content, new) = 1..(Len(content) + 1)
        /\ \A k \in 1..Len(content) : Append(content, new)[k] = content[k]
        /\ Append(content, new)[Len(content) + 1] = new
    BY <1>0, <2>1, AppendProperties, LenProperties
  <2>3. 1..(Len(content) + 1) = 1..Len(content) \cup {Len(content) + 1}
    BY <1>0
  <2> QED BY <1>0, <1>1, <2>2, <2>3
<1> HIDE DEF new
<1>4. m \notin Range(disk.receipts) /\ m \notin Range(disk.items)
  BY <1>3 DEF KeepInv, Numbered, Live
<1>5. /\ items \in Seq(Messages) /\ Range(items) = Live(disk) \cup {m} /\ IsInjective(items)
  <2>1. items = Append(disk.items, m) /\ IsInjective(disk.items)
    BY <1>0 DEF KeepInv, Numbered
  <2>2. Append(disk.items, m) \in Seq(Messages)
    BY <1>0, <1>1, AppendProperties
  <2>3. /\ Range(Append(disk.items, m)) = Range(disk.items) \cup {m}
        /\ IsInjective(Append(disk.items, m))
    BY <1>0, <1>1, <1>4, <2>1, AppendRange
  <2> QED BY <2>1, <2>2, <2>3 DEF Live
<1>6. /\ receipts \in Seq(Messages) /\ Range(receipts) = Range(disk.receipts) \cup {m}
      /\ IsInjective(receipts)
  <2>1. receipts = Append(disk.receipts, m) /\ IsInjective(disk.receipts)
    BY <1>0 DEF KeepInv, Numbered
  <2>2. Append(disk.receipts, m) \in Seq(Messages)
    BY <1>0, <1>1, AppendProperties
  <2>3. /\ Range(Append(disk.receipts, m)) = Range(disk.receipts) \cup {m}
        /\ IsInjective(Append(disk.receipts, m))
    BY <1>0, <1>1, <1>4, <2>1, AppendRange
  <2> QED BY <2>1, <2>2, <2>3
<1>7. Range(items) \subseteq Range(receipts) /\ Len(items) <= ItemCap
  <2>1. Range(items) \subseteq Range(receipts)
    BY <1>5, <1>6 DEF KeepInv, Numbered
  <2>2. Len(mem'.items) <= ItemCap
    BY TypeStep DEF TypeOK, WellFormed
  <2> QED BY <1>2, <2>1, <2>2
<1> HIDE DEF items, receipts
<1>8. IsInjective(kept) /\ Range(kept) \subseteq Range(receipts) /\ Range(items) \subseteq Range(kept)
  BY ONLY <1>1, <1>5, <1>6, <1>7, TrimmedKeepsLive
<1>9. Mirrored'
  BY <1>2 DEF Mirrored
<1>10. Live(disk') = Range(items) /\ Range(disk'.receipts) = Range(kept)
  BY <1>2 DEF Live
<1> QED BY <1>0, <1>2, <1>3, <1>5, <1>6, <1>8, <1>9, <1>10 DEF new

LEMMA SubmitKeeps ==
  ASSUME TypeInv, KeepInv, SubmitCommit, Next
  PROVE  /\ Mirrored' /\ Numbered' /\ Apart' /\ HeadClear'
         /\ AcceptedNotLost' /\ NothingReplayedUnasked'
<1> DEFINE op == Head(chain)
           m == Len(content) + 1
<1>0. /\ chain # << >> /\ op.kind = "submit" /\ op.at = "commit"
      /\ hist' = hist /\ host' = host /\ chain' = Tail(chain)
      /\ \E mark \in {"held", "pinned"} :
           files' = [f \in Files |-> IF f \in Attached[op.body] THEN mark ELSE files[f]]
  BY Zenon DEF SubmitCommit, AtHead, Pop
<1>1. /\ op.req \in Requests /\ op.body \in Bodies
      /\ files \in [Files -> {"draft", "pinned", "held", "gone"}]
  <2>1. op \in Op
    BY <1>0, HeadType DEF TypeInv, TypeOK
  <2> QED BY <1>0, <2>1, OpFields DEF TypeInv, TypeOK
<1>2. /\ Mirrored' /\ loaded /\ loaded' /\ m \notin DOMAIN content
      /\ IsInjective(disk'.items) /\ IsInjective(disk'.receipts)
      /\ Live(disk') = Live(disk) \cup {m}
      /\ Live(disk') \subseteq Range(disk'.receipts)
      /\ Range(disk'.receipts) \subseteq Range(disk.receipts) \cup {m}
      /\ disk' = mem' /\ mem'.sending = mem.sending
      /\ mem'.paused = (mem.paused /\ ~Resumes(op.cap))
      /\ DOMAIN content' = DOMAIN content \cup {m}
      /\ \A k \in DOMAIN content : content'[k] = content[k]
      /\ content'[m] = [req |-> op.req, body |-> op.body]
  BY CommitEffect
<1>3. Clear(op) /\ Live(disk) \subseteq DOMAIN content
  BY <1>0, QueueTypes DEF KeepInv, HeadClear
<1> HIDE DEF op, m
<1>4. Numbered'
  <2>1. /\ Live(disk)' \subseteq Range(disk'.receipts) /\ Range(disk'.receipts) \subseteq DOMAIN content'
    BY <1>2 DEF KeepInv, Numbered, Live
  <2>2. disk'.sending \cup mem'.sending \cup hist'.tainted \subseteq DOMAIN content'
    BY <1>0, <1>2 DEF KeepInv, Numbered
  <2> QED BY <1>2, <2>1, <2>2 DEF Numbered
<1>5. /\ \A k \in Live(disk) : /\ content'[k] = content[k] /\ k # m
                               /\ Attached[content'[k].body] = FilesOf(k)
                               /\ Attached[content'[k].body] \cap Attached[op.body] = {}
                               /\ content'[k].req # op.req
      /\ content'[m].req = op.req /\ content'[m].body = op.body
  <2>1. ASSUME NEW k \in Live(disk)
        PROVE  /\ content'[k] = content[k] /\ k # m
               /\ Attached[content'[k].body] = FilesOf(k)
               /\ Attached[content'[k].body] \cap Attached[op.body] = {}
               /\ content'[k].req # op.req
    <3>1. content'[k] = content[k] /\ k # m
      BY <1>2, <1>3
    <3>2. FilesOf(k) \cap Attached[op.body] = {} /\ content[k].req # op.req
      BY <1>0, <1>3 DEF Clear, KeepInv, Numbered
    <3> QED BY <3>1, <3>2 DEF FilesOf
  <2> QED BY <1>2, <2>1
<1>6. Apart'
  <2>1. ASSUME NEW a \in Live(disk)', NEW f \in Attached[content'[a].body]
        PROVE  files'[f] # "gone"
    <3>1. CASE a = m
      <4>1. f \in Attached[op.body] /\ f \in Files
        BY <1>1, <1>5, <2>1, <3>1, DataAssumption
      <4> QED BY <1>0, <4>1
    <3>2. CASE a # m
      <4>1. a \in Live(disk) /\ f \in FilesOf(a)
        BY <1>2, <1>5, <2>1, <3>2 DEF Live
      <4> QED BY <4>1, FilesStep
    <3> QED BY <3>1, <3>2
  <2>2. ASSUME NEW a \in Live(disk)', NEW b \in Live(disk)', a # b
        PROVE  /\ content'[a].req # content'[b].req
               /\ Attached[content'[a].body] \cap Attached[content'[b].body] = {}
    <3>1. a \in Live(disk) \cup {m} /\ b \in Live(disk) \cup {m}
      BY <1>2 DEF Live
    <3>2. CASE a = m \/ b = m
      BY <1>5, <2>2, <3>1, <3>2
    <3>3. CASE a # m /\ b # m
      <4>1. a \in Live(disk) /\ b \in Live(disk)
        BY <3>1, <3>3
      <4>2. content[a].req # content[b].req /\ FilesOf(a) \cap FilesOf(b) = {}
        BY <2>2, <4>1 DEF KeepInv, Apart
      <4> QED BY <1>5, <4>1, <4>2
    <3> QED BY <3>2, <3>3
  <2> QED BY <2>1, <2>2 DEF Apart, FilesOf
<1>7. HeadClear'
  <2>1. chain' \in Seq(Op) /\ NoCommit(chain')
    BY <1>0, HeadType DEF TypeInv, TypeOK, RoomKept
  <2>2. chain' # << >> => Head(chain') \in Range(chain')
    BY <2>1, ChainShrinks
  <2> QED BY <2>1, <2>2 DEF HeadClear, Clear, NoCommit
<1>8. AcceptedNotLost'
  <2> SUFFICES ASSUME NEW k \in DOMAIN content'
               PROVE  \/ k \in Live(disk)' \/ host'.deleted
                      \/ k \in hist'.succeeded \cup hist'.superseded \cup hist'.withdrawn
    BY DEF AcceptedNotLost
  <2>1. Live(disk)' = Live(disk) \cup {m}
    BY <1>2 DEF Live
  <2>2. CASE k = m
    BY <2>1, <2>2
  <2>3. CASE k # m
    <3>1. k \in DOMAIN content
      BY <1>2, <2>3
    <3> QED BY <1>0, <2>1, <3>1 DEF KeepInv, AcceptedNotLost
  <2> QED BY <2>2, <2>3
<1>9. NothingReplayedUnasked'
  <2> SUFFICES ASSUME mem'.paused = FALSE
               PROVE  (Live(disk)' \ mem'.sending) \cap hist'.tainted = {}
    <3>1. Live(mem)' = Live(disk)' /\ mem'.paused \in BOOLEAN
      BY <1>2 DEF Live
    <3> QED BY <3>1 DEF NothingReplayedUnasked
  <2>1. m \notin hist.tainted
    BY <1>2 DEF KeepInv, Numbered
  <2>2. Live(disk)' = Live(disk) \cup {m}
    BY <1>2 DEF Live
  <2>3. (Live(disk) \ mem.sending) \cap hist.tainted = {}
    <3>1. CASE Resumes(op.cap)
      <4>1. mem.items = << >>
        BY <3>1 DEF Resumes
      <4>2. Live(mem) = {}
        BY <4>1 DEF Live, Range
      <4> QED BY <1>2, <4>2, QueueTypes
    <3>2. CASE ~Resumes(op.cap)
      <4>1. ~mem.paused
        BY <1>2, <3>2
      <4>2. Live(mem) = Live(disk)
        BY <1>2, QueueTypes
      <4> QED BY <1>2, <4>1, <4>2 DEF KeepInv, NothingReplayedUnasked
    <3> QED BY <3>1, <3>2
  <2> QED BY <1>0, <1>2, <2>1, <2>2, <2>3
<1> QED BY <1>2, <1>4, <1>6, <1>7, <1>8, <1>9

\* Every other step leaves what it keeps apart, and the submission that is being committed clear.
LEMMA ApartStep ==
  ASSUME TypeInv, KeepInv, Next, Narrows
  PROVE  Apart'
<1>1. Live(disk)' \subseteq Live(disk) /\ content' = content
  BY DEF Narrows, Live
<1>2. ASSUME NEW a \in Live(disk)', NEW f \in FilesOf(a)
      PROVE  files'[f] # "gone"
  BY <1>1, FilesStep
<1>3. ASSUME NEW a \in Live(disk)', NEW b \in Live(disk)', a # b
      PROVE  content[a].req # content[b].req /\ FilesOf(a) \cap FilesOf(b) = {}
  BY <1>1, <1>3 DEF KeepInv, Apart
<1> QED BY <1>1, <1>2, <1>3 DEF Apart, FilesOf

LEMMA ClearStep ==
  ASSUME TypeInv, KeepInv, Next, Narrows
  PROVE  HeadClear'
<1>1. /\ Live(disk)' \subseteq Live(disk) /\ content' = content
      /\ Range(disk'.receipts) \subseteq Range(disk.receipts)
  BY DEF Narrows, Live
<1>2. ASSUME NEW op, Clear(op), op.kind = "submit", op.at = "commit"
      PROVE  /\ \A m \in Range(disk'.receipts) : content'[m].req # op.req
             /\ \A m \in Live(disk)' : Attached[content'[m].body] \cap Attached[op.body] = {}
  <2>1. /\ \A m \in Range(disk.receipts) : content[m].req # op.req
        /\ \A m \in Live(disk) : FilesOf(m) \cap Attached[op.body] = {}
    BY <1>2 DEF Clear
  <2> QED BY <1>1, <2>1 DEF FilesOf
<1>5. ASSUME NEW op, Clear(op), Head(chain') = op
      PROVE  HeadClear'
  <2> SUFFICES ASSUME op.kind = "submit", op.at = "commit"
               PROVE  /\ \A m \in Range(disk'.receipts) : content'[m].req # op.req
                      /\ \A m \in Live(disk)' : Attached[content'[m].body] \cap Attached[op.body] = {}
    BY <1>5 DEF HeadClear, Clear, FilesOf
  <2> QED BY <1>2, <1>5
<1>3. CASE SubmitAdmit
  <2> DEFINE head == Head(chain)
             op == [head EXCEPT !.at = "commit"]
  <2>1. /\ loaded /\ chain # << >> /\ head.kind = "submit" /\ Unshared(head.body)
        /\ \A m \in Range(mem.receipts) : content[m].req # head.req
        /\ chain' = <<op>> \o Tail(chain)
    BY <1>3 DEF SubmitAdmit, AtHead
  <2>2. head \in Op /\ Tail(chain) \in Seq(Op)
    BY <2>1, HeadType DEF TypeInv, TypeOK
  <2>3. op.req = head.req /\ op.body = head.body /\ op \in Op
    BY <2>1, <2>2 DEF Op
  <2>4. mem.receipts = disk.receipts /\ Live(mem) = Live(disk)
    BY <2>1 DEF KeepInv, Mirrored, Live
  <2>5. Clear(op)
    <3> HIDE DEF op, head
    <3> QED BY <2>1, <2>3, <2>4 DEF Clear, Unshared
  <2>6. Head(<<op>> \o Tail(chain)) = op
    <3> DEFINE rest == Tail(chain)
    <3>1. <<op>> \in Seq(Op) /\ rest \in Seq(Op)
      BY <2>2, <2>3
    <3> HIDE DEF op, rest
    <3>2. Head(<<op>> \o rest) = op
      BY ONLY <3>1
    <3> QED BY <3>2 DEF rest
  <2> HIDE DEF op
  <2> QED BY <1>5, <2>1, <2>5, <2>6
<1>4. CASE ~SubmitAdmit
  <2>1. CASE /\ chain' # << >>
             /\ Head(chain').kind = "submit" /\ Head(chain').at = "commit"
    <3>1. chain # << >> /\ Head(chain') = Head(chain)
      BY <1>4, <2>1, HeadStays
    <3>2. Clear(Head(chain))
      BY <3>1 DEF KeepInv, HeadClear
    <3> QED BY <1>5, <3>1, <3>2
  <2>2. CASE ~(/\ chain' # << >>
               /\ Head(chain').kind = "submit" /\ Head(chain').at = "commit")
    BY <2>2 DEF HeadClear, Clear
  <2> QED BY <2>1, <2>2
<1> QED BY <1>3, <1>4

LEMMA AcceptedStep ==
  ASSUME TypeInv, StopInv, KeepInv, Next, Narrows
  PROVE  AcceptedNotLost'
<1> SUFFICES ASSUME NEW m \in DOMAIN content'
             PROVE  \/ m \in Live(disk)' \/ host'.deleted
                    \/ m \in hist'.succeeded \cup hist'.superseded \cup hist'.withdrawn
  BY DEF AcceptedNotLost
<1>1. \/ m \in Live(disk) \/ host.deleted
      \/ m \in hist.succeeded \cup hist.superseded \cup hist.withdrawn
  BY DEF Narrows, KeepInv, AcceptedNotLost
<1>2. CASE m \in Live(disk)
  BY <1>2 DEF Narrows, Accounted, Live
<1>3. CASE host.deleted
  BY <1>3, DeletedStep
<1>4. CASE m \in hist.succeeded \cup hist.superseded \cup hist.withdrawn
  BY <1>4, HistoryGrows DEF Grows
<1> QED BY <1>1, <1>2, <1>3, <1>4

LEMMA KeepStep ==
  ASSUME TypeInv, StopInv, KeepInv, [Next]_vars
  PROVE  KeepInv'
<1>1. CASE UNCHANGED vars
  BY <1>1 DEF vars, queueVars, turnVars, dataVars, KeepInv, Mirrored, Present, HasActive, Numbered,
     Apart, HeadClear, Clear, Honest, AcceptedNotLost, NothingReplayedUnasked, FilesOf, Live
<1>2. CASE Next
  <2>1. Honest' /\ Present'
    BY <1>2, HonestStep, PresentStep
  <2>2. CASE SubmitCommit
    BY <1>2, <2>1, <2>2, SubmitKeeps DEF KeepInv
  <2>3. CASE ~SubmitCommit
    <3>1. Narrows
      BY <1>2, <2>3, NarrowStep
    <3>2. Numbered'
      BY <3>1 DEF Narrows, Numbered, Live, KeepInv
    <3> QED BY <1>2, <2>1, <3>1, <3>2, ApartStep, ClearStep, AcceptedStep DEF KeepInv, Narrows
  <2> QED BY <2>2, <2>3
<1> QED BY <1>1, <1>2

LEMMA KeepInit ==
  ASSUME Init
  PROVE  KeepInv
<1>1. Range(<< >>) = {} /\ DOMAIN << >> = {}
  BY DEF Range
<1>2. Mirrored /\ Present
  BY DEF Init, Mirrored, Present, HasActive
<1>3. Numbered /\ Apart
  BY <1>1 DEF Init, Numbered, Apart, Live, EmptyQueue, IsInjective
<1>4. HeadClear /\ Honest
  BY <1>1 DEF Init, HeadClear, Honest, Idle, NoAck
<1>5. AcceptedNotLost /\ NothingReplayedUnasked
  BY <1>1 DEF Init, AcceptedNotLost, NothingReplayedUnasked
<1> QED BY <1>2, <1>3, <1>4, <1>5 DEF KeepInv

LEMMA KeepInvariant == Spec => [](TypeInv /\ KeepInv)
<1>1. Spec => []StopInv
  BY StopInit, StopStep, TypeInvariant, PTL DEF Spec
<1> QED BY <1>1, KeepInit, KeepStep, TypeInvariant, PTL DEF Spec

\* An accepted message is in the file until something has been done about it, whatever is
\* stopped, crashes or cannot be saved in between: the outcome of a turn that could not be saved
\* still says what the turn came to when it is saved at last.
THEOREM MessagesAreKept == Spec => []AcceptedNotLost
<1>1. KeepInv => AcceptedNotLost
  BY DEF KeepInv
<1> QED BY <1>1, KeepInvariant, PTL

\* Nothing that may have been executed is executed again by itself: a message that was handed
\* to the executor waits for a resume or a sendNow unless its turn is still running.
THEOREM NothingIsReplayed == Spec => []NothingReplayedUnasked
<1>1. KeepInv => NothingReplayedUnasked
  BY DEF KeepInv
<1> QED BY <1>1, KeepInvariant, PTL

\* Queued messages answer different submissions: the eviction of receipts, which looks for one
\* that is no longer needed, always finds it, since the queue is capped below the receipts.
THEOREM RequestsAreAnsweredOnce == Spec => []OneMessagePerRequest
<1>1. TypeInv /\ KeepInv => OneMessagePerRequest
  <2> SUFFICES ASSUME TypeInv, KeepInv, NEW m \in Live(mem), NEW n \in Live(mem)
               PROVE  /\ m \in Range(mem.receipts)
                      /\ m # n => content[m].req # content[n].req
    BY DEF OneMessagePerRequest
  <2>1. loaded
    BY DEF KeepInv, Mirrored, EmptyQueue, Live, Range
  <2> QED BY <2>1 DEF KeepInv, Mirrored, Numbered, Apart, Live
<1> QED BY <1>1, KeepInvariant, PTL

\* The files of the queued messages exist, and no two messages share one, although a removal of
\* an attachment may be called at any time between the steps of its submission.
THEOREM FilesAreKept == Spec => []AttachmentsKept
<1>1. TypeInv /\ KeepInv => AttachmentsKept
  <2> SUFFICES ASSUME TypeInv, KeepInv, NEW m \in Live(mem) \cup Live(disk), NEW f \in FilesOf(m)
               PROVE  files[f] # "gone" /\ \A n \in Live(mem) : f \in FilesOf(n) => m = n
    BY DEF AttachmentsKept
  <2>1. m \in Live(disk) /\ Live(mem) \subseteq Live(disk)
    BY QueueTypes
  <2> QED BY <2>1 DEF KeepInv, Apart
<1> QED BY <1>1, KeepInvariant, PTL
-----------------------------------------------------------------------------
\* Maintenance.  It moves the epoch that a submission was admitted for and records the stops
\* made by then; a submission of the epoch that still lasts was called after all of those.

NotFenced(cap) == cap.adm <= host.epoch /\ (cap.adm = host.epoch => cap.born >= hist.fence)
FenceInv ==
  /\ hist.fence <= hist.stops
  /\ \A op \in Range(chain) : op.kind = "submit" => NotFenced(op.cap)
  /\ host.deleted => disk.items = << >>

\* Only a maintenance moves the epoch, and only a crash sets it back.
LEMMA EpochMoves ==
  ASSUME TypeInv, Next, ~Crash
  PROVE  /\ hist.stops <= hist'.stops /\ hist'.stops \in Nat
         /\ \/ host'.epoch = host.epoch + 1 /\ hist'.fence = hist'.stops
            \/ host'.epoch = host.epoch /\ hist'.fence = hist.fence
<1> USE DEF queueVars, turnVars, dataVars
<1>0. hist \in History /\ host \in Host /\ hist.stops \in Nat
  BY DEF TypeInv, TypeOK, History
<1>1. hist.stops <= hist'.stops /\ hist'.stops \in Nat
  <2>1. CASE Delete
    BY <1>0, <2>1 DEF Delete
  <2> QED BY <2>1, AllAdvance DEF Advances
<1>2. ASSUME NEW q, Pause(q, hist)
      PROVE  hist'.fence = hist.fence
  BY <1>0, <1>2 DEF Pause, History
<1>3. CASE Maintain
  <2>1. host'.epoch = host.epoch + 1
    <3>1. host' = [host EXCEPT !.gate = "maintenance", !.epoch = @ + 1]
      BY <1>3 DEF Maintain
    <3> QED BY <1>0, <3>1 DEF Host
  <2> DEFINE h == [hist EXCEPT !.fence = hist.stops + 1]
  <2>2. h.fence = hist.stops + 1 /\ h.stops = hist.stops /\ h \in History
    <3>1. hist.stops + 1 \in Nat
      BY <1>0
    <3> QED BY <1>0, <3>1 DEF History
  <2>3. hist' = [h EXCEPT !.stops = @ + 1]
    BY <1>3 DEF Maintain, Pause
  <2> HIDE DEF h
  <2>4. hist'.fence = hist.stops + 1 /\ hist'.stops = hist.stops + 1
    BY <2>2, <2>3 DEF History
  <2> QED BY <1>1, <2>1, <2>4
<1>4. CASE ~Maintain
  <2>1. host'.epoch = host.epoch
    <3>1. CASE UNCHANGED host
      BY <3>1
    <3>2. CASE GateMoves \/ BusyBegins \/ BusyEnds \/ AdmissionRefused \/ Delete \/ FireWake
      BY <1>0, <3>2 DEF GateMoves, BusyBegins, BusyEnds, AdmissionRefused, Delete, FireWake, Host
    <3>3. CASE HeadStep
      BY <3>1, <3>3 DEF HeadStep, SubmitAdmit, SubmitEnds, SubmitCommit, RemoveItem, Detach,
         Resume, Reacknowledge, Select, Release, Dispatch, Complete
    <3>4. CASE UserNext
      BY <3>1, <3>2, <3>4, CallEnqueues DEF Stop
    <3>5. CASE \/ Load \/ ResumeSettled \/ Interrupted \/ InterruptFails \/ PriorityEnds
               \/ KeepOutcome \/ TurnCloses \/ TurnEnds
      BY <3>1, <3>5 DEF Load, ResumeSettled, Interrupted, InterruptFails, PriorityEnds,
         KeepOutcome, TurnCloses, TurnEnds
    <3> QED BY <1>4, <3>2, <3>3, <3>4, <3>5 DEF Next, QueueNext, HostNext
  <2>2. hist'.fence = hist.fence
    <3>1. CASE UNCHANGED hist
      BY <3>1
    <3>2. CASE PauseWithError
      BY <1>2, <3>2 DEF PauseWithError
    <3>3. CASE \E x : hist' \in {[hist EXCEPT !.tainted = x], [hist EXCEPT !.withdrawn = x],
                                [hist EXCEPT !.superseded = x], [hist EXCEPT !.succeeded = x]}
      BY <1>0, <3>3 DEF History
    <3>4. CASE HeadStep
      BY <3>1, <3>2, <3>3, <3>4 DEF HeadStep, SubmitAdmit, SubmitEnds, SubmitCommit, RemoveItem,
         Detach, Resume, Reacknowledge, Select, Release, Dispatch, Complete, Released
    <3>5. CASE UserNext
      BY <1>2, <3>1, <3>5, CallEnqueues DEF Stop, Delete
    <3>6. CASE KeepOutcome
      BY <1>0, <3>6 DEF KeepOutcome, History
    <3>7. CASE TurnEnds
      BY <3>1, <3>3, <3>7 DEF TurnEnds
    <3>8. CASE \/ Load \/ ResumeSettled \/ Interrupted \/ PriorityEnds \/ FireWake \/ TurnCloses
               \/ GateMoves \/ BusyBegins \/ BusyEnds \/ AdmissionRefused
      BY <3>1, <3>8 DEF Load, ResumeSettled, Interrupted, PriorityEnds, FireWake, TurnCloses,
         GateMoves, BusyBegins, BusyEnds, AdmissionRefused
    <3>9. CASE InterruptFails
      BY <3>2, <3>9 DEF InterruptFails
    <3> QED BY <1>4, <3>4, <3>5, <3>6, <3>7, <3>8, <3>9 DEF Next, QueueNext, HostNext
  <2> QED BY <1>1, <2>1, <2>2
<1> QED BY <1>3, <1>4

\* A submission that waits was captured when it was called.
LEMMA SubmissionsWait ==
  ASSUME TypeInv, Next, NEW op \in Range(chain'), op.kind = "submit"
  PROVE  op.cap = Captured \/ \E o \in Range(chain) : o.kind = "submit" /\ o.cap = op.cap
<1> USE DEF queueVars, turnVars, dataVars
<1>0. chain \in Seq(Op)
  BY DEF TypeInv, TypeOK
<1>1. CASE op \in Range(chain)
  BY <1>1
<1>2. ASSUME NEW new \in Op, Enqueue(new), new.kind = "submit" => new.cap = Captured
      PROVE  op.cap = Captured \/ \E o \in Range(chain) : o.kind = "submit" /\ o.cap = op.cap
  <2>1. Range(chain') = Range(chain) \cup {new}
    BY <1>0, <1>2, ChainGrows DEF Enqueue
  <2> QED BY <1>2, <2>1
<1>3. CASE chain' = chain \/ chain' = << >>
  BY <1>1, <1>3 DEF Range
<1>4. CASE HeadStep /\ ~SubmitAdmit
  <2>1. chain # << >> /\ chain' = Tail(chain)
    BY <1>4, HeadLoaded, HeadPops
  <2> QED BY <1>0, <1>1, <2>1, ChainShrinks
<1>5. CASE SubmitAdmit
  <2> DEFINE head == Head(chain)
             new == [head EXCEPT !.at = "commit"]
  <2>1. chain # << >> /\ head.kind = "submit" /\ chain' = <<new>> \o Tail(chain)
    BY <1>5 DEF SubmitAdmit, AtHead
  <2>2. /\ head \in Range(chain) /\ head \in Op
        /\ Tail(chain) \in Seq(Op) /\ Range(Tail(chain)) \subseteq Range(chain)
    BY <1>0, <2>1, ChainShrinks
  <2>3. new.cap = head.cap /\ <<new>> \in Seq(Op)
    BY <2>1, <2>2 DEF Op
  <2> HIDE DEF new
  <2>4. Range(<<new>> \o Tail(chain)) = Range(<<new>>) \cup Range(Tail(chain))
    BY <2>2, <2>3, RangeConcatenation
  <2>5. Range(<<new>>) = {new}
    BY OneRange
  <2> HIDE DEF head
  <2> QED BY <2>1, <2>2, <2>3, <2>4, <2>5
<1>6. CASE UserNext
  <2>1. CASE Stop \/ Delete
    BY <1>3, <2>1 DEF Stop, Delete
  <2>2. CASE ~Stop /\ ~Delete
    <3>1. PICK new \in Op : Enqueue(new) /\ (new.kind = "submit" => new.cap = Captured)
      BY <1>6, <2>2, CallEnqueues
    <3> QED BY <1>2, <3>1
  <2> QED BY <2>1, <2>2
<1>7. CASE ResumeSettled \/ Interrupted \/ FireWake \/ TurnEnds
  <2>1. \A cap \in Capture, n \in Nat :
          /\ [kind |-> "resume", cap |-> cap] \in Op
          /\ [kind |-> "release", epoch |-> n, cap |-> cap] \in Op
    BY DEF Op
  <2>2. [kind |-> "dispatch"] \in Op /\ [kind |-> "complete"] \in Op
    BY DEF Op
  <2>3. settling \subseteq Capture /\ priority.epoch \in Nat /\ priority.cap \in Capture
    BY DEF TypeInv, TypeOK
  <2>4. chain' = chain \/ \E new \in Op : Enqueue(new) /\ new.kind # "submit"
    <3>1. CASE ResumeSettled
      <4>1. PICK cap \in settling : Enqueue([kind |-> "resume", cap |-> cap]) \/ chain' = chain
        BY <3>1 DEF ResumeSettled
      <4> QED BY <2>1, <2>3, <4>1
    <3>2. CASE Interrupted
      BY <2>1, <2>3, <3>2 DEF Interrupted
    <3>3. CASE FireWake \/ TurnEnds
      BY <2>2, <3>3 DEF FireWake, TurnEnds
    <3> QED BY <1>7, <3>1, <3>2, <3>3
  <2> QED BY <1>2, <1>3, <2>4
<1>8. CASE \/ Load \/ InterruptFails \/ PriorityEnds \/ KeepOutcome \/ TurnCloses \/ GateMoves
           \/ Maintain \/ BusyBegins \/ BusyEnds \/ AdmissionRefused \/ Crash
  BY <1>3, <1>8 DEF Load, InterruptFails, PriorityEnds, KeepOutcome, TurnCloses, GateMoves,
     Maintain, BusyBegins, BusyEnds, AdmissionRefused, Crash
<1> QED BY <1>4, <1>5, <1>6, <1>7, <1>8 DEF Next, QueueNext, HostNext

\* Nothing is accepted in a deleted session, and what was in its queue went with it.
LEMMA DeletedRests ==
  ASSUME TypeInv, StopInv, KeepInv, FenceInv, Next, host.deleted
  PROVE  mem'.items = << >> /\ disk'.items = << >>
<1>1. ~SubmitCommit
  <2>1. ASSUME SubmitCommit PROVE host.gate = "open"
    BY <2>1, Zenon DEF SubmitCommit, Admitted
  <2> QED BY <2>1 DEF StopInv
<1>2. Narrows /\ disk' \in Queue
  BY <1>1, NarrowStep, TypeStep DEF TypeOK, WellFormed
<1>3. Range(disk'.items) = {}
  <2>1. Range(<< >>) = {}
    BY DEF Range
  <2> QED BY <1>2, <2>1 DEF Narrows, FenceInv
<1>4. disk'.items = << >>
  <2>1. disk'.items \in Seq(Messages)
    BY <1>2 DEF Queue
  <2>2. ASSUME disk'.items # << >> PROVE FALSE
    BY <1>3, <2>1, <2>2, ChainShrinks
  <2> QED BY <2>2
<1>5. mem'.items = << >>
  BY <1>2, <1>4 DEF Narrows, Mirrored, EmptyQueue
<1> QED BY <1>4, <1>5

LEMMA FenceStep ==
  ASSUME TypeInv, StopInv, KeepInv, FenceInv, [Next]_vars
  PROVE  FenceInv'
<1>0. hist.stops \in Nat /\ hist.fence \in Nat /\ host.epoch \in Nat /\ chain \in Seq(Op)
  BY DEF TypeInv, TypeOK, History, Host
<1>1. CASE UNCHANGED vars
  BY <1>1 DEF vars, queueVars, FenceInv, NotFenced
<1>2. CASE Next /\ ~Crash
  <2>0. /\ hist.stops <= hist'.stops /\ hist'.stops \in Nat
        /\ \/ host'.epoch = host.epoch + 1 /\ hist'.fence = hist'.stops
           \/ host'.epoch = host.epoch /\ hist'.fence = hist.fence
    BY <1>2, EpochMoves
  <2>1. hist'.fence <= hist'.stops
    BY <1>0, <2>0 DEF FenceInv
  <2>2. ASSUME NEW cap \in Capture, NotFenced(cap)
        PROVE  cap.adm <= host'.epoch /\ (cap.adm = host'.epoch => cap.born >= hist'.fence)
    <3>1. cap.adm \in Nat /\ cap.born \in Nat
      BY DEF Capture
    <3> QED BY <1>0, <2>0, <2>2, <3>1 DEF NotFenced
  <2>3. NotFenced(Captured) /\ Captured \in Capture
    BY <1>0, CapturedType DEF NotFenced, Captured, FenceInv, TypeInv
  <2>4. ASSUME NEW op \in Range(chain'), op.kind = "submit"
        PROVE  op.cap.adm <= host'.epoch /\ (op.cap.adm = host'.epoch => op.cap.born >= hist'.fence)
    <3>1. CASE op.cap = Captured
      BY <2>2, <2>3, <3>1
    <3>2. CASE \E o \in Range(chain) : o.kind = "submit" /\ o.cap = op.cap
      <4>1. PICK o \in Range(chain) : o.kind = "submit" /\ o.cap = op.cap
        BY <3>2
      <4>2. o \in Op
        BY <1>0, RangeOfSeq
      <4>3. op.cap \in Capture /\ NotFenced(op.cap)
        BY <4>1, <4>2, OpFields DEF FenceInv
      <4> QED BY <2>2, <4>3
    <3> QED BY <1>2, <2>4, <3>1, <3>2, SubmissionsWait
  <2>5. ASSUME host'.deleted
        PROVE  disk'.items = << >>
    <3>1. CASE Delete
      BY <3>1 DEF Delete, EmptyQueue
    <3>2. CASE ~Delete
      BY <1>2, <2>5, <3>2, DeletedStep, DeletedRests
    <3> QED BY <3>1, <3>2
  <2> QED BY <2>1, <2>4, <2>5 DEF FenceInv, NotFenced
<1>3. CASE Crash
  <2>1. chain' = << >> /\ disk' = disk /\ (host'.deleted => host.deleted)
    BY <1>3 DEF Crash, TypeInv, TypeOK, Host
  <2>2. hist'.stops = 0 /\ hist'.fence = 0
    BY <1>3 DEF Crash, TypeInv, TypeOK, History
  <2> QED BY <2>1, <2>2 DEF FenceInv, Range
<1> QED BY <1>1, <1>2, <1>3

LEMMA FenceInit ==
  ASSUME Init
  PROVE  FenceInv
BY DEF Init, FenceInv, Range

\* The content of a message is recorded by the commit of its submission and by nothing else,
\* and a submission captured before the maintenance that closed its epoch is never committed.
\* In a deleted session nothing is accepted at all.
THEOREM MaintenanceIsAFence == Spec => MaintenanceFences
<1> DEFINE A == /\ loaded /\ loaded' /\ content' # content => Caller.born >= hist.fence
                /\ host.deleted => mem'.items = << >> /\ disk'.items = << >>
<1>1. TypeInv /\ StopInv /\ KeepInv /\ FenceInv /\ Next => A
  <2> SUFFICES ASSUME TypeInv, StopInv, KeepInv, FenceInv, Next
               PROVE  A
    OBVIOUS
  <2>1. ASSUME content' # content
        PROVE  Caller.born >= hist.fence
    <3>1. SubmitCommit
      BY <2>1, NarrowStep DEF Narrows
    <3>2. chain # << >> /\ Head(chain).kind = "submit" /\ Admitted(Head(chain).cap)
      BY <3>1, Zenon DEF SubmitCommit, AtHead
    <3>3. Head(chain) \in Range(chain)
      BY <3>2, ChainShrinks DEF TypeInv, TypeOK
    <3> QED BY <3>2, <3>3 DEF FenceInv, NotFenced, Admitted, Caller
  <2> QED BY <2>1, DeletedRests
<1>2. TypeInv /\ StopInv /\ KeepInv /\ FenceInv /\ [Next]_vars => [A]_vars
  BY <1>1
<1>3. Spec => []StopInv
  BY StopInit, StopStep, TypeInvariant, PTL DEF Spec
<1>4. Spec => []FenceInv
  BY <1>3, FenceInit, FenceStep, KeepInvariant, PTL DEF Spec
<1>5. [][A]_vars => MaintenanceFences
  BY PTL DEF MaintenanceFences
<1> QED BY <1>2, <1>3, <1>4, <1>5, KeepInvariant, PTL DEF Spec
-----------------------------------------------------------------------------
\* Outcomes.  A turn that succeeded, or that a sendNow superseded, leaves its message in the queue
\* until its outcome is saved; until then somebody owes that save: the turn itself, or the
\* outcome that was kept when a save failed, which bars every dispatch.

\* One operation waits in front of another.
InFront(a, b, s) == \E i, j \in DOMAIN s : i < j /\ s[i] = a /\ s[j] = b

\* Those that wait still wait in the same order when the head has run.
LEMMA TailInFront ==
  ASSUME NEW S, NEW s \in Seq(S), s # << >>
  PROVE  /\ \A a, b : InFront(a, b, Tail(s)) => InFront(a, b, s)
         /\ \A b \in Range(Tail(s)) : InFront(Head(s), b, s)
<1>1. /\ Len(s) \in Nat \ {0} /\ Len(Tail(s)) = Len(s) - 1 /\ Head(s) = s[1]
      /\ Tail(s) \in Seq(S) /\ DOMAIN s = 1..Len(s) /\ DOMAIN Tail(s) = 1..Len(Tail(s))
      /\ \A i \in 1..Len(Tail(s)) : Tail(s)[i] = s[i + 1]
  BY HeadTailProperties, EmptySeq, LenProperties
<1>2. ASSUME NEW a, NEW b, InFront(a, b, Tail(s))
      PROVE  InFront(a, b, s)
  <2>1. PICK i, j \in DOMAIN Tail(s) : i < j /\ Tail(s)[i] = a /\ Tail(s)[j] = b
    BY <1>2 DEF InFront
  <2>2. i + 1 \in DOMAIN s /\ j + 1 \in DOMAIN s /\ i + 1 < j + 1 /\ s[i + 1] = a /\ s[j + 1] = b
    BY <1>1, <2>1
  <2> QED BY <2>2 DEF InFront
<1>3. ASSUME NEW b \in Range(Tail(s))
      PROVE  InFront(Head(s), b, s)
  <2>1. PICK j \in DOMAIN Tail(s) : Tail(s)[j] = b
    BY DEF Range
  <2>2. 1 \in DOMAIN s /\ j + 1 \in DOMAIN s /\ 1 < j + 1 /\ s[1] = Head(s) /\ s[j + 1] = b
    BY <1>1, <2>1
  <2> QED BY <2>2 DEF InFront
<1> QED BY <1>2, <1>3

\* Whoever joins the chain waits behind everyone in it.
LEMMA AppendInFront ==
  ASSUME NEW S, NEW s \in Seq(S), NEW e \in S, NEW a, NEW b, InFront(a, b, Append(s, e))
  PROVE  InFront(a, b, s) \/ (a \in Range(s) /\ b = e)
<1>1. /\ DOMAIN Append(s, e) = 1..(Len(s) + 1) /\ Len(s) \in Nat /\ DOMAIN s = 1..Len(s)
      /\ Append(s, e)[Len(s) + 1] = e
      /\ \A i \in 1..Len(s) : Append(s, e)[i] = s[i]
  BY AppendProperties, LenProperties
<1>2. PICK i, j \in 1..(Len(s) + 1) : i < j /\ Append(s, e)[i] = a /\ Append(s, e)[j] = b
  BY <1>1 DEF InFront
<1>3. i \in 1..Len(s) /\ s[i] = a
  BY <1>1, <1>2
<1>4. CASE j = Len(s) + 1
  BY <1>1, <1>2, <1>3, <1>4 DEF Range
<1>5. CASE j # Len(s) + 1
  <2>1. j \in 1..Len(s) /\ s[j] = b
    BY <1>1, <1>2, <1>5
  <2> QED BY <1>1, <1>2, <1>3, <2>1 DEF InFront
<1> QED BY <1>4, <1>5

\* An operation that goes on to its second half keeps its place.
LEMMA HeadInFront ==
  ASSUME NEW S, NEW s \in Seq(S), NEW e \in S, NEW a, NEW b, InFront(a, b, <<e>> \o s)
  PROVE  InFront(a, b, s) \/ (a = e /\ b \in Range(s))
<1>1. /\ Len(s) \in Nat /\ DOMAIN s = 1..Len(s) /\ DOMAIN (<<e>> \o s) = 1..(Len(s) + 1)
      /\ (<<e>> \o s)[1] = e /\ \A i \in 1..Len(s) : (<<e>> \o s)[i + 1] = s[i]
  BY LenProperties
<1>2. PICK i, j \in 1..(Len(s) + 1) : i < j /\ (<<e>> \o s)[i] = a /\ (<<e>> \o s)[j] = b
  BY <1>1 DEF InFront
<1>3. j - 1 \in 1..Len(s) /\ s[j - 1] = b
  <2>1. j - 1 \in 1..Len(s) /\ (j - 1) + 1 = j
    BY <1>1, <1>2
  <2> QED BY <1>1, <1>2, <2>1
<1>4. CASE i = 1
  BY <1>1, <1>2, <1>3, <1>4 DEF Range
<1>5. CASE i # 1
  <2>1. i - 1 \in 1..Len(s) /\ (i - 1) + 1 = i /\ i - 1 < j - 1
    BY <1>1, <1>2, <1>5
  <2>2. s[i - 1] = a
    BY <1>1, <1>2, <2>1
  <2> QED BY <1>1, <1>3, <2>1, <2>2 DEF InFront
<1> QED BY <1>4, <1>5

AtWork == {"running", "acking", "unacked"}
Final == hist.succeeded \cup hist.superseded

\* A message whose turn is final and that is still queued: its turn has yet to save that, or
\* the kept outcome has.  (What a restart found in the file is the exception.)
Owned(m) ==
  \/ /\ active.at \in AtWork /\ active.msg = m
     /\ m \in replaced \/ (active.ok /\ active.at # "running")
  \/ failedAck # NoAck /\ failedAck.msg = m /\ (failedAck.ok \/ m \in replaced)
OutcomesOwned ==
  /\ \A m \in (Live(mem) \cap Final) \ hist.unsure : Owned(m)
  /\ ~loaded => Live(disk) \cap Final \subseteq hist.unsure

\* Only the message of the turn at work is being sent, and no turn works beside a kept outcome.
Fits(q) == q.sending \subseteq Live(q)
TurnsKnown ==
  /\ Final \subseteq DOMAIN content
  /\ active.at \in AtWork => active.msg \in DOMAIN content
  /\ failedAck # NoAck => active.at \in {"idle", "closing"} /\ failedAck.msg \in DOMAIN content
  /\ \A m \in mem.sending : active.at \in AtWork /\ active.msg = m
  /\ Fits(mem) /\ Fits(disk)

\* An operation that can no longer start the queue: the generation has moved since its call.
Old(op) ==
  /\ op.kind \in {"resume", "select"} => op.cap.gen < generation
  /\ op.kind = "release" => op.epoch < generation

\* A turn that saves its outcome is the one that waits; a resume that saves a kept outcome
\* saves that one, or comes too late for its message to have been dispatched again.
Waiting(op) ==
  /\ op.kind = "complete" => active.at = "acking"
  /\ op.kind = "reack" =>
       /\ loaded \/ host.deleted
       /\ op.msg \in DOMAIN content /\ active.at # "unacked"
       /\ active.at \in AtWork => active.msg # op.msg
       /\ failedAck # NoAck => op.msg = failedAck.msg /\ op.ok = failedAck.ok
       /\ failedAck = NoAck /\ op.msg \in Live(mem) => mem.paused
InOrder(a, b) ==
  /\ b.kind \in {"complete", "reack"} => a.kind # "complete"
  /\ b.kind = "reack" => Old(a) \/ host.deleted
Barred ==
  failedAck # NoAck /\ ~host.deleted =>
    /\ \A op \in Range(chain) : Old(op)
    /\ \A cap \in settling : cap.gen < generation
    /\ priority.at = "interrupting" => priority.epoch < generation
OutcomeOrder ==
  /\ \A op \in Range(chain) : Waiting(op)
  /\ \A a, b \in Range(chain) : InFront(a, b, chain) => InOrder(a, b)
  /\ Barred
OutcomeInv == OutcomesOwned /\ TurnsKnown /\ OutcomeOrder

\* What a step does to the turns and their outcomes.  Most steps do nothing to them.
Calm ==
  /\ UNCHANGED <<active, failedAck, replaced>>
  /\ hist'.succeeded = hist.succeeded /\ hist'.superseded = hist.superseded
  /\ hist'.unsure = hist.unsure
  /\ mem'.sending \subseteq mem.sending /\ Fits(mem') /\ Fits(disk')
  /\ loaded' \/ ~loaded \/ Delete
SameOutcomes(h) ==
  /\ h.succeeded = hist.succeeded /\ h.superseded = hist.superseded /\ h.unsure = hist.unsure
Supersedes ==
  /\ loaded /\ loaded' /\ UNCHANGED <<active, failedAck>>
  /\ replaced' = replaced \cup mem.sending
  /\ hist'.succeeded = hist.succeeded /\ hist'.superseded = hist.superseded \cup mem.sending
  /\ hist'.unsure = hist.unsure
  /\ mem'.sending = mem.sending /\ Fits(mem') /\ Fits(disk')
Starts ==
  /\ loaded /\ loaded' /\ UNCHANGED <<failedAck, replaced>> /\ SameOutcomes(hist')
  /\ active = Idle /\ failedAck = NoAck /\ ~mem.paused
  /\ \E m \in Live(mem) :
       /\ active' = [at |-> "running", msg |-> m, ok |-> FALSE]
       /\ mem'.sending = mem.sending \cup {m} /\ mem'.items = mem.items /\ disk' = mem'
\* A save of the outcome ok of message m that goes well.
Saves(m, ok) ==
  /\ loaded /\ loaded' /\ replaced' = replaced \ {m} /\ hist' = hist
  /\ mem'.sending = mem.sending \ {m} /\ disk' = mem' /\ Fits(mem')
  /\ Live(mem') \subseteq Live(mem)
  /\ (ok \/ m \in replaced) => m \notin Live(mem')
  /\ mem'.paused \/ ok \/ m \in replaced
TurnSaved ==
  AtHead("complete") /\ Pop /\ Saves(active.msg, active.ok) /\ failedAck' = failedAck
  /\ active' = [active EXCEPT !.at = "acked"]
TurnUnsaved ==
  AtHead("complete") /\ Pop /\ UNCHANGED <<queueVars, failedAck, replaced, hist>>
  /\ active' = [active EXCEPT !.at = "unacked"]
KeptSaved ==
  AtHead("reack") /\ Pop /\ Saves(Head(chain).msg, Head(chain).ok) /\ active' = active
  /\ failedAck' = NoAck

\* Saving an outcome takes the message out once and for all if the turn is done with it.
LEMMA CompletedSaves ==
  ASSUME TypeInv, KeepInv, TurnsKnown, loaded, hist' = hist, NEW m, NEW ok \in BOOLEAN,
         Commit(Completed(m, ok)), replaced' = replaced \ {m}
  PROVE  Saves(m, ok)
<1>1. disk' = mem' /\ loaded' /\ mem' = Completed(m, ok) /\ mem \in Queue
  BY QueueTypes DEF Commit
<1>2. CASE ok \/ m \in replaced
  <2>1. /\ mem'.items = Without(mem.items, m) /\ mem'.sending = mem.sending \ {m}
    BY <1>1, <1>2 DEF Completed, Queue
  <2>2. Range(mem'.items) = Range(mem.items) \ {m}
    <3>1. mem.items \in Seq(Messages) /\ IsInjective(mem.items)
      BY QueueTypes DEF KeepInv, Mirrored, Numbered
    <3> QED BY ONLY <2>1, <3>1, WithoutRange
  <2> QED BY <1>1, <1>2, <2>1, <2>2 DEF Saves, Fits, Live, TurnsKnown
<1>3. CASE ~(ok \/ m \in replaced)
  <2>1. mem'.items = mem.items /\ mem'.sending = mem.sending \ {m} /\ mem'.paused = TRUE
    BY <1>1, <1>3 DEF Completed, Queue
  <2> QED BY <1>1, <1>3, <2>1 DEF Saves, Fits, Live, TurnsKnown
<1> QED BY <1>2, <1>3

\* The steps that leave the queue alone, or pause it.
LEMMA CalmIdle ==
  ASSUME TypeInv, TurnsKnown, UNCHANGED queueVars, UNCHANGED <<active, failedAck, replaced>>,
         SameOutcomes(hist')
  PROVE  Calm
<1>1. mem' = mem /\ disk' = disk /\ loaded' = loaded
  BY DEF queueVars
<1> QED BY <1>1 DEF Calm, SameOutcomes, TurnsKnown, Fits, Live

LEMMA CalmSame ==
  ASSUME TurnsKnown, loaded', UNCHANGED <<active, failedAck, replaced>>, SameOutcomes(hist'),
         mem'.sending = mem.sending, mem'.items = mem.items, disk' = mem' \/ disk' = disk
  PROVE  Calm
BY DEF Calm, SameOutcomes, TurnsKnown, Fits, Live

LEMMA CalmPause ==
  ASSUME TypeInv, TurnsKnown, loaded, UNCHANGED <<active, failedAck, replaced>>,
         \/ PauseWithError
         \/ \E h \in History : SameOutcomes(h) /\ Pause(mem, h)
  PROVE  Calm
<1>0. mem \in Queue /\ hist \in History
  BY DEF TypeInv, TypeOK, WellFormed
<1>1. PICK q \in Queue, h \in History :
        /\ Pause(q, h) /\ q.items = mem.items /\ q.sending = mem.sending /\ SameOutcomes(h)
  <2>1. CASE PauseWithError
    <3> DEFINE q == [mem EXCEPT !.note = "other"]
    <3>1. q \in Queue /\ q.items = mem.items /\ q.sending = mem.sending /\ SameOutcomes(hist)
      BY <1>0 DEF Queue, SameOutcomes
    <3>2. Pause(q, hist)
      BY <2>1 DEF PauseWithError
    <3> HIDE DEF q
    <3> QED BY <1>0, <3>1, <3>2
  <2> QED BY <1>0, <2>1
<1>2. mem'.items = mem.items /\ mem'.sending = mem.sending /\ loaded' = loaded
  BY <1>1 DEF Pause, Queue
<1>3. disk' = mem' \/ disk' = disk
  BY <1>1 DEF Pause
<1>4. SameOutcomes(hist')
  BY <1>1 DEF Pause, History, SameOutcomes
<1> QED BY <1>2, <1>3, <1>4, CalmSame

\* What the operations of the chain do to them, one by one.
LEMMA HeadEffects ==
  ASSUME TypeInv, KeepInv, TurnsKnown, HeadStep, Next
  PROVE  Calm \/ Supersedes \/ Starts \/ TurnSaved \/ TurnUnsaved \/ KeptSaved
<1> USE DEF turnVars, dataVars
<1>0. /\ loaded /\ mem \in Queue /\ hist \in History /\ disk \in Queue
      /\ chain \in Seq(Op) /\ Head(chain) \in Op /\ chain # << >>
      /\ mem.items = disk.items
  <2>1. loaded /\ chain # << >>
    BY HeadLoaded
  <2>2. mem.items = disk.items
    BY <2>1 DEF KeepInv, Mirrored
  <2> QED BY <2>1, <2>2, HeadType, QueueTypes DEF TypeInv, TypeOK
<1>1. SameOutcomes(hist)
  BY DEF SameOutcomes
<1>2. CASE SubmitAdmit \/ SubmitEnds \/ Detach
  BY <1>1, <1>2, CalmIdle DEF SubmitAdmit, SubmitEnds, Detach
<1>3. CASE SubmitCommit
  <2>1. /\ mem'.sending = mem.sending /\ disk' = mem' /\ loaded'
        /\ Live(disk) \subseteq Live(disk')
    BY <1>3, CommitEffect
  <2>2. UNCHANGED <<active, failedAck, replaced, hist>>
    BY <1>3, Zenon DEF SubmitCommit
  <2> QED BY <1>0, <2>1, <2>2 DEF Calm, TurnsKnown, Fits, Live
<1>4. CASE RemoveItem
  <2> DEFINE m == Head(chain).msg
  <2>0. UNCHANGED <<active, failedAck, replaced>>
    BY <1>4 DEF RemoveItem
  <2>1. CASE UNCHANGED <<queueVars, hist>>
    BY <1>1, <2>0, <2>1, CalmIdle
  <2>2. CASE /\ Withdrawable(m) /\ Commit([mem EXCEPT !.items = Without(@, m)])
             /\ hist' = [hist EXCEPT !.withdrawn = @ \cup {m}]
    <3>1. /\ mem'.items = Without(mem.items, m) /\ mem'.sending = mem.sending
          /\ disk' = mem' /\ loaded' /\ m \notin mem.sending
      BY <1>0, <2>2 DEF Commit, Queue, Withdrawable
    <3>2. Range(mem'.items) = Range(mem.items) \ {m}
      <4>1. mem.items \in Seq(Messages) /\ IsInjective(mem.items)
        BY <1>0, QueueTypes DEF KeepInv, Numbered
      <4> QED BY ONLY <3>1, <4>1, WithoutRange
    <3>3. SameOutcomes(hist')
      BY <1>0, <2>2 DEF SameOutcomes, History
    <3> QED BY <2>0, <3>1, <3>2, <3>3 DEF Calm, SameOutcomes, TurnsKnown, Fits, Live
  <2> QED BY <1>4, <2>1, <2>2 DEF RemoveItem, CommitFails
<1>5. ASSUME Commit(Running), hist' = Released, UNCHANGED <<active, failedAck, replaced>>
      PROVE  Calm
  <2>1. mem'.items = mem.items /\ mem'.sending = mem.sending /\ disk' = mem' /\ loaded'
    BY <1>0, <1>5 DEF Commit, Running, Queue
  <2>2. SameOutcomes(hist')
    BY <1>0, <1>5 DEF SameOutcomes, Released, History
  <2> QED BY <1>5, <2>1, <2>2, CalmSame
<1>6. CASE Resume
  <2>0. UNCHANGED <<active, failedAck, replaced>>
    BY <1>6 DEF Resume
  <2>1. (Commit(Running) /\ hist' = Released) \/ UNCHANGED <<queueVars, hist>>
    BY <1>6 DEF Resume, CommitFails
  <2> QED BY <1>1, <1>5, <2>0, <2>1, CalmIdle
<1>7. CASE Release
  <2>0. UNCHANGED <<active, failedAck, replaced>>
    BY <1>7 DEF Release
  <2>1. (Commit(Running) /\ hist' = Released) \/ UNCHANGED <<queueVars, hist>> \/ PauseWithError
    BY <1>7 DEF Release
  <2> QED BY <1>0, <1>1, <1>5, <2>0, <2>1, CalmIdle, CalmPause
<1>8. CASE Select
  <2> DEFINE m == priority.msg
  <2>0. UNCHANGED <<active, failedAck>>
    BY <1>8 DEF Select
  <2>1. CASE UNCHANGED <<queueVars, hist, replaced>>
    BY <1>1, <2>0, <2>1, CalmIdle
  <2>2. CASE /\ m \in Live(mem)
             /\ Commit([mem EXCEPT !.paused = TRUE, !.items = ToFront(@, m)])
             /\ replaced' = replaced \cup mem.sending
             /\ hist' = [hist EXCEPT !.superseded = @ \cup mem.sending]
    <3>1. /\ mem'.items = ToFront(mem.items, m) /\ mem'.sending = mem.sending
          /\ disk' = mem' /\ loaded'
      BY <1>0, <2>2 DEF Commit, Queue
    <3>2. Range(mem'.items) = Range(mem.items)
      <4>1. mem.items \in Seq(Messages) /\ IsInjective(mem.items) /\ m \in Range(mem.items)
        BY <1>0, <2>2, QueueTypes DEF KeepInv, Numbered, Live
      <4> QED BY ONLY <3>1, <4>1, ToFrontRange
    <3>3. /\ hist'.succeeded = hist.succeeded /\ hist'.unsure = hist.unsure
          /\ hist'.superseded = hist.superseded \cup mem.sending
      BY <1>0, <2>2 DEF History
    <3> QED BY <1>0, <2>0, <2>2, <3>1, <3>2, <3>3 DEF Supersedes, TurnsKnown, Fits, Live
  <2> QED BY <1>8, <2>1, <2>2 DEF Select, CommitFails
<1>9. CASE Dispatch
  <2>0. UNCHANGED <<failedAck, replaced>>
    BY <1>9 DEF Dispatch
  <2>1. CASE UNCHANGED <<queueVars, active, hist>>
    BY <1>1, <2>0, <2>1, CalmIdle
  <2>2. CASE PauseWithError /\ active' = active
    BY <1>0, <2>0, <2>2, CalmPause
  <2>3. CASE /\ Dispatchable
             /\ \E m \in Live(mem) : /\ Commit([mem EXCEPT !.sending = @ \cup {m}])
                                     /\ active' = [at |-> "running", msg |-> m, ok |-> FALSE]
                                     /\ hist' = [hist EXCEPT !.tainted = @ \cup {m}]
    <3>1. PICK m \in Live(mem) : /\ Commit([mem EXCEPT !.sending = @ \cup {m}])
                                 /\ active' = [at |-> "running", msg |-> m, ok |-> FALSE]
                                 /\ hist' = [hist EXCEPT !.tainted = @ \cup {m}]
      BY <2>3
    <3>2. /\ mem'.items = mem.items /\ mem'.sending = mem.sending \cup {m}
          /\ disk' = mem' /\ loaded'
      BY <1>0, <3>1 DEF Commit, Queue
    <3>3. SameOutcomes(hist')
      BY <1>0, <3>1 DEF SameOutcomes, History
    <3> QED BY <1>0, <2>0, <2>3, <3>1, <3>2, <3>3 DEF Starts, Dispatchable
  <2> QED BY <1>9, <2>1, <2>2, <2>3 DEF Dispatch
<1>10. CASE Complete
  <2>0. AtHead("complete") /\ Pop /\ failedAck' = failedAck /\ hist' = hist /\ active.ok \in BOOLEAN
    BY <1>10 DEF Complete, TypeInv, TypeOK
  <2>1. CASE /\ Commit(Completed(active.msg, active.ok)) /\ replaced' = replaced \ {active.msg}
             /\ active' = [active EXCEPT !.at = "acked"]
    <3>1. Saves(active.msg, active.ok)
      BY <1>0, <2>0, <2>1, CompletedSaves
    <3> QED BY <2>0, <2>1, <3>1 DEF TurnSaved
  <2>2. CASE /\ UNCHANGED <<queueVars, replaced>> /\ active' = [active EXCEPT !.at = "unacked"]
    BY <2>0, <2>2 DEF TurnUnsaved
  <2> QED BY <1>10, <2>1, <2>2 DEF Complete, CommitFails
<1>11. CASE Reacknowledge
  <2> DEFINE op == Head(chain)
  <2>0. AtHead("reack") /\ Pop /\ active' = active /\ hist' = hist /\ op.ok \in BOOLEAN
    BY <1>0, <1>11, OpFields DEF Reacknowledge, AtHead
  <2>1. CASE /\ Commit(Completed(op.msg, op.ok)) /\ replaced' = replaced \ {op.msg}
             /\ failedAck' = NoAck
    <3>1. Saves(op.msg, op.ok)
      BY <1>0, <2>0, <2>1, CompletedSaves
    <3> QED BY <2>0, <2>1, <3>1 DEF KeptSaved
  <2>2. CASE UNCHANGED <<queueVars, replaced, failedAck>>
    BY <1>1, <2>0, <2>2, CalmIdle
  <2> QED BY <1>11, <2>1, <2>2 DEF Reacknowledge, CommitFails
<1> QED BY <1>2, <1>3, <1>4, <1>6, <1>7, <1>8, <1>9, <1>10, <1>11 DEF HeadStep

LEMMA Effects ==
  ASSUME TypeInv, KeepInv, TurnsKnown, Next
  PROVE  \/ Calm \/ Supersedes \/ Starts \/ TurnSaved \/ TurnUnsaved \/ KeptSaved
         \/ TurnEnds \/ KeepOutcome \/ TurnCloses \/ Crash
<1> USE DEF queueVars, turnVars, dataVars
<1>0. /\ mem \in Queue /\ hist \in History /\ disk \in Queue
  BY QueueTypes
<1>1. SameOutcomes(hist)
  BY DEF SameOutcomes
<1>2. CASE HeadStep
  BY <1>2, HeadEffects
<1>3. CASE UserNext
  <2>1. CASE Stop
    BY <1>0, <1>1, <2>1, CalmPause DEF Stop
  <2>2. CASE Delete
    BY <2>2 DEF Delete, Calm, EmptyQueue, Fits, Range
  <2>3. CASE ~Stop /\ ~Delete
    BY <1>1, <1>3, <2>3, CallEnqueues, CalmIdle
  <2> QED BY <2>1, <2>2, <2>3
<1>4. CASE Load
  <2>1. /\ loaded' /\ mem' = Restored(disk) /\ disk' = mem' /\ UNCHANGED <<active, failedAck, replaced, hist>>
    BY <1>4 DEF Load
  <2>2. mem'.sending = {}
    <3>1. CASE disk.items = << >>
      <4>1. mem' = disk /\ Live(disk) = {}
        BY <2>1, <3>1 DEF Restored, Live, Range
      <4> QED BY <4>1 DEF TurnsKnown, Fits
    <3>2. CASE disk.items # << >>
      BY <1>0, <2>1, <3>2 DEF Restored, Queue
    <3> QED BY <3>1, <3>2
  <2> QED BY <2>1, <2>2 DEF Calm, Fits
<1>5. CASE InterruptFails
  <2>1. loaded
    BY <1>5 DEF InterruptFails, KeepInv, Present, HasActive, NoPriority
  <2> QED BY <1>5, <2>1, CalmPause DEF InterruptFails
<1>6. CASE Maintain
  <2> DEFINE h == [hist EXCEPT !.fence = hist.stops + 1]
  <2>1. h \in History /\ SameOutcomes(h)
    BY <1>0 DEF History, SameOutcomes
  <2>2. loaded /\ Pause(mem, h) /\ UNCHANGED <<active, failedAck, replaced>>
    BY <1>6 DEF Maintain
  <2> HIDE DEF h
  <2> QED BY <2>1, <2>2, CalmPause
<1>7. CASE \/ ResumeSettled \/ Interrupted \/ PriorityEnds \/ FireWake
           \/ GateMoves \/ BusyBegins \/ BusyEnds \/ AdmissionRefused
  <2>1. UNCHANGED <<disk, mem, loaded, active, failedAck, replaced, hist>>
    BY <1>7 DEF ResumeSettled, Interrupted, PriorityEnds, FireWake, GateMoves, BusyBegins, BusyEnds,
       AdmissionRefused
  <2> QED BY <1>1, <2>1, CalmIdle
<1> QED BY <1>2, <1>3, <1>4, <1>5, <1>6, <1>7 DEF Next, QueueNext, HostNext

\* A turn's outcome is saved by the operation of the turn that waits for it.
LEMMA HeadWaits ==
  ASSUME TypeInv, OutcomeOrder, chain # << >>
  PROVE  Waiting(Head(chain))
BY ChainShrinks DEF TypeInv, TypeOK, OutcomeOrder

\* No message that was queued before joins the queue, and none is taken for another.
LEMMA LiveStep ==
  ASSUME TypeInv, KeepInv, Next
  PROVE  /\ Live(mem') \subseteq Live(disk') /\ Live(disk') \subseteq DOMAIN content'
         /\ Live(disk') \cap DOMAIN content \subseteq Live(disk)
         /\ DOMAIN content \subseteq DOMAIN content'
         /\ 0 \notin DOMAIN content
         /\ loaded' => Live(mem') = Live(disk')
<1>1. 0 \notin DOMAIN content /\ Live(disk) \subseteq DOMAIN content
  BY QueueTypes
<1>2. Mirrored' => /\ Live(mem') \subseteq Live(disk')
                   /\ loaded' => Live(mem') = Live(disk')
  <2>1. Live(EmptyQueue) = {}
    BY DEF Live, EmptyQueue, Range
  <2> QED BY <2>1 DEF Mirrored, Live
<1>3. CASE SubmitCommit
  BY <1>1, <1>2, <1>3, CommitEffect
<1>4. CASE ~SubmitCommit
  <2>1. Narrows
    BY <1>4, NarrowStep
  <2> QED BY <1>1, <1>2, <2>1 DEF Narrows, Live
<1> QED BY <1>3, <1>4

LEMMA TurnsKnownStep ==
  ASSUME TypeInv, KeepInv, OutcomeInv, Next
  PROVE  TurnsKnown'
<1>0. /\ TurnsKnown /\ hist \in History
      /\ active \in [at: {"idle", "running", "acking", "acked", "unacked", "closing"},
                     msg: MessageOrNone, ok: BOOLEAN]
      /\ DOMAIN content \subseteq DOMAIN content' /\ Live(disk) \subseteq DOMAIN content
  BY LiveStep, QueueTypes DEF OutcomeInv, TypeInv, TypeOK
<1> USE DEF turnVars, dataVars
<1>1. CASE Calm
  BY <1>0, <1>1 DEF Calm, TurnsKnown, Final
<1>2. CASE Supersedes
  <2>1. mem.sending \subseteq DOMAIN content
    BY <1>0 DEF TurnsKnown
  <2> QED BY <1>0, <1>2, <2>1 DEF Supersedes, TurnsKnown, Final
<1>3. CASE Starts
  <2>1. PICK m \in Live(mem) :
          /\ active' = [at |-> "running", msg |-> m, ok |-> FALSE]
          /\ mem'.sending = mem.sending \cup {m} /\ mem'.items = mem.items /\ disk' = mem'
    BY <1>3 DEF Starts
  <2>2. mem.sending = {} /\ m \in DOMAIN content
    BY <1>0, <1>3, QueueTypes DEF Starts, TurnsKnown, Idle, AtWork
  <2>3. Fits(mem') /\ Fits(disk')
    BY <1>0, <2>1, <2>2 DEF Fits, Live
  <2>4. Final' = Final /\ failedAck' = NoAck
    BY <1>3 DEF Starts, SameOutcomes, Final
  <2> QED BY <1>0, <2>1, <2>2, <2>3, <2>4 DEF TurnsKnown, AtWork
<1>4. CASE TurnSaved
  <2>1. active.at = "acking"
    BY <1>4, HeadWaits DEF TurnSaved, AtHead, Waiting, OutcomeInv
  <2>2. active'.at = "acked" /\ active'.msg = active.msg
    BY <1>0, <1>4 DEF TurnSaved
  <2>3. mem'.sending = {} /\ Fits(mem') /\ Fits(disk')
    BY <1>0, <1>4 DEF TurnSaved, Saves, TurnsKnown
  <2>4. Final' = Final /\ failedAck' = failedAck /\ failedAck = NoAck
    BY <1>0, <1>4, <2>1 DEF TurnSaved, Saves, Final, TurnsKnown
  <2> QED BY <1>0, <2>2, <2>3, <2>4 DEF TurnsKnown, AtWork
<1>5. CASE TurnUnsaved
  <2>1. active.at = "acking"
    BY <1>5, HeadWaits DEF TurnUnsaved, AtHead, Waiting, OutcomeInv
  <2>2. active'.at = "unacked" /\ active'.msg = active.msg
    BY <1>0, <1>5 DEF TurnUnsaved
  <2>3. mem' = mem /\ disk' = disk /\ Final' = Final /\ failedAck' = failedAck /\ failedAck = NoAck
    BY <1>0, <1>5, <2>1 DEF TurnUnsaved, queueVars, Final, TurnsKnown
  <2> QED BY <1>0, <2>1, <2>2, <2>3 DEF TurnsKnown, AtWork, Fits, Live
<1>6. CASE KeptSaved
  <2>1. active' = active /\ failedAck' = NoAck /\ Final' = Final
    BY <1>6 DEF KeptSaved, Saves, Final
  <2>2. mem'.sending \subseteq mem.sending /\ Fits(mem') /\ Fits(disk')
    BY <1>6 DEF KeptSaved, Saves
  <2> QED BY <1>0, <2>1, <2>2 DEF TurnsKnown
<1>7. CASE TurnEnds
  <2>1. PICK ok \in BOOLEAN :
          /\ active' = [active EXCEPT !.at = "acking", !.ok = ok]
          /\ hist' = IF ok THEN [hist EXCEPT !.succeeded = @ \cup {active.msg}] ELSE hist
    BY <1>7, Zenon DEF TurnEnds
  <2>2. /\ active'.at = "acking" /\ active'.msg = active.msg /\ active.at = "running"
        /\ UNCHANGED <<mem, disk, failedAck>>
    BY <1>0, <1>7, <2>1 DEF TurnEnds, queueVars
  <2>3. Final' \subseteq Final \cup {active.msg}
    BY <1>0, <2>1 DEF Final, History
  <2> QED BY <1>0, <2>2, <2>3 DEF TurnsKnown, AtWork, Fits, Live
<1>8. CASE KeepOutcome
  <2>1. /\ active.at = "unacked" /\ active'.at = "closing"
        /\ failedAck'.msg = active.msg /\ mem' = Still(mem) /\ disk' = disk
    BY <1>0, <1>8 DEF KeepOutcome
  <2>2. mem'.sending = {} /\ Final' = Final
    BY <1>0, <1>8, <2>1, QueueTypes DEF Still, Queue, Final, KeepOutcome, History
  <2> QED BY <1>0, <2>1, <2>2 DEF TurnsKnown, AtWork, Fits, Live
<1>9. CASE TurnCloses
  <2>1. /\ active.at \in {"acked", "closing"} /\ active' = Idle
        /\ UNCHANGED <<mem, disk, failedAck, hist>>
    BY <1>9 DEF TurnCloses, queueVars
  <2> QED BY <1>0, <2>1 DEF TurnsKnown, AtWork, Idle, Fits, Live, Final
<1>10. CASE Crash
  <2>1. /\ active' = Idle /\ failedAck' = NoAck /\ mem' = EmptyQueue /\ disk' = disk
        /\ content' = content
    BY <1>10 DEF Crash
  <2>2. Final' = Final
    BY <1>0, <1>10 DEF Crash, History, Final
  <2> QED BY <1>0, <2>1, <2>2 DEF TurnsKnown, AtWork, Idle, Fits, Live, EmptyQueue
<1> QED BY <1>0, <1>1, <1>2, <1>3, <1>4, <1>5, <1>6, <1>7, <1>8, <1>9, <1>10, Effects

\* A kept outcome and a turn at work say who owes the save of an outcome, after each step too.
LEMMA OwnedStep ==
  ASSUME TypeInv, KeepInv, OutcomeInv, Next
  PROVE  OutcomesOwned'
<1>0. /\ TurnsKnown /\ hist \in History /\ OutcomesOwned
      /\ active \in [at: {"idle", "running", "acking", "acked", "unacked", "closing"},
                     msg: MessageOrNone, ok: BOOLEAN]
      /\ loaded => Live(mem) = Live(disk)
      /\ TurnsKnown'
  BY TurnsKnownStep, QueueTypes DEF OutcomeInv, TypeInv, TypeOK
<1> USE DEF turnVars, dataVars
<1>1. /\ Live(mem') \subseteq Live(disk') /\ Live(disk') \cap DOMAIN content \subseteq Live(disk)
      /\ 0 \notin DOMAIN content
  BY LiveStep
<1>2. CASE Calm
  <2>1. /\ Final' = Final /\ Final \subseteq DOMAIN content /\ hist'.unsure = hist.unsure
        /\ \A m : Owned(m)' = Owned(m)
    BY <1>0, <1>2 DEF Calm, Final, TurnsKnown, Owned
  <2>2. ASSUME NEW m \in (Live(mem') \cap Final') \ hist'.unsure
        PROVE  Owned(m)'
    BY <1>0, <1>1, <2>1 DEF OutcomesOwned
  <2>3. ~loaded' => Live(disk') \cap Final' \subseteq hist'.unsure
    <3>1. CASE Delete
      BY <3>1 DEF Delete, EmptyQueue, Live, Range
    <3>2. CASE ~Delete
      BY <1>0, <1>1, <1>2, <2>1, <3>2 DEF OutcomesOwned, Calm
    <3> QED BY <3>1, <3>2
  <2> QED BY <2>2, <2>3 DEF OutcomesOwned
<1>3. CASE Supersedes
  <2>1. /\ Final' = Final \cup mem.sending /\ hist'.unsure = hist.unsure /\ loaded /\ loaded'
        /\ UNCHANGED <<active, failedAck>> /\ replaced' = replaced \cup mem.sending
    BY <1>3 DEF Supersedes, Final
  <2>2. ASSUME NEW m \in (Live(mem') \cap Final') \ hist'.unsure
        PROVE  Owned(m)'
    <3>1. CASE m \in mem.sending
      BY <1>0, <2>1, <3>1 DEF TurnsKnown, Owned
    <3>2. CASE m \notin mem.sending
      <4>1. m \in Final /\ m \in Live(mem) /\ m \notin hist.unsure
        BY <1>0, <1>1, <2>1, <3>2 DEF TurnsKnown
      <4> QED BY <1>0, <2>1, <4>1 DEF OutcomesOwned, Owned
    <3> QED BY <3>1, <3>2
  <2> QED BY <2>1, <2>2 DEF OutcomesOwned
<1>4. ASSUME loaded, loaded', Final' = Final, hist'.unsure = hist.unsure,
             \A m \in Final : Owned(m) /\ m \in Live(mem) /\ m \in Live(mem') => Owned(m)'
      PROVE  OutcomesOwned'
  BY <1>0, <1>1, <1>4 DEF OutcomesOwned, TurnsKnown
<1>5. CASE Starts
  <2>1. \A m : ~Owned(m)
    BY <1>5 DEF Starts, Owned, Idle, AtWork
  <2> QED BY <1>4, <1>5, <2>1 DEF Starts, SameOutcomes, Final
<1>6. CASE TurnSaved
  <2>1. active.at = "acking" /\ failedAck = NoAck
    BY <1>0, <1>6, HeadWaits DEF TurnSaved, AtHead, Waiting, OutcomeInv, TurnsKnown
  <2>2. ASSUME NEW m, Owned(m), m \in Live(mem')
        PROVE  FALSE
    <3>1. active.msg = m /\ (active.ok \/ m \in replaced)
      BY <2>1, <2>2 DEF Owned
    <3> QED BY <1>6, <2>2, <3>1 DEF TurnSaved, Saves
  <2> QED BY <1>4, <1>6, <2>2 DEF TurnSaved, Saves, Final
<1>7. CASE TurnUnsaved
  <2>1. active.at = "acking" /\ failedAck = NoAck
    BY <1>0, <1>7, HeadWaits DEF TurnUnsaved, AtHead, Waiting, OutcomeInv, TurnsKnown
  <2>2. active'.at = "unacked" /\ active'.msg = active.msg /\ active'.ok = active.ok
    BY <1>0, <1>7 DEF TurnUnsaved
  <2>3. ASSUME NEW m, Owned(m)
        PROVE  Owned(m)'
    BY <1>7, <2>1, <2>2, <2>3 DEF TurnUnsaved, Owned, AtWork
  <2> QED BY <1>4, <1>7, <2>3 DEF TurnUnsaved, queueVars, AtHead, Final
<1>8. CASE KeptSaved
  <2> DEFINE op == Head(chain)
  <2>1. /\ failedAck # NoAck => op.msg = failedAck.msg /\ op.ok = failedAck.ok
        /\ active.at \in AtWork => active.msg # op.msg
        /\ failedAck # NoAck => active.at \notin AtWork
    BY <1>0, <1>8, HeadWaits DEF KeptSaved, AtHead, Waiting, OutcomeInv, TurnsKnown, AtWork
  <2>2. ASSUME NEW m, Owned(m), m \in Live(mem')
        PROVE  Owned(m)'
    <3>0. Saves(op.msg, op.ok) /\ active' = active
      BY <1>8 DEF KeptSaved
    <3>1. CASE failedAck # NoAck
      <4>1. op.msg = m /\ (op.ok \/ m \in replaced)
        BY <2>1, <2>2, <3>1 DEF Owned
      <4> QED BY <2>2, <3>0, <4>1 DEF Saves
    <3>2. CASE failedAck = NoAck
      <4>1. /\ active.at \in AtWork /\ active.msg = m /\ m # op.msg
            /\ m \in replaced \/ (active.ok /\ active.at # "running")
        BY <2>1, <2>2, <3>2 DEF Owned
      <4> QED BY <3>0, <4>1 DEF Owned, Saves
    <3> QED BY <3>1, <3>2
  <2> QED BY <1>4, <1>8, <2>2 DEF KeptSaved, Saves, Final
<1>9. CASE TurnEnds
  <2>1. PICK ok \in BOOLEAN :
          /\ active' = [active EXCEPT !.at = "acking", !.ok = ok]
          /\ hist' = IF ok THEN [hist EXCEPT !.succeeded = @ \cup {active.msg}] ELSE hist
    BY <1>9, Zenon DEF TurnEnds
  <2>2. /\ active'.at = "acking" /\ active'.msg = active.msg /\ active.at = "running"
        /\ active'.ok = ok /\ UNCHANGED <<mem, loaded, disk, failedAck, replaced>>
    BY <1>0, <1>9, <2>1 DEF TurnEnds, queueVars
  <2>3. Final' = (IF ok THEN Final \cup {active.msg} ELSE Final) /\ hist'.unsure = hist.unsure
    BY <1>0, <2>1 DEF Final, History
  <2>4. loaded
    BY <2>2 DEF KeepInv, Present, HasActive, Idle
  <2>5. ASSUME NEW m \in (Live(mem') \cap Final') \ hist'.unsure
        PROVE  Owned(m)'
    <3>1. CASE m \in Final
      BY <1>0, <2>2, <2>3, <2>5, <3>1 DEF OutcomesOwned, Owned, Live, AtWork
    <3>2. CASE m \notin Final
      BY <2>2, <2>3, <2>5, <3>2 DEF Owned, AtWork
    <3> QED BY <3>1, <3>2
  <2> QED BY <2>2, <2>4, <2>5 DEF OutcomesOwned
<1>10. CASE KeepOutcome
  <2>1. /\ active.at = "unacked" /\ failedAck = NoAck /\ replaced' = replaced /\ loaded' = loaded
        /\ failedAck' = [msg |-> active.msg, ok |-> active.ok]
    BY <1>0, <1>10 DEF KeepOutcome, TurnsKnown
  <2>2. loaded
    BY <2>1 DEF KeepInv, Present, HasActive, Idle
  <2>3. Final' = Final /\ hist'.unsure = hist.unsure
    BY <1>0, <1>10 DEF KeepOutcome, History, Final
  <2>4. ASSUME NEW m, Owned(m)
        PROVE  Owned(m)'
    <3>1. active.msg = m /\ (m \in replaced \/ active.ok) /\ m \in DOMAIN content
      BY <1>0, <2>1, <2>4 DEF Owned, TurnsKnown
    <3>2. failedAck' # NoAck
      BY <1>1, <2>1, <3>1 DEF NoAck, NoMessage
    <3> QED BY <2>1, <3>1, <3>2 DEF Owned
  <2> QED BY <1>4, <2>1, <2>2, <2>3, <2>4
<1>11. CASE TurnCloses
  <2>1. /\ active.at \in {"acked", "closing"} /\ loaded' = loaded
        /\ UNCHANGED <<failedAck, replaced, hist>>
    BY <1>11 DEF TurnCloses, queueVars
  <2>2. loaded
    BY <2>1 DEF KeepInv, Present, HasActive, Idle
  <2>3. \A m : Owned(m) => Owned(m)'
    BY <2>1 DEF Owned, AtWork
  <2> QED BY <1>4, <2>1, <2>2, <2>3 DEF Final
<1>12. CASE Crash
  <2>1. mem' = EmptyQueue /\ disk' = disk /\ hist'.unsure = hist.unsure \cup Live(disk)
    BY <1>0, <1>12 DEF Crash, History
  <2>2. Live(mem') = {} /\ Live(disk') = Live(disk)
    BY <2>1 DEF Live, EmptyQueue, Range
  <2> QED BY <2>1, <2>2 DEF OutcomesOwned
<1> QED BY <1>0, <1>2, <1>3, <1>5, <1>6, <1>7, <1>8, <1>9, <1>10, <1>11, <1>12, Effects

\* What the generation has left behind stays behind.
LEMMA OldStays ==
  ASSUME TypeInv, Next, ~Delete, ~Crash
  PROVE  /\ \A op \in Op : Old(op) => Old(op)'
         /\ \A n \in Nat : n < generation => n < generation'
<1>1. generation \in Nat /\ generation' \in Nat /\ generation <= generation'
  BY AllAdvance DEF TypeInv, TypeOK, Advances
<1>2. \A n \in Nat : n < generation => n < generation'
  BY <1>1
<1>3. ASSUME NEW op \in Op, Old(op)
      PROVE  Old(op)'
  <2>1. op.kind \in {"resume", "select"} => op.cap.gen \in Nat
    BY OpFields DEF Capture
  <2>2. op.kind = "release" => op.epoch \in Nat
    BY OpFields
  <2> QED BY <1>2, <1>3, <2>1, <2>2 DEF Old
<1> QED BY <1>2, <1>3

\* How the chain moves: nothing, a crash, the head, or somebody who joins it; a turn joins it
\* when it ends, a resume with the outcome that is kept.
Joins(new) ==
  /\ Enqueue(new) /\ ~Delete /\ ~Crash
  /\ new.kind = "complete" => TurnEnds
  /\ new.kind = "reack" =>
       /\ loaded /\ failedAck # NoAck /\ new.msg = failedAck.msg /\ new.ok = failedAck.ok
       /\ UNCHANGED <<loaded, active, failedAck>>
  /\ failedAck # NoAck /\ ~host.deleted => Old(new)
Admits(new) ==
  /\ new.kind = "submit" /\ chain # << >> /\ chain' = <<new>> \o Tail(chain)
  /\ ~Delete /\ ~Crash

LEMMA ChainMoves ==
  ASSUME TypeInv, OutcomeOrder, Next
  PROVE  \/ chain' = chain
         \/ Crash /\ chain' = << >>
         \/ ~Delete /\ ~Crash /\ HeadStep /\ chain # << >> /\ chain' = Tail(chain)
         \/ \E new \in Op : Admits(new)
         \/ \E new \in Op : Joins(new)
<1> USE DEF queueVars, turnVars, dataVars
<1>0. chain \in Seq(Op) /\ settling \subseteq Capture /\ priority.epoch \in Nat /\ priority.cap \in Capture
  BY DEF TypeInv, TypeOK
<1>1. Delete => chain' = chain
  BY DEF Delete
<1>2. Crash => chain' = << >>
  BY DEF Crash
<1>3. CASE ~Delete /\ ~Crash /\ SubmitAdmit
  <2> DEFINE new == [Head(chain) EXCEPT !.at = "commit"]
  <2>1. chain # << >> /\ Head(chain).kind = "submit" /\ chain' = <<new>> \o Tail(chain)
    BY <1>3 DEF SubmitAdmit, AtHead
  <2>2. Head(chain) \in Op
    BY <1>0, <2>1, ChainShrinks
  <2>3. new.kind = "submit" /\ new \in Op
    BY <2>1, <2>2 DEF Op
  <2> HIDE DEF new
  <2> QED BY <1>3, <2>1, <2>3 DEF Admits
<1>4. CASE ~Delete /\ ~Crash /\ HeadStep /\ ~SubmitAdmit
  BY <1>4, HeadLoaded, HeadPops
<1>5. CASE UserNext /\ ~Delete /\ ~Crash
  <2>1. CASE Stop
    BY <2>1 DEF Stop
  <2>2. CASE ~Stop
    <3>1. UNCHANGED <<loaded, active, failedAck>>
      BY <1>5, <2>2, CallEnqueues
    <3>2. PICK new \in Op :
            /\ Enqueue(new) /\ new.kind \notin {"release", "complete"}
            /\ new.kind = "reack" =>
                 loaded /\ failedAck # NoAck /\ new.msg = failedAck.msg /\ new.ok = failedAck.ok
            /\ new.kind \in {"resume", "select"} => failedAck = NoAck
      BY <1>5, <2>2, CallEnqueues
    <3> QED BY <1>5, <3>1, <3>2 DEF Joins, Old
  <2> QED BY <2>1, <2>2
<1>6. CASE ResumeSettled /\ ~Delete /\ ~Crash
  <2>1. PICK cap \in settling : Enqueue([kind |-> "resume", cap |-> cap]) \/ chain' = chain
    BY <1>6 DEF ResumeSettled
  <2> DEFINE new == [kind |-> "resume", cap |-> cap]
  <2>2. new \in Op
    BY <1>0 DEF Op
  <2>3. failedAck # NoAck /\ ~host.deleted => Old(new)
    BY DEF OutcomeOrder, Barred, Old
  <2>4. new.kind = "resume"
    OBVIOUS
  <2> HIDE DEF new
  <2>5. Enqueue(new) \/ chain' = chain
    BY <2>1 DEF new
  <2> QED BY <1>6, <2>2, <2>3, <2>4, <2>5 DEF Joins
<1>7. CASE Interrupted /\ ~Delete /\ ~Crash
  <2> DEFINE new == [kind |-> "release", epoch |-> priority.epoch, cap |-> priority.cap]
  <2>1. new \in Op /\ new.kind = "release"
    BY <1>0 DEF Op
  <2>2. Enqueue(new) /\ failedAck = NoAck
    BY <1>7 DEF Interrupted
  <2> HIDE DEF new
  <2> QED BY <1>7, <2>1, <2>2 DEF Joins
<1>8. CASE FireWake /\ ~Delete /\ ~Crash
  <2> DEFINE new == [kind |-> "dispatch"]
  <2>1. new \in Op /\ new.kind = "dispatch" /\ Enqueue(new)
    BY <1>8 DEF Op, FireWake
  <2> HIDE DEF new
  <2> QED BY <1>8, <2>1 DEF Joins, Old
<1>9. CASE TurnEnds /\ ~Delete /\ ~Crash
  <2> DEFINE new == [kind |-> "complete"]
  <2>1. Enqueue(new)
    BY <1>9, Zenon DEF TurnEnds
  <2>2. new \in Op /\ new.kind = "complete"
    BY DEF Op
  <2> HIDE DEF new
  <2> QED BY <1>9, <2>1, <2>2 DEF Joins, Old
<1>10. CASE \/ Load \/ InterruptFails \/ PriorityEnds \/ KeepOutcome \/ TurnCloses \/ GateMoves
            \/ Maintain \/ BusyBegins \/ BusyEnds \/ AdmissionRefused
  BY <1>10 DEF Load, InterruptFails, PriorityEnds, KeepOutcome, TurnCloses, GateMoves, Maintain,
     BusyBegins, BusyEnds, AdmissionRefused
<1> QED BY <1>1, <1>2, <1>3, <1>4, <1>5, <1>6, <1>7, <1>8, <1>9, <1>10 DEF Next, QueueNext, HostNext

\* A resume that comes too late to save a kept outcome finds its message gone, or the queue
\* still paused: nothing that waits in front of it can start the queue.
LEMMA StillPaused ==
  ASSUME TypeInv, StopInv, KeepInv, OutcomeInv, Next, loaded, loaded', failedAck = NoAck,
         NEW op \in Range(chain), op \in Range(chain'), op.kind = "reack", op.msg \in Live(mem')
  PROVE  mem'.paused
<1>0. chain \in Seq(Op) /\ generation \in Nat
  BY DEF TypeInv, TypeOK
<1>1. mem.paused
  <2>1. Waiting(op)
    BY DEF OutcomeInv, OutcomeOrder
  <2>2. op.msg \in Live(mem)
    BY <2>1, LiveStep, QueueTypes DEF Waiting
  <2> QED BY <2>1, <2>2 DEF Waiting
<1>2. SUFFICES ASSUME ~mem'.paused PROVE FALSE
  OBVIOUS
<1>3. /\ chain # << >> /\ host.gate = "open" /\ (SubmitCommit \/ Resume \/ Release)
      /\ \/ Head(chain).kind \in {"submit", "resume"} /\ Head(chain).cap.gen = generation
         \/ Head(chain).kind = "release" /\ Head(chain).epoch = generation
  BY <1>1, <1>2, Unpauses
<1>4. CASE SubmitCommit
  <2>1. Resumes(Head(chain).cap)
    BY <1>1, <1>2, <1>4, CommitEffect
  <2>2. Live(mem) = {}
    BY <2>1 DEF Resumes, Live, Range
  <2> QED BY <2>2, LiveStep, QueueTypes DEF OutcomeInv, OutcomeOrder, Waiting
<1>5. CASE Resume \/ Release
  <2>1. chain' = Tail(chain) /\ Head(chain).kind \in {"resume", "release"}
    BY <1>5 DEF Resume, Release, Pop, AtHead
  <2>2. InFront(Head(chain), op, chain) /\ Head(chain) \in Range(chain) /\ Head(chain) \in Op
    BY <1>0, <1>3, <2>1, TailInFront, ChainShrinks
  <2>3. Old(Head(chain))
    BY <1>3, <2>2 DEF OutcomeInv, OutcomeOrder, InOrder, StopInv
  <2>4. generation < generation
    BY <1>3, <2>1, <2>3 DEF Old
  <2> QED BY <1>0, <2>4
<1> QED BY <1>3, <1>4, <1>5

\* Every operation that goes on waiting still has its place.
LEMMA WaitsOn ==
  ASSUME TypeInv, StopInv, KeepInv, FenceInv, OutcomeInv, Next, ~Crash,
         NEW op \in Range(chain), op \in Range(chain')
  PROVE  Waiting(op)'
<1>0. /\ TurnsKnown /\ Waiting(op) /\ chain \in Seq(Op)
      /\ active \in [at: {"idle", "running", "acking", "acked", "unacked", "closing"},
                     msg: MessageOrNone, ok: BOOLEAN]
  BY DEF OutcomeInv, OutcomeOrder, TypeInv, TypeOK
<1>1. ASSUME TurnSaved \/ TurnUnsaved, op.kind \in {"complete", "reack"}
      PROVE  FALSE
  <2>1. chain # << >> /\ Head(chain).kind = "complete"
    BY <1>1 DEF TurnSaved, TurnUnsaved, AtHead
  <2>2. chain' = Tail(chain)
    BY <1>1 DEF TurnSaved, TurnUnsaved, Pop
  <2> QED BY <1>0, <1>1, <2>1, <2>2, TailInFront, ChainShrinks DEF OutcomeInv, OutcomeOrder, InOrder
<1>2. op.kind = "complete" => active'.at = "acking"
  <2> SUFFICES ASSUME op.kind = "complete" PROVE active'.at = "acking"
    OBVIOUS
  <2>1. active.at = "acking" /\ failedAck = NoAck
    BY <1>0 DEF Waiting, TurnsKnown
  <2>2. ~Starts /\ ~TurnEnds /\ ~KeepOutcome /\ ~TurnCloses
    BY <2>1 DEF Starts, Idle, TurnEnds, KeepOutcome, TurnCloses
  <2> QED BY <1>1, <2>1, <2>2, Effects, <1>0 DEF Calm, Supersedes, KeptSaved
<1>3. ASSUME op.kind = "reack"
      PROVE  /\ loaded' \/ host'.deleted
             /\ op.msg \in DOMAIN content' /\ active'.at # "unacked"
             /\ active'.at \in AtWork => active'.msg # op.msg
             /\ failedAck' # NoAck => op.msg = failedAck'.msg /\ op.ok = failedAck'.ok
             /\ failedAck' = NoAck /\ op.msg \in Live(mem') => mem'.paused
  <2>0. /\ loaded \/ host.deleted
        /\ op.msg \in DOMAIN content /\ active.at # "unacked"
        /\ active.at \in AtWork => active.msg # op.msg
        /\ failedAck # NoAck => op.msg = failedAck.msg /\ op.ok = failedAck.ok
        /\ failedAck = NoAck /\ op.msg \in Live(mem) => mem.paused
    BY <1>0, <1>3 DEF Waiting
  <2>1. op.msg \in DOMAIN content'
    BY <2>0, LiveStep
  <2>2. ~TurnSaved /\ ~TurnUnsaved /\ ~KeepOutcome
    BY <1>1, <1>3, <2>0 DEF KeepOutcome
  <2>3. /\ active'.at # "unacked" /\ (active'.at \in AtWork => active'.msg # op.msg)
        /\ failedAck' # NoAck => failedAck' = failedAck
    <3>1. CASE Calm \/ Supersedes \/ KeptSaved
      BY <2>0, <3>1 DEF Calm, Supersedes, KeptSaved
    <3>2. CASE Starts
      BY <2>0, <3>2 DEF Starts
    <3>3. CASE TurnEnds
      <4>1. \E ok : active' = [active EXCEPT !.at = "acking", !.ok = ok]
        BY <3>3, Zenon DEF TurnEnds
      <4>2. active.at = "running" /\ failedAck' = failedAck
        BY <3>3 DEF TurnEnds
      <4> QED BY <1>0, <2>0, <4>1, <4>2 DEF AtWork
    <3>4. CASE TurnCloses
      BY <3>4 DEF TurnCloses, Idle, AtWork
    <3> QED BY <2>2, <3>1, <3>2, <3>3, <3>4, Effects, <1>0
  <2>4. loaded' \/ host'.deleted
    <3>1. CASE Delete
      BY <3>1 DEF Delete, TypeInv, TypeOK, Host
    <3>2. CASE host.deleted
      BY <3>2, DeletedStep
    <3>3. CASE loaded /\ ~Delete
      <4>1. CASE Calm
        BY <3>3, <4>1 DEF Calm
      <4>2. CASE TurnEnds \/ TurnCloses
        BY <3>3, <4>2 DEF TurnEnds, TurnCloses, queueVars
      <4>3. CASE Supersedes \/ Starts \/ KeptSaved
        BY <4>3 DEF Supersedes, Starts, KeptSaved, Saves
      <4> QED BY <2>2, <4>1, <4>2, <4>3, Effects, <1>0
    <3> QED BY <2>0, <3>1, <3>2, <3>3
  <2>5. ASSUME failedAck' = NoAck, op.msg \in Live(mem')
        PROVE  mem'.paused
    <3>1. op.msg \in Live(disk)
      BY <2>0, <2>5, LiveStep
    <3>2. loaded
      <4>1. Live(disk) = {} \/ ~host.deleted
        BY DEF FenceInv, Live, Range
      <4> QED BY <2>0, <3>1, <4>1
    <3>3. loaded'
      <4>1. ~Delete
        BY <2>5 DEF Delete, EmptyQueue, Live, Range
      <4>2. CASE Calm
        BY <3>2, <4>1, <4>2 DEF Calm
      <4>3. CASE TurnEnds \/ TurnCloses
        BY <3>2, <4>3 DEF TurnEnds, TurnCloses, queueVars
      <4>4. CASE Supersedes \/ Starts \/ KeptSaved
        BY <4>4 DEF Supersedes, Starts, KeptSaved, Saves
      <4> QED BY <2>2, <4>2, <4>3, <4>4, Effects, <1>0
    <3>4. CASE failedAck = NoAck
      BY <1>3, <2>5, <3>2, <3>3, <3>4, StillPaused
    <3>5. CASE failedAck # NoAck
      <4>1. KeptSaved
        <5>1. failedAck' # failedAck
          BY <2>5, <3>5
        <5>2. ~Calm /\ ~Supersedes /\ ~Starts /\ ~TurnEnds /\ ~TurnCloses
          BY <5>1 DEF Calm, Supersedes, Starts, TurnEnds, TurnCloses
        <5> QED BY <2>2, <5>2, Effects, <1>0
      <4>2. Head(chain).msg = op.msg /\ Head(chain).ok = op.ok
        BY <2>0, <3>5, <4>1, HeadWaits DEF KeptSaved, AtHead, Waiting, OutcomeInv
      <4> QED BY <2>5, <4>1, <4>2 DEF KeptSaved, Saves
    <3> QED BY <3>4, <3>5
  <2> QED BY <2>0, <2>1, <2>3, <2>4, <2>5
<1> QED BY <1>2, <1>3 DEF Waiting

\* Nobody but a sendNow that has just been selected waits for a turn to end, and only a saved
\* outcome lets another resume follow.
LEMMA PriorityStep ==
  ASSUME TypeInv, Next
  PROVE  /\ settling' \subseteq settling \/ failedAck' = NoAck
         /\ priority'.at = "interrupting" =>
              \/ priority.at = "interrupting" /\ priority'.epoch = priority.epoch
              \/ /\ AtHead("select") /\ Head(chain).cap.gen = generation
<1> USE DEF queueVars, turnVars, dataVars
<1>0. priority \in [at: {"none", "selecting", "interrupting", "releasing", "ended"},
                    msg: MessageOrNone, epoch: Nat, cap: Capture]
  BY DEF TypeInv, TypeOK
<1>1. Ended => priority'.at # "interrupting"
  BY <1>0 DEF Ended
<1>2. CASE Select
  BY <1>1, <1>2 DEF Select
<1>3. CASE Release
  BY <1>1, <1>3 DEF Release
<1>4. CASE Reacknowledge
  BY <1>4 DEF Reacknowledge, CommitFails
<1>5. CASE SubmitCommit
  BY <1>5, Zenon DEF SubmitCommit
<1>6. CASE \/ SubmitAdmit \/ SubmitEnds \/ RemoveItem \/ Detach \/ Resume \/ Dispatch \/ Complete
  <2>1. settling' = settling /\ priority' = priority
    BY <1>6 DEF SubmitAdmit, SubmitEnds, RemoveItem, Detach, Resume, Dispatch, Complete
  <2> QED BY <2>1
<1>7. CASE UserNext
  <2>1. CASE Stop \/ Delete
    BY <2>1 DEF Stop, Delete
  <2> QED BY <1>7, <2>1, CallEnqueues
<1>8. CASE InterruptFails
  BY <1>1, <1>8 DEF InterruptFails
<1>9. CASE Interrupted
  BY <1>0, <1>9 DEF Interrupted
<1>10. CASE PriorityEnds \/ Crash
  <2>1. priority' = NoPriority /\ (settling' = settling \/ settling' = {})
    BY <1>10 DEF PriorityEnds, Crash
  <2> QED BY <2>1 DEF NoPriority
<1>11. CASE ResumeSettled
  BY <1>11 DEF ResumeSettled
<1>12. CASE TurnEnds
  BY <1>12, Zenon DEF TurnEnds
<1>13. CASE \/ Load \/ FireWake \/ KeepOutcome \/ TurnCloses \/ GateMoves \/ Maintain
            \/ BusyBegins \/ BusyEnds \/ AdmissionRefused
  BY <1>13 DEF Load, FireWake, KeepOutcome, TurnCloses, GateMoves, Maintain, BusyBegins, BusyEnds,
     AdmissionRefused
<1> QED BY <1>2, <1>3, <1>4, <1>5, <1>6, <1>7, <1>8, <1>9, <1>10, <1>11, <1>12, <1>13
        DEF Next, HeadStep, QueueNext, HostNext

LEMMA OrderStep ==
  ASSUME TypeInv, StopInv, KeepInv, FenceInv, OutcomeInv, Next
  PROVE  OutcomeOrder'
<1>0. /\ TurnsKnown /\ OutcomeOrder /\ chain \in Seq(Op) /\ Range(chain) \subseteq Op
      /\ generation \in Nat /\ priority.epoch \in Nat /\ settling \subseteq Capture
      /\ chain' \in Seq(Op)
      /\ active \in [at: {"idle", "running", "acking", "acked", "unacked", "closing"},
                     msg: MessageOrNone, ok: BOOLEAN]
  BY RangeOfSeq, TypeStep DEF OutcomeInv, TypeInv, TypeOK
<1>1. CASE Crash
  <2>1. Range(chain') = {} /\ failedAck' = NoAck
    BY <1>1 DEF Crash, Range
  <2> QED BY <2>1 DEF OutcomeOrder, Barred
<1>2. CASE ~Crash
  <2>1. ASSUME NEW a \in Range(chain), NEW b \in Range(chain), InOrder(a, b)
        PROVE  InOrder(a, b)'
    <3>1. CASE Delete
      <4>1. host'.deleted
        BY <3>1 DEF Delete, TypeInv, TypeOK, Host
      <4> QED BY <2>1, <4>1 DEF InOrder
    <3>2. CASE ~Delete
      BY <1>0, <1>2, <2>1, <3>2, OldStays, DeletedStep DEF InOrder
    <3> QED BY <3>1, <3>2
  <2>2. ASSUME NEW new \in Op, Joins(new)
        PROVE  /\ Range(chain') = Range(chain) \cup {new}
               /\ Waiting(new)'
               /\ \A a \in Range(chain) : InOrder(a, new)'
               /\ failedAck # NoAck /\ ~host'.deleted => Old(new)'
    <3>1. Range(chain') = Range(chain) \cup {new}
      BY <1>0, <2>2, ChainGrows DEF Joins, Enqueue
    <3>2. CASE new.kind = "complete"
      <4>1. TurnEnds
        BY <2>2, <3>2 DEF Joins
      <4>2. \E ok : active' = [active EXCEPT !.at = "acking", !.ok = ok]
        BY <4>1, Zenon DEF TurnEnds
      <4>3. active'.at = "acking" /\ active.at = "running"
        BY <1>0, <4>1, <4>2 DEF TurnEnds
      <4>4. \A a \in Range(chain) : a.kind # "complete"
        BY <1>0, <4>3 DEF OutcomeOrder, Waiting
      <4> QED BY <3>1, <3>2, <4>3, <4>4 DEF Waiting, InOrder, Old
    <3>3. CASE new.kind = "reack"
      <4>1. /\ loaded /\ failedAck # NoAck /\ new.msg = failedAck.msg /\ new.ok = failedAck.ok
            /\ loaded' = loaded /\ active' = active /\ failedAck' = failedAck
        BY <2>2, <3>3 DEF Joins
      <4>2. active.at \in {"idle", "closing"} /\ new.msg \in DOMAIN content'
        BY <1>0, <4>1, LiveStep DEF TurnsKnown
      <4>3. Waiting(new)'
        BY <3>3, <4>1, <4>2 DEF Waiting, AtWork
      <4>4. ASSUME NEW a \in Range(chain) PROVE InOrder(a, new)'
        <5>1. a.kind # "complete"
          BY <1>0, <4>2 DEF OutcomeOrder, Waiting
        <5>2. Old(a) \/ host.deleted
          BY <1>0, <4>1 DEF OutcomeOrder, Barred
        <5> QED BY <1>0, <2>2, <5>1, <5>2, OldStays, DeletedStep DEF InOrder, Joins
      <4> QED BY <3>1, <3>3, <4>3, <4>4 DEF Old
    <3>4. CASE new.kind \notin {"complete", "reack"}
      <4>1. failedAck # NoAck /\ ~host'.deleted => Old(new)'
        BY <2>2, OldStays, DeletedStep DEF Joins
      <4> QED BY <3>1, <3>4, <4>1 DEF Waiting, InOrder
    <3> QED BY <3>2, <3>3, <3>4
  <2>3. ASSUME NEW new \in Op, Admits(new)
        PROVE  /\ Range(chain') = {new} \cup Range(Tail(chain))
               /\ Waiting(new)' /\ Old(new)' /\ \A b : InOrder(new, b)'
               /\ Tail(chain) \in Seq(Op) /\ Range(Tail(chain)) \subseteq Range(chain)
               /\ chain' = <<new>> \o Tail(chain) /\ chain # << >>
    <3>1. /\ Tail(chain) \in Seq(Op) /\ Range(Tail(chain)) \subseteq Range(chain)
          /\ chain' = <<new>> \o Tail(chain) /\ chain # << >>
      BY <1>0, <2>3, ChainShrinks DEF Admits
    <3>2. Range(chain') = {new} \cup Range(Tail(chain))
      <4> DEFINE rest == Tail(chain)
      <4>1. rest \in Seq(Op) /\ chain' = <<new>> \o rest
        BY <3>1
      <4> HIDE DEF rest
      <4>2. Range(<<new>> \o rest) = {new} \cup Range(rest)
        BY <4>1, HeadAdded
      <4> QED BY <4>1, <4>2 DEF rest
    <3>3. new.kind = "submit"
      BY <2>3 DEF Admits
    <3> QED BY <3>1, <3>2, <3>3 DEF Waiting, Old, InOrder
  <2>4. ASSUME NEW op \in Range(chain')
        PROVE  Waiting(op)'
    <3>1. CASE op \in Range(chain)
      BY <1>2, <2>4, <3>1, WaitsOn
    <3>2. CASE op \notin Range(chain)
      <4>1. chain' # chain /\ ~(chain # << >> /\ chain' = Tail(chain))
        BY <1>0, <2>4, <3>2, ChainShrinks
      <4>2. \E new \in Op : (Admits(new) \/ Joins(new)) /\ op = new
        BY <1>0, <1>2, <2>2, <2>3, <2>4, <3>2, <4>1, ChainMoves
      <4> QED BY <2>2, <2>3, <4>2
    <3> QED BY <3>1, <3>2
  <2>5. ASSUME NEW a \in Range(chain'), NEW b \in Range(chain'), InFront(a, b, chain')
        PROVE  InOrder(a, b)'
    <3>1. CASE chain' = chain
      BY <1>0, <2>1, <2>5, <3>1 DEF OutcomeOrder
    <3>2. CASE chain # << >> /\ chain' = Tail(chain)
      <4>1. InFront(a, b, chain) /\ a \in Range(chain) /\ b \in Range(chain)
        BY <1>0, <2>5, <3>2, TailInFront, ChainShrinks
      <4> QED BY <1>0, <2>1, <4>1 DEF OutcomeOrder
    <3>3. CASE \E new \in Op : Admits(new)
      <4>1. PICK new \in Op : Admits(new)
        BY <3>3
      <4> DEFINE rest == Tail(chain)
      <4>2. rest \in Seq(Op) /\ chain' = <<new>> \o rest
        BY <2>3, <4>1
      <4> HIDE DEF rest
      <4>3. InFront(a, b, rest) \/ a = new
        BY <2>5, <4>2, HeadInFront
      <4>4. CASE InFront(a, b, rest)
        <5>1. InFront(a, b, chain)
          BY <1>0, <2>3, <4>1, <4>4, TailInFront DEF rest
        <5>2. a \in Range(chain) /\ b \in Range(chain)
          BY <5>1 DEF InFront, Range
        <5> QED BY <1>0, <2>1, <5>1, <5>2 DEF OutcomeOrder
      <4>5. CASE a = new
        BY <2>3, <4>1, <4>5
      <4> QED BY <4>3, <4>4, <4>5
    <3>4. CASE \E new \in Op : Joins(new)
      <4>1. PICK new \in Op : Joins(new)
        BY <3>4
      <4>2. chain' = Append(chain, new)
        BY <4>1 DEF Joins, Enqueue
      <4>3. InFront(a, b, chain) \/ (a \in Range(chain) /\ b = new)
        BY <1>0, <2>5, <4>2, AppendInFront
      <4>4. CASE InFront(a, b, chain)
        <5>1. a \in Range(chain) /\ b \in Range(chain)
          BY <4>4 DEF InFront, Range
        <5> QED BY <1>0, <2>1, <4>4, <5>1 DEF OutcomeOrder
      <4> QED BY <2>2, <4>1, <4>3, <4>4
    <3> QED BY <1>0, <1>2, <3>1, <3>2, <3>3, <3>4, ChainMoves
  <2>6. Barred'
    <3> SUFFICES ASSUME failedAck' # NoAck, ~host'.deleted
                 PROVE  /\ \A op \in Range(chain') : Old(op)'
                        /\ \A cap \in settling' : cap.gen < generation'
                        /\ priority'.at = "interrupting" => priority'.epoch < generation'
      BY DEF Barred
    <3>1. ~host.deleted /\ ~Delete
      <4>1. Delete => host'.deleted
        BY DEF Delete, TypeInv, TypeOK, Host
      <4> QED BY <4>1, DeletedStep
    <3>2. CASE failedAck = NoAck
      <4>1. KeepOutcome
        <5>1. failedAck' # failedAck
          BY <3>2
        <5>2. ~Calm /\ ~Supersedes /\ ~Starts /\ ~TurnSaved /\ ~TurnUnsaved /\ ~TurnEnds /\ ~TurnCloses
          BY <5>1 DEF Calm, Supersedes, Starts, TurnSaved, TurnUnsaved, TurnEnds, TurnCloses
        <5>3. ~KeptSaved
          BY DEF KeptSaved
        <5> QED BY <1>0, <1>2, <5>2, <5>3, Effects
      <4>2. chain' = chain /\ settling' = settling /\ priority' = priority /\ generation' = generation + 1
        BY <4>1 DEF KeepOutcome
      <4>3. ASSUME NEW op \in Range(chain) PROVE Old(op)'
        <5>1. op \in Op /\ OpFresh(op, generation, hist.stops)
          BY <1>0, <3>1 DEF StopInv
        <5>2. op.kind \in {"resume", "select"} => op.cap.gen \in Nat /\ op.cap.gen <= generation
          BY <5>1, OpFields DEF OpFresh, Fresh, Capture
        <5>3. op.kind = "release" => op.epoch \in Nat /\ op.epoch <= generation
          BY <5>1, OpFields DEF OpFresh, Fresh
        <5> QED BY <1>0, <4>2, <5>2, <5>3 DEF Old
      <4>4. ASSUME NEW cap \in settling PROVE cap.gen < generation'
        <5>1. cap.gen \in Nat /\ cap.gen <= generation
          BY <1>0, <3>1 DEF StopInv, Fresh, Capture
        <5> QED BY <1>0, <4>2, <5>1
      <4>5. priority.at = "interrupting" => priority.epoch < generation'
        BY <1>0, <3>1, <4>2 DEF StopInv, Fresh
      <4> QED BY <4>2, <4>3, <4>4, <4>5
    <3>3. CASE failedAck # NoAck
      <4>1. /\ \A op \in Range(chain) : Old(op)'
            /\ \A cap \in settling : cap.gen < generation'
            /\ priority.at = "interrupting" => priority.epoch < generation'
        <5>1. \A cap \in settling : cap.gen \in Nat
          BY <1>0 DEF Capture
        <5> QED BY <1>0, <1>2, <3>1, <3>3, <5>1, OldStays DEF OutcomeOrder, Barred
      <4>2. \A op \in Range(chain') : Old(op)'
        <5>1. CASE chain' = chain \/ (chain # << >> /\ chain' = Tail(chain))
          BY <1>0, <4>1, <5>1, ChainShrinks
        <5>2. CASE \E new \in Op : Admits(new) \/ Joins(new)
          BY <2>2, <2>3, <3>3, <4>1, <5>2
        <5> QED BY <1>0, <1>2, <5>1, <5>2, ChainMoves
      <4>3. settling' \subseteq settling
        BY PriorityStep
      <4>4. ASSUME priority'.at = "interrupting" PROVE priority'.epoch < generation'
        <5>1. ~(AtHead("select") /\ Head(chain).cap.gen = generation)
          <6>1. chain # << >> => Head(chain) \in Range(chain)
            BY <1>0, ChainShrinks
          <6>2. \A op \in Range(chain) : Old(op)
            BY <1>0, <3>1, <3>3 DEF OutcomeOrder, Barred
          <6> QED BY <1>0, <6>1, <6>2 DEF AtHead, Old
        <5> QED BY <4>1, <4>4, <5>1, PriorityStep
      <4> QED BY <4>1, <4>2, <4>3, <4>4
    <3> QED BY <3>2, <3>3
  <2> QED BY <2>4, <2>5, <2>6 DEF OutcomeOrder
<1> QED BY <1>1, <1>2

LEMMA OutcomeInit ==
  ASSUME Init
  PROVE  OutcomeInv
<1>1. Range(<< >>) = {}
  BY DEF Range
<1> QED BY <1>1 DEF Init, OutcomeInv, OutcomesOwned, TurnsKnown, OutcomeOrder, Barred, Fits, Live, Final,
     EmptyQueue, Idle, AtWork

LEMMA OutcomeStep ==
  ASSUME TypeInv, StopInv, KeepInv, FenceInv, OutcomeInv, [Next]_vars
  PROVE  OutcomeInv'
<1>1. CASE Next
  BY <1>1, OwnedStep, TurnsKnownStep, OrderStep DEF OutcomeInv
<1>2. CASE UNCHANGED vars
  BY <1>2 DEF vars, queueVars, turnVars, dataVars, OutcomeInv, OutcomesOwned, TurnsKnown, OutcomeOrder,
     Barred, Fits, Live, Final, Owned, Waiting, InOrder, Old
<1> QED BY <1>1, <1>2

\* A message whose turn has ended for good (it succeeded, or a sendNow replaced it) is never
\* handed to the executor again, whatever save failed in between and in whatever order the
\* resumes, stops and wakes that followed were run; only what a restart found half done may be.
THEOREM OutcomesAreFinal == Spec => OutcomeIsFinal
<1> DEFINE A == \A m \in mem'.sending \ mem.sending :
                  m \in hist.succeeded \cup hist.superseded => m \in hist.unsure
<1>1. TypeInv /\ KeepInv /\ OutcomeInv /\ [Next]_vars => [A]_vars
  <2> SUFFICES ASSUME TypeInv, KeepInv, OutcomeInv, Next,
                      NEW m \in mem'.sending \ mem.sending,
                      m \in hist.succeeded \cup hist.superseded
               PROVE  m \in hist.unsure
    OBVIOUS
  <2>1. TurnsKnown /\ OutcomesOwned
    BY DEF OutcomeInv
  <2>2. Starts
    <3>1. ~Calm /\ ~Supersedes /\ ~TurnSaved /\ ~TurnUnsaved /\ ~KeptSaved
      BY DEF Calm, Supersedes, TurnSaved, TurnUnsaved, KeptSaved, Saves, queueVars
    <3>2. ~TurnEnds /\ ~TurnCloses
      BY DEF TurnEnds, TurnCloses, queueVars
    <3>3. ~KeepOutcome /\ ~Crash
      <4>1. mem'.sending # {} /\ mem \in Queue
        BY QueueTypes
      <4>2. Still(mem).sending = {} /\ EmptyQueue.sending = {}
        BY <4>1 DEF Still, EmptyQueue, Queue
      <4> QED BY <4>1, <4>2 DEF KeepOutcome, Crash
    <3> QED BY <2>1, <3>1, <3>2, <3>3, Effects
  <2>3. m \in Live(mem) /\ ~Owned(m)
    BY <2>2 DEF Starts, Owned, Idle, AtWork
  <2> QED BY <2>1, <2>3 DEF OutcomesOwned, Final
<1>2. Spec => []StopInv
  BY StopInit, StopStep, TypeInvariant, PTL DEF Spec
<1>3. Spec => []FenceInv
  BY <1>2, FenceInit, FenceStep, KeepInvariant, PTL DEF Spec
<1>4. Spec => []OutcomeInv
  BY <1>2, <1>3, OutcomeInit, OutcomeStep, KeepInvariant, PTL DEF Spec
<1>5. [][A]_vars => OutcomeIsFinal
  BY PTL DEF OutcomeIsFinal
<1> QED BY <1>1, <1>4, <1>5, KeepInvariant, PTL DEF Spec
=============================================================================
