----------------------- MODULE ReviewSubmissionProofs -----------------------
(***************************************************************************)
(* For any number of attempts, texts and POSTs, and whatever GitHub does   *)
(* with them: a receipt is of a Review that exists, a recovery follows a   *)
(* refusal, and, when turns end with their attempts, a job posts once.     *)
(***************************************************************************)
EXTENDS ReviewSubmission, FiniteSetTheorems, WellFoundedInduction, TLAPS

TurnType ==
    [pc : {"idle", "read", "record", "search", "mark", "post", "wait", "over"},
     text : Texts \cup {None}, inline : BOOLEAN, had : BOOLEAN, fallback : BOOLEAN,
     post : Nat, stale : BOOLEAN]

RowType == [status : Active \cup {"succeeded", "failed", "superseded"},
            intent : Texts \cup {None}, inline : BOOLEAN, receipt : Nat, misplaced : BOOLEAN]

SentType == [text : Texts, inline : BOOLEAN, again : BOOLEAN,
             state : {"flying", "accepted", "misplaced", "dropped"}]

TypesOK == TypeOK /\ turn \in [Turns -> TurnType]

\* GitHub refused one of the POSTs for its comments.
Refused == \E k \in DOMAIN sent : sent[k].state = "misplaced"

\* What a call knows when it has got to a step.
CallOK(c) ==
    /\ c.pc \in {"read", "record"} => c.text \in Texts
    /\ c.pc \in {"search", "post", "wait"} => c.text \in Texts /\ c.text = row.intent
    /\ c.pc = "wait" => c.post \in DOMAIN sent
    /\ c.pc \in {"record", "search", "post"} /\ c.fallback => ~c.inline /\ Refused
    /\ c.pc = "post" /\ c.had => c.fallback

CallsOK == \A t \in Turns : CallOK(turn[t])

\* Everything that was sent says what the job intends.
SentOK == \A i \in DOMAIN sent : sent[i].text = row.intent

RefusalOK == row.misplaced => Refused

SubmissionInv ==
    TypesOK /\ CallsOK /\ SentOK /\ RefusalOK /\ RecoveryAfterRefusal /\ ReceiptIsReal

-----------------------------------------------------------------------------
LEMMA Rows == TypesOK => /\ row \in RowType /\ attempts \in Turns /\ sent \in Seq(SentType)
                         /\ turn \in [Turns -> TurnType]
  BY DEF TypesOK, TypeOK, RowType, SentType

LEMMA TypesFrom ==
    ASSUME row' \in RowType, attempts' \in Turns, sent' \in Seq(SentType),
           turn' \in [Turns -> TurnType]
    PROVE  TypesOK'
  BY DEF TypesOK, TypeOK, RowType, SentType

LEMMA SentTyped ==
    ASSUME sent \in Seq(SentType)
    PROVE  /\ DOMAIN sent = 1 .. Len(sent) /\ Len(sent) \in Nat
           /\ \A i \in DOMAIN sent : sent[i] \in SentType
  OBVIOUS

\* The oldest of the reviews is one of them.
LEMMA OldestIsReview ==
    ASSUME TypesOK, Reviews # {}
    PROVE  Oldest(Reviews) \in Reviews
<1>1. Reviews \subseteq Nat
  BY Rows DEF Reviews
<1>2. PICK n \in Reviews : \A k \in Reviews : ~(<<k, n>> \in OpToRel(<, Nat))
  BY <1>1, NatLessThanWellFounded, WFMin, Zenon
<1>3. ASSUME NEW k \in Reviews PROVE n <= k
  <2> SUFFICES ASSUME k < n PROVE FALSE
    BY <1>1
  <2>1. <<k, n>> \in Nat \X Nat /\ <<k, n>>[1] = k /\ <<k, n>>[2] = n
    BY <1>1
  <2>2. <<k, n>> \in OpToRel(<, Nat)
    BY <2>1 DEF OpToRel
  <2> QED
    BY <2>2, <1>2
<1> QED
  BY <1>3 DEF Oldest

\* A step that sends nothing and changes the row only within these limits
\* keeps the invariant, when the calls it touches stay in order.
RowKept ==
    /\ row' \in RowType
    /\ row'.intent = row.intent
    /\ row'.misplaced => Refused
    /\ row'.receipt = row.receipt \/ row'.receipt \in Reviews

LEMMA RowStep ==
    ASSUME SubmissionInv, RowKept, sent' = sent, attempts' \in Turns,
           turn' \in [Turns -> TurnType],
           \A t \in Turns : turn'[t] = turn[t] \/ turn'[t].pc \in {"idle", "over", "mark"}
                              \/ CallOK(turn'[t])
    PROVE  SubmissionInv'
<1>1. TypesOK'
  BY Rows, TypesFrom DEF SubmissionInv, RowKept
<1>2. Refused' <=> Refused
  BY DEF Refused
<1>3. CallsOK'
  <2> SUFFICES ASSUME NEW t \in Turns PROVE CallOK(turn[t])'
    BY DEF CallsOK
  <2>1. CASE turn'[t] = turn[t] \/ CallOK(turn'[t])
    <3>1. CallOK(turn'[t])
      BY <2>1 DEF SubmissionInv, CallsOK
    <3> QED
      BY <3>1, <1>2 DEF CallOK, RowKept
  <2>2. CASE turn'[t].pc \in {"idle", "over", "mark"}
    BY <2>2 DEF CallOK
  <2> QED
    BY <2>1, <2>2
<1>4. SentOK' /\ RefusalOK' /\ RecoveryAfterRefusal'
  BY <1>2 DEF SubmissionInv, SentOK, RefusalOK, RecoveryAfterRefusal, RowKept
<1>5. ReceiptIsReal'
  <2>1. CASE row'.receipt = row.receipt
    BY <2>1 DEF SubmissionInv, ReceiptIsReal, RowKept
  <2>2. CASE row'.receipt \in Reviews
    BY <2>2 DEF SubmissionInv, ReceiptIsReal, RowKept, Reviews, SentOK
  <2> QED
    BY <2>1, <2>2 DEF RowKept
<1> QED
  BY <1>1, <1>3, <1>4, <1>5 DEF SubmissionInv

LEMMA ReturnsStep ==
    ASSUME TypesOK, NEW t \in Turns, Returns(t)
    PROVE  /\ turn' \in [Turns -> TurnType]
           /\ \A u \in Turns : turn'[u] = turn[u] \/ turn'[u].pc \in {"idle", "over", "mark"}
<1>1. [Quiet EXCEPT !.stale = turn[t].stale] \in TurnType
  BY Rows DEF Quiet, TurnType
<1>2. [Quiet EXCEPT !.stale = turn[t].stale].pc = "idle"
  BY DEF Quiet
<1> QED
  BY Rows, <1>1, <1>2 DEF Returns

\* What the store writes for a call or for the worker stays within the limits.
LEMMA ReconcilingKept ==
    ASSUME SubmissionInv, row' = Reconciling \/ row' = row
    PROVE  RowKept
<1>1. row \in RowType /\ (row.misplaced => Refused)
  BY Rows DEF SubmissionInv, RefusalOK
<1> QED
  BY <1>1 DEF RowKept, Reconciling, RowType, Active

LEMMA ReceivedKept ==
    ASSUME SubmissionInv, NEW i \in Reviews, row' = Received(i)
    PROVE  RowKept
<1>1. row \in RowType /\ i \in Nat
  BY Rows DEF SubmissionInv, Reviews
<1> QED
  BY <1>1 DEF RowKept, Received, RowType, Active

LEMMA InitSubmission == Init => SubmissionInv
<1> SUFFICES ASSUME Init PROVE SubmissionInv
  OBVIOUS
<1>1. row \in RowType /\ attempts \in Turns /\ sent = <<>>
  BY SubmissionAssumption DEF Init, RowType, Active, Turns
<1>2. \A t \in Turns : turn[t] \in TurnType /\ turn[t].pc \in {"idle", "over"}
                        /\ turn[t].fallback = FALSE
  BY DEF Init, Quiet, TurnType
<1>3. turn \in [Turns -> TurnType]
  BY <1>2 DEF Init
<1>4. TypesOK
  BY <1>1, <1>3 DEF TypesOK, TypeOK, RowType, SentType
<1> QED
  BY <1>1, <1>2, <1>4 DEF Init, SubmissionInv, CallsOK, CallOK, SentOK, RefusalOK,
                          RecoveryAfterRefusal, ReceiptIsReal

LEMMA CallStep ==
    ASSUME SubmissionInv, NEW t \in Turns, Call(t)
    PROVE  SubmissionInv'
<1>0. /\ TypesOK /\ row \in RowType /\ attempts \in Turns /\ sent \in Seq(SentType)
      /\ turn \in [Turns -> TurnType] /\ turn[t] \in TurnType
      /\ (row.misplaced => Refused) /\ CallOK(turn[t])
  BY Rows DEF SubmissionInv, RefusalOK, CallsOK
<1>1. CASE ReadJob(t)
  <2>1. CASE row.receipt # 0
    BY <1>0, <1>1, <2>1, ReturnsStep, ReconcilingKept, RowStep DEF ReadJob
  <2>2. CASE row.receipt = 0
    <3>1. turn' = [turn EXCEPT ![t] = [@ EXCEPT !.pc = "record", !.had = HadIntent,
                                                  !.fallback = BodyOnlyAllowed(turn[t])]]
      BY <1>1, <2>2 DEF ReadJob
    <3>2. HadIntent \in BOOLEAN /\ BodyOnlyAllowed(turn[t]) \in BOOLEAN
      BY DEF HadIntent, BodyOnlyAllowed
    <3>3. BodyOnlyAllowed(turn[t]) => ~turn[t].inline /\ Refused
      BY <1>0 DEF BodyOnlyAllowed
    <3>4. turn' \in [Turns -> TurnType]
      BY <1>0, <3>1, <3>2 DEF TurnType
    <3>5. CallOK(turn'[t])
      BY <1>0, <1>1, <3>1, <3>3 DEF ReadJob, CallOK, TurnType
    <3>6. \A u \in Turns : u # t => turn'[u] = turn[u]
      BY <1>0, <3>1
    <3> QED
      BY <1>0, <1>1, <3>4, <3>5, <3>6, ReconcilingKept, RowStep DEF ReadJob
  <2> QED
    BY <1>0, <2>1, <2>2 DEF RowType
<1>2. CASE Search(t)
  <2>1. CASE Reviews # {}
    <3>1. Oldest(Reviews) \in Reviews
      BY <1>0, <2>1, OldestIsReview
    <3>2. RowKept
      BY <1>2, <2>1, <3>1, ReceivedKept, ReconcilingKept DEF Search
    <3> QED
      BY <1>0, <1>2, <2>1, <3>2, ReturnsStep, RowStep DEF Search
  <2>2. CASE Reviews = {}
    <3>1. turn' = [turn EXCEPT ![t].pc = IF turn[t].fallback THEN "post" ELSE "mark"]
      BY <1>2, <2>2 DEF Search
    <3>2. turn' \in [Turns -> TurnType]
      BY <1>0, <3>1 DEF TurnType
    <3>3. turn'[t].pc = "mark" \/ CallOK(turn'[t])
      BY <1>0, <1>2, <3>1 DEF Search, CallOK, TurnType
    <3>4. \A u \in Turns : u # t => turn'[u] = turn[u]
      BY <1>0, <3>1
    <3> QED
      BY <1>0, <1>2, <2>2, <3>2, <3>3, <3>4, ReconcilingKept, RowStep DEF Search
  <2> QED
    BY <2>1, <2>2
<1>3. CASE MarkUncertain(t) \/ Uncertain(t) \/ CallFails(t)
  <2>1. RowKept
    BY <1>3, ReconcilingKept DEF MarkUncertain, Uncertain, CallFails
  <2> QED
    BY <1>0, <1>3, <2>1, ReturnsStep, RowStep DEF MarkUncertain, Uncertain, CallFails
<1>4. CASE Accepted(t)
  <2>1. turn[t].post \in Reviews
    BY <1>0, <1>4 DEF Accepted, CallOK, Reviews
  <2>2. RowKept
    BY <1>4, <2>1, ReceivedKept, ReconcilingKept DEF Accepted
  <2> QED
    BY <1>0, <1>4, <2>2, ReturnsStep, RowStep DEF Accepted
<1>5. CASE Misplaced(t)
  <2>1. Refused
    BY <1>0, <1>5 DEF Misplaced, CallOK, Refused
  <2>2. RowKept
    BY <1>0, <1>5, <2>1 DEF Misplaced, RowKept, RowType
  <2> QED
    BY <1>0, <1>5, <2>2, ReturnsStep, RowStep DEF Misplaced
<1>6. CASE RecordIntent(t)
  <2>1. CASE row.receipt = 0 /\ (row.intent = None \/ SameSubmission(turn[t]))
    <3>1. /\ row' = RecordedIntent(turn[t])
          /\ turn' = [turn EXCEPT ![t].pc = IF turn[t].had THEN "search" ELSE "post"]
          /\ sent' = sent /\ attempts' = attempts
      BY <1>6, <2>1 DEF RecordIntent
    <3>2. turn[t].pc = "record" /\ turn[t].text \in Texts
      BY <1>0, <1>6 DEF RecordIntent, CallOK
    <3>3. /\ row' \in RowType /\ row'.intent = turn[t].text
          /\ row'.receipt = row.receipt /\ row'.misplaced = row.misplaced
      BY <1>0, <3>1, <3>2 DEF RecordedIntent, RowType, Active, TurnType
    <3>4. row.intent = turn[t].text \/ row.intent = None
      BY <2>1 DEF SameSubmission
    \* Nothing was sent before there was an intent.
    <3>5. row.intent = None => DOMAIN sent = {}
      <4>1. \A i \in DOMAIN sent : sent[i].text \in Texts /\ sent[i].text = row.intent
        BY <1>0, SentTyped DEF SubmissionInv, SentOK, SentType
      <4> QED
        BY <4>1, SubmissionAssumption
    <3>6. turn' \in [Turns -> TurnType]
      BY <1>0, <3>1 DEF TurnType
    <3>7. TypesOK'
      BY <1>0, <3>1, <3>3, <3>6, TypesFrom
    <3>8. Refused' <=> Refused
      BY <3>1 DEF Refused
    <3>9. CallsOK'
      <4> SUFFICES ASSUME NEW u \in Turns PROVE CallOK(turn[u])'
        BY DEF CallsOK
      <4>1. CASE u = t
        BY <1>0, <3>1, <3>2, <3>3, <3>8, <4>1 DEF CallOK, TurnType
      <4>2. CASE u # t
        <5>1. turn'[u] = turn[u] /\ CallOK(turn[u])
          BY <1>0, <3>1, <4>2 DEF SubmissionInv, CallsOK
        <5> QED
          BY <3>1, <3>3, <3>4, <3>8, <5>1, SubmissionAssumption DEF CallOK
      <4> QED
        BY <4>1, <4>2
    <3>10. SentOK' /\ RefusalOK' /\ RecoveryAfterRefusal'
      BY <1>0, <3>1, <3>3, <3>4, <3>5, <3>8
         DEF SubmissionInv, SentOK, RefusalOK, RecoveryAfterRefusal
    <3>11. ReceiptIsReal'
      BY <2>1, <3>3 DEF ReceiptIsReal
    <3> QED
      BY <3>7, <3>9, <3>10, <3>11 DEF SubmissionInv
  <2>2. CASE ~(row.receipt = 0 /\ (row.intent = None \/ SameSubmission(turn[t])))
    BY <1>0, <1>6, <2>2, ReturnsStep, ReconcilingKept, RowStep DEF RecordIntent
  <2> QED
    BY <2>1, <2>2
<1>7. CASE SendPost(t)
  <2> DEFINE n == Len(sent)
             p == Post(turn[t])
  <2>1. /\ turn[t].pc = "post" /\ sent' = Append(sent, p)
        /\ turn' = [turn EXCEPT ![t] = [@ EXCEPT !.pc = "wait", !.post = n + 1]]
        /\ row' = row /\ attempts' = attempts
    BY <1>7 DEF SendPost
  <2>2. /\ p \in SentType /\ p.text = row.intent /\ p.inline = turn[t].inline
        /\ p.again = turn[t].had /\ p.state = "flying"
    BY <1>0, <2>1 DEF Post, CallOK, SentType, TurnType
  <2> HIDE DEF p
  <2>3. /\ n \in Nat /\ DOMAIN sent = 1 .. n
        /\ sent' \in Seq(SentType) /\ DOMAIN sent' = 1 .. n + 1 /\ sent'[n + 1] = p
        /\ \A i \in 1 .. n : sent'[i] = sent[i]
    BY <1>0, <2>1, <2>2
  <2> HIDE DEF n
  <2>4. turn' \in [Turns -> TurnType]
    <3>1. \A m \in Nat : [turn[t] EXCEPT !.pc = "wait", !.post = m] \in TurnType
      BY <1>0 DEF TurnType
    <3>2. n + 1 \in Nat
      BY <2>3
    <3> QED
      BY <1>0, <2>1, <3>1, <3>2
  <2>5. TypesOK'
    BY <1>0, <2>1, <2>3, <2>4, TypesFrom
  <2>6. Refused => Refused'
    BY <2>3 DEF Refused
  <2>7. CallsOK'
    <3> SUFFICES ASSUME NEW u \in Turns PROVE CallOK(turn[u])'
      BY DEF CallsOK
    <3>1. CASE u = t
      <4>1. turn'[u].pc = "wait" /\ turn'[u].text = turn[t].text /\ turn'[u].post = n + 1
        BY <1>0, <2>1, <3>1 DEF TurnType
      <4> QED
        BY <1>0, <2>1, <2>3, <4>1 DEF CallOK
    <3>2. CASE u # t
      <4>1. turn'[u] = turn[u] /\ CallOK(turn[u])
        BY <1>0, <2>1, <3>2 DEF SubmissionInv, CallsOK
      <4> QED
        BY <2>1, <2>3, <2>6, <4>1 DEF CallOK
    <3> QED
      BY <3>1, <3>2
  <2>8. SentOK'
    BY <2>1, <2>2, <2>3 DEF SubmissionInv, SentOK
  <2>9. RefusalOK'
    BY <1>0, <2>1, <2>6 DEF RefusalOK
  <2>10. RecoveryAfterRefusal'
    <3> SUFFICES ASSUME NEW i \in 1 .. n + 1, sent'[i].again
                 PROVE  /\ ~sent'[i].inline
                        /\ \E k \in 1 .. i - 1 : /\ sent'[k].state = "misplaced"
                                                 /\ sent'[k].text = sent'[i].text
      BY <2>3 DEF RecoveryAfterRefusal
    <3>1. CASE i \in 1 .. n
      <4>1. /\ ~sent[i].inline
            /\ \E k \in 1 .. i - 1 : sent[k].state = "misplaced" /\ sent[k].text = sent[i].text
        BY <2>3, <3>1 DEF SubmissionInv, RecoveryAfterRefusal
      <4>2. \A k \in 1 .. i - 1 : k \in 1 .. n
        BY <2>3, <3>1
      <4> QED
        BY <2>3, <3>1, <4>1, <4>2
    <3>2. CASE i = n + 1
      <4>1. ~turn[t].inline /\ Refused
        BY <1>0, <2>1, <2>2, <2>3, <3>2 DEF CallOK
      <4>2. PICK k \in 1 .. n : sent[k].state = "misplaced" /\ sent[k].text = row.intent
        BY <2>3, <4>1 DEF Refused, SubmissionInv, SentOK
      <4>3. k \in 1 .. i - 1
        BY <2>3, <3>2
      <4> QED
        BY <2>2, <2>3, <3>2, <4>1, <4>2, <4>3
    <3> QED
      BY <2>3, <3>1, <3>2
  <2>11. ReceiptIsReal'
    BY <2>1, <2>3 DEF SubmissionInv, ReceiptIsReal
  <2> QED
    BY <2>5, <2>7, <2>8, <2>9, <2>10, <2>11 DEF SubmissionInv
<1> QED
  BY <1>1, <1>2, <1>3, <1>4, <1>5, <1>6, <1>7 DEF Call

LEMMA CheckHeadStep ==
    ASSUME SubmissionInv, NEW t \in Turns, NEW text \in Texts, NEW b \in BOOLEAN,
           CheckHead(t, text, b)
    PROVE  SubmissionInv'
<1>0. turn \in [Turns -> TurnType] /\ attempts \in Turns /\ turn[t].pc = "idle"
  BY Rows DEF SubmissionInv, CheckHead
<1>1. /\ turn' \in [Turns -> TurnType]
      /\ turn'[t].pc \in {"idle", "over", "mark"} \/ CallOK(turn'[t])
  <2>1. CASE moved
    BY <1>0, <2>1 DEF CheckHead, TurnType
  <2>2. CASE ~moved
    <3>1. turn' = [turn EXCEPT ![t] = [@ EXCEPT !.pc = "read", !.text = text, !.inline = b]]
      BY <2>2 DEF CheckHead
    <3> QED
      BY <1>0, <3>1 DEF CallOK, TurnType
  <2> QED
    BY <2>1, <2>2
<1>2. \A u \in Turns : u # t => turn'[u] = turn[u]
  BY <1>0 DEF CheckHead
<1> QED
  BY <1>0, <1>1, <1>2, ReconcilingKept, RowStep DEF CheckHead

LEMMA AnswerStep ==
    ASSUME SubmissionInv, NEW i \in DOMAIN sent, GitHubAnswers(i)
    PROVE  SubmissionInv'
<1>0. /\ TypesOK /\ row \in RowType /\ attempts \in Turns /\ sent \in Seq(SentType)
      /\ turn \in [Turns -> TurnType]
  BY Rows DEF SubmissionInv
<1>1. PICK state \in {"accepted", "dropped", "misplaced"} : sent' = [sent EXCEPT ![i].state = state]
  BY DEF GitHubAnswers
<1>2. /\ sent[i].state = "flying" /\ row' = row /\ turn' = turn /\ attempts' = attempts
  BY DEF GitHubAnswers
<1> DEFINE n == Len(sent)
<1>3. n \in Nat /\ DOMAIN sent = 1 .. n /\ sent \in [1 .. n -> SentType]
  BY <1>0
<1> HIDE DEF n
<1>4. /\ DOMAIN sent' = 1 .. n
      /\ \A k \in 1 .. n : /\ sent'[k] \in SentType
                           /\ sent'[k].text = sent[k].text /\ sent'[k].inline = sent[k].inline
                           /\ sent'[k].again = sent[k].again
                           /\ sent[k].state # "flying" => sent'[k].state = sent[k].state
  BY <1>1, <1>2, <1>3 DEF SentType
<1>5. sent' \in Seq(SentType)
  <2>1. sent' \in [1 .. n -> SentType]
    BY <1>1, <1>3, <1>4
  <2> QED
    BY <1>3, <2>1
<1>6. Refused => Refused'
  BY <1>3, <1>4 DEF Refused
<1>7. TypesOK'
  BY <1>0, <1>2, <1>5, TypesFrom
<1>8. CallsOK'
  BY <1>2, <1>3, <1>4, <1>6 DEF SubmissionInv, CallsOK, CallOK
<1>9. SentOK' /\ RefusalOK'
  BY <1>2, <1>3, <1>4, <1>6 DEF SubmissionInv, SentOK, RefusalOK
<1>10. RecoveryAfterRefusal'
  <2> SUFFICES ASSUME NEW k \in 1 .. n, sent[k].again
               PROVE  /\ ~sent'[k].inline
                      /\ \E j \in 1 .. k - 1 : /\ sent'[j].state = "misplaced"
                                               /\ sent'[j].text = sent'[k].text
    BY <1>4 DEF RecoveryAfterRefusal
  <2>1. /\ ~sent[k].inline
        /\ \E j \in 1 .. k - 1 : sent[j].state = "misplaced" /\ sent[j].text = sent[k].text
    BY <1>3 DEF SubmissionInv, RecoveryAfterRefusal
  <2>2. \A j \in 1 .. k - 1 : j \in 1 .. n
    BY <1>3
  <2> QED
    BY <1>4, <2>1, <2>2
<1>11. ReceiptIsReal'
  BY <1>2, <1>3, <1>4 DEF SubmissionInv, ReceiptIsReal
<1> QED
  BY <1>7, <1>8, <1>9, <1>10, <1>11 DEF SubmissionInv

LEMMA WorkerStep ==
    ASSUME SubmissionInv, AttemptEnds \/ Worker \/ Crash
    PROVE  SubmissionInv'
<1>0. /\ row \in RowType /\ attempts \in Turns /\ turn \in [Turns -> TurnType] /\ TypesOK
      /\ (row.misplaced => Refused)
  BY Rows DEF SubmissionInv, RefusalOK
<1> DEFINE Marked(status, misplaced) ==
      row' = [row EXCEPT !.status = status, !.misplaced = misplaced]
\* A new status, with the stored failure kept or cleared.
<1>1. ASSUME NEW status \in Active \cup {"succeeded", "failed", "superseded"},
             NEW b \in BOOLEAN, b => row.misplaced, Marked(status, b)
      PROVE  RowKept
  BY <1>0, <1>1 DEF RowKept, RowType
<1>2. ASSUME NEW status \in Active \cup {"succeeded", "failed", "superseded"},
             row' = [row EXCEPT !.status = status]
      PROVE  RowKept
  BY <1>0, <1>2 DEF RowKept, RowType
<1>3. ASSUME NEW error \in BOOLEAN, row' = Rescheduled(error) PROVE RowKept
  BY <1>0, <1>3 DEF Rescheduled, RowKept, RowType, Active
<1>4. row' = Failed => RowKept
  BY <1>0 DEF Failed, RowKept, RowType
<1>5. CASE AttemptEnds
  <2>1. ASSUME NEW result \in {"report", "error", "not archived", "head changed"},
               row' \in Outcomes(result)
        PROVE  RowKept
    <3>1. \E status \in Active \cup {"succeeded", "failed", "superseded"} :
             Marked(status, FALSE) \/ row' = [row EXCEPT !.status = status] \/ row' = row
      BY <2>1 DEF Outcomes, AfterFailure, Failed, Active
    <3> QED
      BY <1>1, <1>2, <3>1, ReconcilingKept
  <2>2. RowKept
    BY <1>5, <1>3, <2>1, ReconcilingKept DEF AttemptEnds, Results
  <2>3. /\ turn' \in [Turns -> TurnType]
        /\ \A t \in Turns : turn'[t] = turn[t] \/ turn'[t].pc = "over"
    BY <1>0, <1>5 DEF AttemptEnds, TurnType
  <2> QED
    BY <1>0, <1>5, <2>2, <2>3, RowStep DEF AttemptEnds
<1>6. CASE Crash
  <2>1. /\ turn' \in [Turns -> TurnType]
        /\ \A t \in Turns : turn'[t].pc = "over"
    BY <1>0, <1>6 DEF Crash, TurnType
  <2> QED
    BY <1>0, <1>6, <2>1, ReconcilingKept, RowStep DEF Crash
<1>7. CASE Recover
  <2>1. RowKept
    BY <1>0, <1>7 DEF Recover, RowKept, RowType, Active
  <2> QED
    BY <1>0, <1>7, <2>1, RowStep DEF Recover
<1>8. CASE ClaimRetry
  <2>1. RowKept
    BY <1>0, <1>4, <1>8 DEF ClaimRetry, RowKept, RowType, Active
  <2>2. attempts' \in Turns
    BY <1>0, <1>8, SubmissionAssumption DEF ClaimRetry, MayAttempt, Turns
  <2>3. /\ turn' \in [Turns -> TurnType]
        /\ \A t \in Turns : turn'[t] = turn[t] \/ turn'[t].pc = "idle"
    BY <1>0, <1>8 DEF ClaimRetry, TurnType
  <2> QED
    BY <1>8, <2>1, <2>2, <2>3, RowStep DEF ClaimRetry
<1>9. CASE Reconcile
  <2>1. RowKept
    BY <1>0, <1>3, <1>9, OldestIsReview, ReceivedKept DEF Reconcile
  <2> QED
    BY <1>0, <1>9, <2>1, RowStep DEF Reconcile
<1> QED
  BY <1>5, <1>6, <1>7, <1>8, <1>9 DEF Worker

LEMMA SubmissionStep == SubmissionInv /\ [Next]_vars => SubmissionInv'
<1> SUFFICES ASSUME SubmissionInv, [Next]_vars PROVE SubmissionInv'
  OBVIOUS
<1>1. CASE row' = row /\ attempts' = attempts /\ turn' = turn /\ sent' = sent
  BY <1>1, Rows, ReconcilingKept, RowStep DEF SubmissionInv
<1>2. CASE Push \/ FiveMinutes \/ UNCHANGED vars
  BY <1>1, <1>2 DEF Push, FiveMinutes, vars
<1> QED
  BY <1>2, CallStep, CheckHeadStep, AnswerStep, WorkerStep DEF Next

LEMMA SubmissionInvariant == Spec => []SubmissionInv
  BY InitSubmission, SubmissionStep, PTL DEF Spec

-----------------------------------------------------------------------------
(* One POST: when turns end with their attempts, one turn at most is not over. *)

OneTurn == \A t \in Turns : turn[t].pc # "over" => t = attempts /\ worker = "attempt"

\* A call that is about to record the first intent, or to send the first POST.
FirstOK(c) == /\ c.pc = "record" /\ ~c.had => row.intent = None
              /\ c.pc = "search" => c.had
              /\ c.pc = "post" /\ ~c.had => DOMAIN sent = {}

FirstPost == \A i \in DOMAIN sent : ~sent[i].again => i = 1

OnceInv == SubmissionInv /\ OneTurn /\ FirstPost /\ \A t \in Turns : FirstOK(turn[t])

LEMMA InitOnce == Init => OnceInv
<1> SUFFICES ASSUME Init PROVE OnceInv
  OBVIOUS
<1>1. \A t \in Turns : turn[t].pc = IF t = 1 THEN "idle" ELSE "over"
  BY DEF Init, Quiet
<1> QED
  BY <1>1, InitSubmission DEF Init, OnceInv, OneTurn, FirstPost, FirstOK

\* The call of the turn that is not over; every other turn stays over.
LEMMA CallOnce ==
    ASSUME OnceInv, NEW t \in Turns, Call(t) \/ \E text \in Texts, b \in BOOLEAN : CheckHead(t, text, b)
    PROVE  OneTurn' /\ FirstPost' /\ \A u \in Turns : FirstOK(turn[u])'
<1>0. /\ row \in RowType /\ sent \in Seq(SentType) /\ turn \in [Turns -> TurnType]
      /\ TypesOK /\ SentOK
  BY Rows DEF OnceInv, SubmissionInv
<1>1. /\ turn[t].pc # "over" /\ UNCHANGED <<attempts, worker>>
  BY DEF Call, CheckHead, ReadJob, RecordIntent, Search, MarkUncertain, SendPost,
         Accepted, Misplaced, Uncertain, CallFails
<1>2. \A u \in Turns : u # t => turn[u].pc = "over"
  BY <1>1 DEF OnceInv, OneTurn
<1>3. ASSUME Returns(t) PROVE turn'[t].pc = "idle"
  BY <1>0, <1>3 DEF Returns, Quiet
<1>4. \A u \in Turns : u # t => turn'[u] = turn[u]
  BY <1>0 DEF Call, CheckHead, ReadJob, RecordIntent, Search, MarkUncertain, SendPost,
              Accepted, Misplaced, Uncertain, CallFails, Returns
<1>5. OneTurn'
  BY <1>1, <1>2, <1>4 DEF OnceInv, OneTurn
<1>6. SUFFICES FirstPost' /\ FirstOK(turn[t])'
  BY <1>2, <1>4, <1>5 DEF FirstOK
\* Steps that send nothing, and after which this turn is not about to.
<1>7. ASSUME sent' = sent, turn'[t].pc \notin {"record", "search", "post"}
      PROVE  FirstPost' /\ FirstOK(turn[t])'
  BY <1>7 DEF OnceInv, FirstPost, FirstOK
<1>8. CASE \E text \in Texts, b \in BOOLEAN : CheckHead(t, text, b)
  <2>1. sent' = sent /\ turn'[t].pc \in {"idle", "read"}
    BY <1>0, <1>8 DEF CheckHead, TurnType
  <2> QED
    BY <1>7, <2>1
<1>9. CASE ReadJob(t)
  <2>1. CASE row.receipt # 0
    BY <1>3, <1>7, <1>9, <2>1 DEF ReadJob
  <2>2. CASE row.receipt = 0
    <3>1. turn' = [turn EXCEPT ![t] = [@ EXCEPT !.pc = "record", !.had = HadIntent,
                                                  !.fallback = BodyOnlyAllowed(turn[t])]]
      BY <1>9, <2>2 DEF ReadJob
    <3>2. turn'[t].pc = "record" /\ turn'[t].had = HadIntent
      BY <1>0, <3>1 DEF TurnType
    <3> QED
      BY <1>9, <3>2 DEF ReadJob, OnceInv, FirstPost, FirstOK, HadIntent
  <2> QED
    BY <2>1, <2>2
<1>10. CASE RecordIntent(t)
  <2>1. CASE row.receipt = 0 /\ (row.intent = None \/ SameSubmission(turn[t]))
    <3>1. /\ turn' = [turn EXCEPT ![t].pc = IF turn[t].had THEN "search" ELSE "post"]
          /\ sent' = sent /\ turn[t].pc = "record"
      BY <1>10, <2>1 DEF RecordIntent
    <3>2. /\ turn'[t].pc = IF turn[t].had THEN "search" ELSE "post"
          /\ turn'[t].had = turn[t].had
      BY <1>0, <3>1 DEF TurnType
    <3>3. ~turn[t].had => row.intent = None
      BY <3>1 DEF OnceInv, FirstOK
    <3>4. row.intent = None => DOMAIN sent = {}
      BY <1>0, SentTyped, SubmissionAssumption DEF SentOK, SentType
    <3> QED
      BY <3>1, <3>2, <3>3, <3>4 DEF OnceInv, FirstPost, FirstOK
  <2>2. CASE ~(row.receipt = 0 /\ (row.intent = None \/ SameSubmission(turn[t])))
    BY <1>3, <1>7, <1>10, <2>2 DEF RecordIntent
  <2> QED
    BY <2>1, <2>2
<1>11. CASE Search(t)
  <2>1. CASE Reviews # {}
    BY <1>3, <1>7, <1>11, <2>1 DEF Search
  <2>2. CASE Reviews = {}
    <3>1. /\ turn' = [turn EXCEPT ![t].pc = IF turn[t].fallback THEN "post" ELSE "mark"]
          /\ sent' = sent /\ turn[t].pc = "search"
      BY <1>11, <2>2 DEF Search
    <3>2. turn'[t].pc \in {"post", "mark"} /\ turn'[t].had = turn[t].had /\ turn[t].had
      BY <1>0, <3>1 DEF OnceInv, FirstOK, TurnType
    <3> QED
      BY <3>1, <3>2 DEF OnceInv, FirstPost, FirstOK
  <2> QED
    BY <2>1, <2>2
<1>12. CASE SendPost(t)
  <2> DEFINE n == Len(sent)
             p == Post(turn[t])
  <2>1. /\ turn[t].pc = "post" /\ sent' = Append(sent, p)
        /\ turn' = [turn EXCEPT ![t] = [@ EXCEPT !.pc = "wait", !.post = n + 1]]
    BY <1>12 DEF SendPost
  <2>2. turn'[t].pc = "wait"
    BY <1>0, <2>1 DEF TurnType
  <2>3. p \in SentType
    BY <1>0, <2>1 DEF Post, OnceInv, SubmissionInv, CallsOK, CallOK, SentType, TurnType
  <2>4. p.again = turn[t].had /\ (~turn[t].had => DOMAIN sent = {})
    BY <2>1 DEF Post, OnceInv, FirstOK
  <2> HIDE DEF p
  <2>5. /\ n \in Nat /\ DOMAIN sent = 1 .. n
        /\ DOMAIN sent' = 1 .. n + 1 /\ sent'[n + 1] = p
        /\ \A i \in 1 .. n : sent'[i] = sent[i]
    BY <1>0, <2>1, <2>3
  <2> HIDE DEF n
  <2>6. ~turn[t].had => n = 0
    BY <2>4, <2>5
  <2>7. \A i \in 1 .. n + 1 : i \in 1 .. n \/ i = n + 1
    BY <2>5
  <2>8. FirstPost'
    BY <2>4, <2>5, <2>6, <2>7 DEF OnceInv, FirstPost
  <2> QED
    BY <2>2, <2>8 DEF FirstOK
<1>13. CASE MarkUncertain(t) \/ Accepted(t) \/ Misplaced(t) \/ Uncertain(t) \/ CallFails(t)
  BY <1>3, <1>7, <1>13 DEF MarkUncertain, Accepted, Misplaced, Uncertain, CallFails
<1> QED
  BY <1>8, <1>9, <1>10, <1>11, <1>12, <1>13 DEF Call

LEMMA OnceStep ==
    ASSUME "silent" \notin Events, OnceInv, [Next]_vars
    PROVE  OnceInv'
<1>0. /\ row \in RowType /\ sent \in Seq(SentType) /\ turn \in [Turns -> TurnType]
      /\ attempts \in Turns
  BY Rows DEF OnceInv, SubmissionInv
<1>1. SubmissionInv'
  BY SubmissionStep DEF OnceInv
<1>2. CASE \E t \in Turns : Call(t) \/ \E text \in Texts, b \in BOOLEAN : CheckHead(t, text, b)
  BY <1>1, <1>2, CallOnce DEF OnceInv
<1>3. ASSUME NEW i \in DOMAIN sent, GitHubAnswers(i) PROVE OnceInv'
  <2>1. PICK state \in {"accepted", "dropped", "misplaced"} : sent' = [sent EXCEPT ![i].state = state]
    BY <1>3 DEF GitHubAnswers
  <2>2. DOMAIN sent' = DOMAIN sent /\ \A k \in DOMAIN sent : sent'[k].again = sent[k].again
    BY <1>0, <2>1, SentTyped DEF SentType
  <2> QED
    BY <1>1, <1>3, <2>2 DEF GitHubAnswers, OnceInv, OneTurn, FirstPost, FirstOK
\* After an attempt every turn is over, and a claim starts the next one.
<1>4. ASSUME \A t \in Turns : turn'[t].pc = "over", sent' = sent PROVE OnceInv'
  BY <1>1, <1>4 DEF OnceInv, OneTurn, FirstPost, FirstOK
<1>5. CASE Crash
  <2>1. \A t \in Turns : turn'[t].pc = "over"
    BY <1>0, <1>5 DEF Crash, TurnType
  <2> QED
    BY <1>4, <1>5, <2>1 DEF Crash
<1>6. CASE AttemptEnds
  <2>1. turn' = [turn EXCEPT ![attempts].pc = "over"] /\ sent' = sent
    BY <1>6 DEF AttemptEnds
  <2>2. \A t \in Turns : t # attempts => turn[t].pc = "over"
    BY DEF OnceInv, OneTurn
  <2>3. \A t \in Turns : turn'[t].pc = "over"
    BY <1>0, <2>1, <2>2 DEF TurnType
  <2> QED
    BY <1>4, <2>1, <2>3
<1>7. CASE Worker
  <2>1. worker = "free" /\ sent' = sent
    BY <1>7 DEF Worker, Recover, ClaimRetry, Reconcile
  <2>2. \A t \in Turns : turn[t].pc = "over"
    BY <2>1 DEF OnceInv, OneTurn
  <2>3. CASE turn' = turn
    BY <1>4, <2>1, <2>2, <2>3
  <2>4. CASE turn' # turn
    <3>1. /\ turn' = [turn EXCEPT ![attempts + 1].pc = "idle"]
          /\ attempts' = attempts + 1 /\ worker' = "attempt"
      BY <1>7, <2>4 DEF Worker, Recover, ClaimRetry, Reconcile
    <3>2. \A t \in Turns : turn'[t].pc = IF t = attempts + 1 THEN "idle" ELSE "over"
      BY <1>0, <2>2, <3>1 DEF TurnType
    <3> QED
      BY <1>1, <2>1, <3>1, <3>2 DEF OnceInv, OneTurn, FirstPost, FirstOK
  <2> QED
    BY <2>3, <2>4
<1>8. CASE Push \/ FiveMinutes \/ UNCHANGED vars
  <2>1. UNCHANGED <<row, attempts, turn, worker, sent>>
    BY <1>8 DEF Push, FiveMinutes, vars
  <2> QED
    BY <1>1, <2>1 DEF OnceInv, OneTurn, FirstPost, FirstOK
<1> QED
  BY <1>2, <1>3, <1>5, <1>6, <1>7, <1>8 DEF Next

LEMMA FirstIsOne == FirstPost => OneFullPost
<1> SUFFICES ASSUME FirstPost PROVE OneFullPost
  OBVIOUS
<1> DEFINE full == {i \in DOMAIN sent : ~sent[i].again}
<1>1. full \subseteq {1}
  BY DEF FirstPost
<1>2. IsFiniteSet({1}) /\ Cardinality({1}) = 1
  BY FS_Singleton
<1>3. Cardinality(full) <= Cardinality({1})
  BY <1>1, <1>2, FS_Subset
<1> QED
  BY <1>2, <1>3 DEF OneFullPost

-----------------------------------------------------------------------------
(* The theorems. *)

(* The row, the attempts and the POSTs keep their types. *)
THEOREM SubmissionTypes == Spec => []TypeOK
<1>1. SubmissionInv => TypeOK
  BY DEF SubmissionInv, TypesOK
<1> QED
  BY <1>1, SubmissionInvariant, PTL

(* A receipt stands for a Review at GitHub, with turns that outlive their
   attempts too. *)
THEOREM ReceiptsAreReal == Spec => []ReceiptIsReal
<1>1. SubmissionInv => ReceiptIsReal
  BY DEF SubmissionInv
<1> QED
  BY <1>1, SubmissionInvariant, PTL

(* A recovery without comments comes after a refusal of the same text. *)
THEOREM RecoveryFollowsRefusal == Spec => []RecoveryAfterRefusal
<1>1. SubmissionInv => RecoveryAfterRefusal
  BY DEF SubmissionInv
<1> QED
  BY <1>1, SubmissionInvariant, PTL

(* When the turn of an attempt ends with it, a job sends its Review once. *)
THEOREM SubmittedOnce == ASSUME "silent" \notin Events PROVE Spec => []OneFullPost
<1>1. OnceInv /\ [Next]_vars => OnceInv'
  BY OnceStep
<1>2. OnceInv => OneFullPost
  BY FirstIsOne DEF OnceInv
<1> QED
  BY <1>1, <1>2, InitOnce, PTL DEF Spec
=============================================================================
