------------------------- MODULE SubmissionsProofs -------------------------
(***************************************************************************)
(* What holds of a submission and its product for any contents, any rule   *)
(* between categories and details, and any number of requests.             *)
(***************************************************************************)
EXTENDS Submissions, TLAPS

\* The text fields a copy has read when it is at pc.
Copied(pc) ==
    IF pc = "name" THEN {} ELSE IF pc = "categories" THEN {"name"}
    ELSE IF pc = "details" THEN {"name", "categories"} ELSE Text

\* A withdrawal has the row locked and a copy that no review has outdated.
WithdrawalsFresh ==
    \A q \in Requests : job[q].op = "discard" =>
        /\ lock = q /\ sub.status \in Editable
        /\ job[q].pc \in Fields \cup {"copied"}
        /\ \A f \in Copied(job[q].pc) : author[f] = "review" => job[q].buf[f] = live[f]

\* Who copies the product or edits it has seen it.
ProductSeen ==
    \A q \in Requests : job[q].pc \in Fields \cup {"copied", "basic"} => live # NoProduct

\* What is with the review is, but for its files, what the vendor sent.
FrozenSent == sub.status \in Pending => \A f \in Text : sub.content[f] = sent[f]

ReviewedExists == live = NoProduct => \A f \in Text : author[f] # "review"

IInv ==
    /\ TypeOK /\ WithdrawalsFresh /\ ProductSeen
    /\ FrozenSent /\ ReviewedExists /\ ConfirmedAgrees /\ LiveFits

----------------------------------------------------------------------------
LEMMA FieldFacts ==
  /\ Text = {"name", "categories", "details"} /\ Text \subseteq Fields
  /\ Paired = {"categories", "details"} /\ Paired \subseteq Text
  /\ Blank \in Content /\ Idle \in JobType
  /\ NoProduct \notin Content
BY SubmissionsAssumption DEF Text, Paired, Fields, Blank, Content, Idle, JobType

LEMMA InitIInv == Init => IInv
<1>. SUFFICES ASSUME Init PROVE IInv
  OBVIOUS
<1>1. TypeOK
  BY FieldFacts DEF Init, TypeOK, NoSubmission
<1>2. WithdrawalsFresh /\ ProductSeen /\ FrozenSent /\ ReviewedExists /\ ConfirmedAgrees
  BY DEF Init, WithdrawalsFresh, ProductSeen, FrozenSent, ReviewedExists, ConfirmedAgrees,
     NoSubmission, Idle, Pending, Fields
<1>3. LiveFits
  BY DEF Init, LiveFits
<1> QED BY <1>1, <1>2, <1>3 DEF IInv

\* Nobody withdraws while the row is not locked.
LEMMA Unlocked ==
  ASSUME IInv, lock = Nobody
  PROVE  \A q \in Requests : job[q].op # "discard"
BY SubmissionsAssumption DEF IInv, WithdrawalsFresh

----------------------------------------------------------------------------
\* Steps on the submission alone, the row being free: the vendor's, and the
\* review's that sends it back.
LEMMA OnlySub ==
  ASSUME IInv, UNCHANGED <<live, author, unchecked, lock>>, \A q \in Requests : job[q].op # "discard",
         \/ UNCHANGED job
         \/ \E q \in Requests : Become(q, Idle),
         sub' \in [status : Editable \cup Pending \cup {"none"}, content : Content],
         sent' \in Content, FrozenSent', ConfirmedAgrees'
  PROVE  IInv'
<1>1. TypeOK'
  BY FieldFacts DEF IInv, TypeOK, Become
<1>2. WithdrawalsFresh' /\ ProductSeen'
  BY DEF IInv, TypeOK, WithdrawalsFresh, ProductSeen, Become, Idle, Fields
<1>3. ReviewedExists' /\ LiveFits'
  BY DEF IInv, ReviewedExists, LiveFits
<1> QED BY <1>1, <1>2, <1>3 DEF IInv

LEMMA UpdateInv ==
  ASSUME IInv, NEW c \in Content, CreateDraft(c) \/ Update(c)
  PROVE  IInv'
<1>1. CASE CreateDraft(c)
  <2>1. /\ sub' = [status |-> "draft", content |-> c]
        /\ UNCHANGED <<live, author, unchecked, sent, lock, job>> /\ live = NoProduct
    BY <1>1 DEF CreateDraft
  <2>2. \A q \in Requests : job[q].op # "discard"
    BY <1>1 DEF CreateDraft, IInv, WithdrawalsFresh, Editable
  <2>3. FrozenSent' /\ ConfirmedAgrees'
    BY <2>1 DEF FrozenSent, ConfirmedAgrees, Pending
  <2> QED BY <2>1, <2>2, <2>3, OnlySub DEF IInv, TypeOK, Editable
<1>2. CASE Update(c)
  <2>1. /\ sub' = [status |-> IF sub.status = "confirmed" /\ c # live
                              THEN "draft" ELSE sub.status, content |-> c]
        /\ UNCHANGED <<live, author, unchecked, sent, lock, job>>
        /\ lock = Nobody /\ sub.status \in Editable
    BY <1>2 DEF Update
  <2>2. FrozenSent'
    BY <2>1 DEF FrozenSent, Pending, Editable
  <2>3. ConfirmedAgrees'
    BY <2>1 DEF IInv, ConfirmedAgrees, ReviewedExists
  <2>4. sub' \in [status : Editable \cup Pending \cup {"none"}, content : Content]
    BY <2>1 DEF Editable
  <2> QED BY <2>1, <2>2, <2>3, <2>4, Unlocked, OnlySub DEF IInv, TypeOK
<1> QED BY <1>1, <1>2

LEMMA SubmitInv ==
  ASSUME IInv, Submit \/ DiscardDraft \/ \E code \in {"need_recheck", "reject"} : Decide(code)
  PROVE  IInv'
<1>1. /\ lock = Nobody /\ UNCHANGED <<live, author, unchecked, lock, job>>
  BY DEF Submit, DiscardDraft, Decide
<1>2. /\ sub' \in [status : Editable \cup Pending \cup {"none"}, content : Content]
      /\ sent' \in Content
  <2>1. sub \in [status : Editable \cup Pending \cup {"none"}, content : Content]
        /\ sent \in Content
    BY DEF IInv, TypeOK
  <2>2. CASE Submit
    BY <2>1, <2>2 DEF Submit, Pending
  <2>3. CASE DiscardDraft
    BY <2>1, <2>3, FieldFacts DEF DiscardDraft, NoSubmission
  <2>4. CASE \E code \in {"need_recheck", "reject"} : Decide(code)
    BY <2>1, <2>4, FieldFacts DEF Decide, Editable
  <2> QED BY <2>2, <2>3, <2>4
<1>3. FrozenSent' /\ ConfirmedAgrees'
  BY DEF IInv, TypeOK, Submit, DiscardDraft, Decide, NoSubmission, FrozenSent, ConfirmedAgrees,
     Pending, Editable
<1> QED BY <1>1, <1>2, <1>3, Unlocked, OnlySub

LEMMA FileInv ==
  ASSUME IInv, NEW q \in Requests, NEW v \in Values, WriteFile(q, v)
  PROVE  IInv'
<1>1. /\ lock = Nobody /\ UNCHANGED <<live, author, unchecked, sent, lock>> /\ Become(q, Idle)
      /\ sub' = sub \/ sub' = [sub EXCEPT !.content["media"] = v]
  BY DEF WriteFile
<1>2. sub \in [status : Editable \cup Pending \cup {"none"}, content : Content]
  BY DEF IInv, TypeOK
<1>3. /\ sub' \in [status : Editable \cup Pending \cup {"none"}, content : Content]
      /\ sub'.status = sub.status /\ \A f \in Text : sub'.content[f] = sub.content[f]
  BY <1>1, <1>2, FieldFacts DEF Content, Fields
<1>4. FrozenSent' /\ ConfirmedAgrees'
  BY <1>1, <1>3 DEF IInv, FrozenSent, ConfirmedAgrees
<1> QED BY <1>1, <1>3, <1>4, Unlocked, OnlySub DEF IInv, TypeOK

----------------------------------------------------------------------------
\* Steps of one request that change nothing but what it knows.
LEMMA OnlyJob ==
  ASSUME IInv, NEW q \in Requests, NEW j \in JobType, Become(q, j),
         UNCHANGED <<sub, live, author, unchecked, sent>>,
         lock' = lock \/ (lock \in {Nobody, q} /\ lock' \in {Nobody, q}),
         j.op = "discard" =>
            /\ lock' = q /\ sub.status \in Editable
            /\ j.pc \in Fields \cup {"copied"}
            /\ \A f \in Copied(j.pc) : author[f] = "review" => j.buf[f] = live[f],
         j.pc \in Fields \cup {"copied", "basic"} => live # NoProduct
  PROVE  IInv'
<1>1. job' \in [Requests -> JobType] /\ job'[q] = j /\ \A r \in Requests \ {q} : job'[r] = job[r]
  BY DEF IInv, TypeOK, Become
<1>2. TypeOK'
  BY <1>1 DEF IInv, TypeOK
<1>3. ProductSeen'
  BY <1>1 DEF IInv, ProductSeen
<1>4. WithdrawalsFresh'
  <2>. SUFFICES ASSUME NEW r \in Requests, job'[r].op = "discard"
                PROVE  /\ lock' = r /\ sub'.status \in Editable
                       /\ job'[r].pc \in Fields \cup {"copied"}
                       /\ \A f \in Copied(job'[r].pc) :
                             author'[f] = "review" => job'[r].buf[f] = live'[f]
    BY DEF WithdrawalsFresh
  <2>1. CASE r = q
    BY <1>1, <2>1
  <2>2. CASE r # q
    BY <1>1, <2>2, SubmissionsAssumption DEF IInv, WithdrawalsFresh
  <2> QED BY <2>1, <2>2
<1>5. FrozenSent' /\ ReviewedExists' /\ ConfirmedAgrees' /\ LiveFits'
  BY DEF IInv, FrozenSent, ReviewedExists, ConfirmedAgrees, LiveFits
<1> QED BY <1>2, <1>3, <1>4, <1>5 DEF IInv

LEMMA BeginInv ==
  ASSUME IInv, NEW q \in Requests,
         \/ BeginFile(q) \/ BeginBaseline(q) \/ BeginDiscard(q)
         \/ \E v \in Values : BeginBasic(q, v)
  PROVE  IInv'
<1>1. CASE BeginFile(q)
  <2>. DEFINE j == [Idle EXCEPT !.pc = "file"]
  <2>1. j \in JobType /\ j.op = "none" /\ j.pc = "file"
    BY FieldFacts DEF Idle, JobType
  <2> QED BY <1>1, <2>1, OnlyJob DEF BeginFile, Fields
<1>2. CASE BeginBaseline(q)
  <2>. DEFINE j == [Idle EXCEPT !.pc = "name", !.op = "baseline"]
  <2>1. j \in JobType /\ j.op = "baseline"
    BY FieldFacts DEF Idle, JobType, Fields
  <2> QED BY <1>2, <2>1, OnlyJob DEF BeginBaseline
<1>3. CASE BeginDiscard(q)
  <2>. DEFINE j == [Idle EXCEPT !.pc = "name", !.op = "discard"]
  <2>1. j \in JobType /\ j.pc = "name" /\ "name" \in Fields /\ Copied("name") = {}
    BY FieldFacts DEF Idle, JobType, Fields, Copied
  <2> QED BY <1>3, <2>1, OnlyJob DEF BeginDiscard
<1>4. ASSUME NEW v \in Values, BeginBasic(q, v) PROVE IInv'
  <2>. DEFINE j == [Idle EXCEPT !.pc = "basic", !.buf["name"] = v]
  <2>1. j \in JobType /\ j.op = "none"
    BY FieldFacts DEF Idle, JobType, Blank, Content, Fields
  <2> QED BY <1>4, <2>1, OnlyJob DEF BeginBasic
<1> QED BY <1>1, <1>2, <1>3, <1>4

LEMMA CopyInv ==
  ASSUME IInv, NEW q \in Requests, CopyNext(q)
  PROVE  IInv'
<1>. DEFINE f == job[q].pc
            j == [job[q] EXCEPT !.pc = After[f], !.buf[f] = live[f]]
<1>1. job[q] \in JobType /\ f \in Fields /\ live \in Content
  BY DEF CopyNext, IInv, TypeOK, ProductSeen
<1>2. /\ Become(q, j) /\ UNCHANGED <<sub, live, author, unchecked, sent, lock>>
  BY DEF CopyNext
<1>3. After[f] \in Fields \cup {"copied"}
  BY <1>1 DEF After, Fields
<1>4. j \in JobType /\ j.pc = After[f] /\ j.op = job[q].op
  BY <1>1, <1>3 DEF JobType, Content
<1>5. /\ j.buf[f] = live[f] /\ \A g \in Fields \ {f} : j.buf[g] = job[q].buf[g]
  BY <1>1 DEF JobType, Content
<1>6. Copied(After[f]) \subseteq Copied(f) \cup {f} /\ Copied(After[f]) \subseteq Fields
  BY <1>1, FieldFacts DEF After, Copied, Fields
<1>7. live # NoProduct
  BY <1>1, FieldFacts
<1>. HIDE DEF f, j
<1>8. j.op = "discard" =>
        /\ lock' = q /\ sub.status \in Editable
        /\ \A g \in Copied(j.pc) : author[g] = "review" => j.buf[g] = live[g]
  BY <1>2, <1>4, <1>5, <1>6 DEF IInv, WithdrawalsFresh, f
<1> QED BY <1>2, <1>3, <1>4, <1>7, <1>8, OnlyJob

LEMMA SaveCopyInv ==
  ASSUME IInv, NEW q \in Requests, SaveBaseline(q) \/ SaveDiscard(q)
  PROVE  IInv'
<1>0. job[q] \in JobType /\ job[q].buf \in Content /\ live # NoProduct
  BY DEF SaveBaseline, SaveDiscard, IInv, TypeOK, JobType, ProductSeen
<1>1. CASE SaveBaseline(q)
  <2>1. /\ UNCHANGED <<live, author, unchecked, sent, lock>> /\ Become(q, Idle) /\ job[q].op = "baseline"
    BY <1>1 DEF SaveBaseline
  <2>2. CASE sub.status = "none"
    <3>1. sub' = [status |-> "draft", content |-> job[q].buf]
      BY <1>1, <2>2 DEF SaveBaseline
    <3>2. \A r \in Requests : job[r].op # "discard"
      BY <2>2 DEF IInv, WithdrawalsFresh, Editable
    <3>3. FrozenSent' /\ ConfirmedAgrees'
      BY <3>1 DEF FrozenSent, ConfirmedAgrees, Pending
    <3>4. sub' \in [status : Editable \cup Pending \cup {"none"}, content : Content]
      BY <1>0, <3>1 DEF Editable
    <3> QED BY <2>1, <3>2, <3>3, <3>4, OnlySub DEF IInv, TypeOK
  <2>3. CASE sub.status # "none"
    <3>1. sub' = sub
      BY <1>1, <2>3 DEF SaveBaseline
    <3> QED BY <2>1, <3>1, FieldFacts, OnlyJob DEF Idle, Fields
  <2> QED BY <2>2, <2>3
<1>2. CASE SaveDiscard(q)
  <2>1. /\ sub' = [status |-> "confirmed", content |-> job[q].buf]
        /\ UNCHANGED <<live, author, unchecked, sent>> /\ lock' = Nobody /\ Become(q, Idle)
        /\ job[q].op = "discard" /\ job[q].pc = "copied" /\ lock = q
    BY <1>2 DEF SaveDiscard, IInv, WithdrawalsFresh
  <2>2. \A f \in Text : author[f] = "review" => job[q].buf[f] = live[f]
    BY <2>1 DEF IInv, WithdrawalsFresh, Copied
  <2>3. job'[q] = Idle /\ \A r \in Requests \ {q} : job'[r] = job[r]
    BY <2>1 DEF IInv, TypeOK, Become
  <2>4. TypeOK'
    BY <1>0, <2>1, FieldFacts DEF IInv, TypeOK, Become, Editable
  <2>5. WithdrawalsFresh' /\ ProductSeen'
    BY <2>1, <2>3 DEF IInv, WithdrawalsFresh, ProductSeen, Idle, Fields
  <2>6. FrozenSent' /\ ReviewedExists' /\ ConfirmedAgrees' /\ LiveFits'
    BY <1>0, <2>1, <2>2 DEF IInv, FrozenSent, ReviewedExists, ConfirmedAgrees, LiveFits, Pending
  <2> QED BY <2>4, <2>5, <2>6 DEF IInv
<1> QED BY <1>1, <1>2

LEMMA CrashInv ==
  ASSUME IInv, NEW q \in Requests, Crash(q)
  PROVE  IInv'
<1>1. /\ UNCHANGED <<sub, live, author, unchecked, sent>> /\ Become(q, Idle)
      /\ lock' = IF lock = q THEN Nobody ELSE lock
  BY DEF Crash
<1> QED BY <1>1, FieldFacts, OnlyJob DEF Idle, Fields

----------------------------------------------------------------------------
\* The review, which has both rows to itself.
LEMMA ReviewInv ==
  ASSUME IInv, Confirm \/ \E fields \in (SUBSET Fields) \ {{}} : Apply(fields)
  PROVE  /\ IInv'
         /\ \A f \in Text : live'[f] = sent[f] \/ (live # NoProduct /\ live'[f] = live[f])
<1>0. /\ sub \in [status : Editable \cup Pending \cup {"none"}, content : Content]
      /\ lock = Nobody /\ UNCHANGED <<lock, job>> /\ sent' = Blank
      /\ sub.status \in Pending
  BY DEF IInv, TypeOK, Confirm, Apply, Pending
<1>1. /\ live' \in Content /\ author' \in [Text -> {"catalog", "review"}]
      /\ unchecked' \in BOOLEAN
      /\ sub' = [status |-> "confirmed", content |-> live']
  <2>1. CASE Confirm
    BY <1>0, <2>1 DEF Confirm
  <2>2. ASSUME NEW fields \in (SUBSET Fields) \ {{}}, Apply(fields)
        PROVE /\ live' \in Content /\ author' \in [Text -> {"catalog", "review"}]
              /\ unchecked' \in BOOLEAN
              /\ sub' = [status |-> "confirmed", content |-> live']
    <3>1. live \in Content
      BY <2>2 DEF Apply, IInv, TypeOK
    <3>2. Ticked(fields) \in Content
      BY <1>0, <3>1 DEF Ticked, Content
    <3> QED BY <2>2, <3>2 DEF Apply, IInv, TypeOK
  <2> QED BY <2>1, <2>2
<1>2. \A f \in Text : live'[f] = sub.content[f] \/ (live # NoProduct /\ live'[f] = live[f])
  BY FieldFacts DEF Confirm, Apply, Ticked
<1>3. LiveFits'
  <2>1. CASE Confirm
    BY <2>1 DEF Confirm, LiveFits
  <2>2. ASSUME NEW fields \in (SUBSET Fields) \ {{}}, Apply(fields) PROVE LiveFits'
    <3>1. CASE fields \cap Paired # {}
      BY <2>2, <3>1 DEF Apply, LiveFits
    <3>2. CASE fields \cap Paired = {}
      <4>1. /\ live' = Ticked(fields) /\ live # NoProduct
            /\ unchecked' = (unchecked /\ fields \cap Paired = {})
        BY <2>2 DEF Apply
      <4>2. "categories" \notin fields /\ "details" \notin fields
        BY <3>2, FieldFacts
      <4>3. live'["categories"] = live["categories"] /\ live'["details"] = live["details"]
        BY <4>1, <4>2 DEF Ticked, Fields
      <4>4. ~unchecked' => ~unchecked
        BY <3>2, <4>1, Zenon
      <4> QED BY <4>1, <4>3, <4>4 DEF IInv, LiveFits, Fits
    <3> QED BY <3>1, <3>2
  <2> QED BY <2>1, <2>2
<1>4. TypeOK'
  BY <1>0, <1>1, FieldFacts DEF IInv, TypeOK, Editable
<1>5. WithdrawalsFresh' /\ ProductSeen'
  BY <1>0, <1>1, FieldFacts, Unlocked DEF IInv, WithdrawalsFresh, ProductSeen
<1>6. FrozenSent' /\ ReviewedExists' /\ ConfirmedAgrees'
  BY <1>1, FieldFacts DEF FrozenSent, ReviewedExists, ConfirmedAgrees, Pending
<1>7. \A f \in Text : live'[f] = sent[f] \/ (live # NoProduct /\ live'[f] = live[f])
  BY <1>0, <1>2 DEF IInv, FrozenSent
<1> QED BY <1>3, <1>4, <1>5, <1>6, <1>7 DEF IInv

\* The catalog's edits: none of them is the review's, and a field of which
\* the review stays the author keeps its content.
LEMMA OnlyLive ==
  ASSUME IInv, UNCHANGED <<sub, sent, lock>>,
         \/ UNCHANGED job
         \/ \E q \in Requests : Become(q, Idle) /\ job[q].pc = "basic",
         live # NoProduct, live' \in Content,
         author' \in [Text -> {"catalog", "review"}], unchecked' \in BOOLEAN,
         \A f \in Text : author'[f] = "review" => author[f] = "review" /\ live'[f] = live[f],
         LiveFits'
  PROVE  IInv'
<1>1. TypeOK'
  BY FieldFacts DEF IInv, TypeOK, Become
<1>2. live' # NoProduct
  BY FieldFacts
<1>3. WithdrawalsFresh'
  <2>. SUFFICES ASSUME NEW r \in Requests, job'[r].op = "discard"
                PROVE  /\ lock' = r /\ sub'.status \in Editable
                       /\ job'[r].pc \in Fields \cup {"copied"}
                       /\ \A f \in Copied(job'[r].pc) :
                             author'[f] = "review" => job'[r].buf[f] = live'[f]
    BY DEF WithdrawalsFresh
  <2>1. job'[r] = job[r]
    BY DEF IInv, TypeOK, Become, Idle
  <2>2. Copied(job[r].pc) \subseteq Text
    BY FieldFacts DEF Copied
  <2> QED BY <2>1, <2>2 DEF IInv, WithdrawalsFresh
<1>4. ProductSeen' /\ FrozenSent' /\ ReviewedExists'
  BY <1>2 DEF IInv, ProductSeen, FrozenSent, ReviewedExists
<1>5. ConfirmedAgrees'
  BY <1>2 DEF IInv, ConfirmedAgrees
<1> QED BY <1>1, <1>3, <1>4, <1>5 DEF IInv

LEMMA CatalogInv ==
  ASSUME IInv, Catalog
  PROVE  IInv'
<1>0. live \in Content /\ author \in [Text -> {"catalog", "review"}] /\ unchecked \in BOOLEAN
  BY DEF IInv, TypeOK, Catalog, UpdateComplete, ImportProduct, AddDetail, ProductFile
<1>1. ASSUME NEW c \in Content, UpdateComplete(c) PROVE IInv'
  <2>1. /\ live # NoProduct /\ live' = c /\ Fits(c) /\ UNCHANGED <<sub, sent, lock, job>>
        /\ author' = [f \in Text |-> "catalog"] /\ unchecked' = FALSE
    BY <1>1 DEF UpdateComplete
  <2> QED BY <2>1, OnlyLive DEF LiveFits
<1>2. ASSUME NEW v \in Values, AddDetail(v) PROVE IInv'
  <2>1. /\ live # NoProduct /\ live' = [live EXCEPT !["details"] = v]
        /\ author' = [author EXCEPT !["details"] = "catalog"] /\ unchecked' = TRUE
        /\ UNCHANGED <<sub, sent, lock, job>>
    BY <1>2 DEF AddDetail, Writes
  <2>2. /\ live' \in Content /\ author' \in [Text -> {"catalog", "review"}]
        /\ author'["details"] = "catalog"
        /\ \A f \in Text \ {"details"} : author'[f] = author[f] /\ live'[f] = live[f]
    BY <1>0, <2>1, FieldFacts DEF Content
  <2>3. LiveFits'
    BY <2>1 DEF LiveFits
  <2> QED BY <2>1, <2>2, <2>3, OnlyLive
<1>3. ASSUME NEW v \in Values, ProductFile(v) PROVE IInv'
  <2>1. /\ live # NoProduct /\ live' = [live EXCEPT !["media"] = v]
        /\ UNCHANGED <<sub, author, unchecked, sent, lock, job>>
    BY <1>3 DEF ProductFile
  <2>2. live' \in Content /\ \A f \in Text : live'[f] = live[f]
    BY <1>0, <2>1, FieldFacts DEF Content
  <2>3. LiveFits'
    BY <2>1, <2>2, FieldFacts DEF IInv, LiveFits, Fits
  <2> QED BY <1>0, <2>1, <2>2, <2>3, OnlyLive
<1>4. ASSUME NEW c \in Content, ImportProduct(c) PROVE IInv'
  <2>1. /\ live # NoProduct /\ live' = c /\ UNCHANGED <<sub, sent, lock, job>>
        /\ author' = [f \in Text |-> "catalog"] /\ unchecked' = TRUE
    BY <1>4 DEF ImportProduct
  <2> QED BY <2>1, OnlyLive DEF LiveFits
<1> QED BY <1>1, <1>2, <1>3, <1>4 DEF Catalog

LEMMA SaveBasicInv ==
  ASSUME IInv, NEW q \in Requests, SaveBasic(q)
  PROVE  IInv'
<1>1. /\ job[q].pc = "basic" /\ live' = [live EXCEPT !["name"] = job[q].buf["name"]]
      /\ author' = [author EXCEPT !["name"] = "catalog"] /\ Become(q, Idle)
      /\ UNCHANGED <<sub, unchecked, sent, lock>>
  BY DEF SaveBasic, Writes
<1>2. /\ live # NoProduct /\ live \in Content /\ job[q].buf["name"] \in Values
      /\ author \in [Text -> {"catalog", "review"}] /\ unchecked \in BOOLEAN
  BY <1>1, FieldFacts DEF IInv, TypeOK, ProductSeen, JobType, Content
<1>3. /\ live' \in Content /\ author' \in [Text -> {"catalog", "review"}]
      /\ author'["name"] = "catalog"
      /\ \A f \in Text \ {"name"} : author'[f] = author[f] /\ live'[f] = live[f]
  BY <1>1, <1>2, FieldFacts DEF Content
<1>4. LiveFits'
  BY <1>1, <1>2, <1>3, FieldFacts DEF IInv, LiveFits, Fits
<1> QED BY <1>1, <1>2, <1>3, <1>4, OnlyLive

----------------------------------------------------------------------------
LEMMA NextIInv == IInv /\ [Next]_vars => IInv'
<1>. SUFFICES ASSUME IInv, [Next]_vars PROVE IInv'
  OBVIOUS
<1>1. CASE Vendor
  BY <1>1, UpdateInv, SubmitInv DEF Vendor
<1>2. CASE Review
  BY <1>2, ReviewInv, SubmitInv DEF Review
<1>3. CASE Catalog
  BY <1>3, CatalogInv
<1>4. ASSUME NEW q \in Requests, RequestStep(q) PROVE IInv'
  BY <1>4, BeginInv, FileInv, CopyInv, SaveCopyInv, SaveBasicInv, CrashInv DEF RequestStep
<1>5. CASE UNCHANGED vars
  BY <1>5 DEF vars, IInv, TypeOK, WithdrawalsFresh, ProductSeen, FrozenSent, ReviewedExists,
     ConfirmedAgrees, LiveFits
<1> QED BY <1>1, <1>2, <1>3, <1>4, <1>5 DEF Next

\* The inductive invariant: what withdrawals in progress know, and what is
\* with the review.
THEOREM SubmissionsInvariance == Spec => []IInv
BY InitIInv, NextIInv, PTL DEF Spec

\* Submissions, products and requests keep their types.
THEOREM SubmissionsTyped == Spec => []TypeOK
BY SubmissionsInvariance, PTL DEF IInv

\* A confirmed submission agrees with what the review put into the catalog.
THEOREM ConfirmedKeepsPromise == Spec => []ConfirmedAgrees
BY SubmissionsInvariance, PTL DEF IInv

\* Categories and details in the catalog fit each other while whoever wrote one
\* of them last tested it against the other: a review, or an edit of the whole
\* product, and not the endpoint of single details or the importer.
THEOREM CatalogFits == Spec => []LiveFits
BY SubmissionsInvariance, PTL DEF IInv

\* What a review publishes is what the vendor sent.
THEOREM PublishedAsSent == Spec => ApprovedAsSent
<1>1. ASSUME IInv, [Next]_vars, sub.status \in Pending /\ sub'.status = "confirmed"
      PROVE  \A f \in Text : live'[f] = sent[f] \/ (live # NoProduct /\ live'[f] = live[f])
  <2>1. sub.status \notin Editable \cup {"none"} /\ sub'.status # sub.status
    BY <1>1 DEF Pending, Editable
  <2>2. CASE Confirm \/ \E fields \in (SUBSET Fields) \ {{}} : Apply(fields)
    BY <1>1, <2>2, ReviewInv
  <2>3. CASE ~(Confirm \/ \E fields \in (SUBSET Fields) \ {{}} : Apply(fields))
    <3>1. \A q \in Requests : ~SaveDiscard(q)
      BY <1>1, <2>1 DEF SaveDiscard, IInv, WithdrawalsFresh
    <3>2. \A q \in Requests : RequestStep(q) => sub'.status = sub.status
      BY <1>1, <2>1, <3>1 DEF RequestStep, BeginFile, WriteFile, BeginBaseline, BeginDiscard,
         CopyNext, SaveBaseline, BeginBasic, SaveBasic, Crash, IInv, TypeOK
    <3>3. ~Vendor
      BY <1>1, <2>1 DEF Vendor, CreateDraft, Update, Submit, DiscardDraft
    <3>4. ~Review
      <4>1. ASSUME NEW code \in {"need_recheck", "reject"}, Decide(code) PROVE FALSE
        <5>1. sub'.status = code
          BY <4>1 DEF Decide, IInv, TypeOK
        <5> QED BY <1>1, <4>1, <5>1
      <4> QED BY <2>3, <4>1 DEF Review
    <3>5. ~Catalog
      BY <2>1 DEF Catalog, UpdateComplete, AddDetail, ImportProduct, ProductFile
    <3> QED BY <1>1, <2>1, <3>2, <3>3, <3>4, <3>5 DEF Next, vars
  <2> QED BY <2>2, <2>3
<1>2. IInv /\ [Next]_vars =>
        [sub.status \in Pending /\ sub'.status = "confirmed" =>
             \A f \in Text : \/ live'[f] = sent[f]
                             \/ live # NoProduct /\ live'[f] = live[f]]_vars
  BY <1>1
<1> QED BY <1>2, SubmissionsInvariance, PTL DEF Spec, ApprovedAsSent

=============================================================================
